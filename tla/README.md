# The battery manager in TLA+

TLA+ modules, TLC model-checking runs and TLAPS proofs for the battery manager
of OpenHarmony (`powermgr_battery_manager`): the service that turns the
reports of the battery HDI into published events, notifications, the colour of a
light, a shutdown or a hibernation of an empty battery; the client through
which other processes ask it; and the charger, the program that runs while a
device that is switched off is being charged. Paths below are relative to the repository;
`battery_service.cpp` and its neighbours are in `services/native/src/`, the
charger's files in `charger/src/`.

## 1. The system

### Parts, state and operations

| Part | State it keeps | Operations |
|---|---|---|
| `BatteryService` (`battery_service.cpp`) | `batteryInfo_`, `lastBatteryInfo_`, the mock flags, the last plug, the times and the estimate of a charge, `iBatteryInterface_`, the readiness flags, the handle of the shutdown task or the hibernation timer with its running lock | a report of the HDI (`HandleBatteryCallbackEvent`), a START or STOP report of the HDI service, a system ability that appears or disappears, the mock commands and `Reset`, the getters |
| `BatteryCallback` (`battery_callback.cpp`) | none | hands a report to the service, on a binder thread |
| `BatteryNotify` (`battery_notify.cpp`) | the one-shot flags `g_battery*Once`, the last capacity level and charge type, whether the common event service was seen | `PublishEvents` and its publishers |
| `BatteryDump` (`battery_dump.cpp`) | none | the shell's mock commands, on a binder thread |
| `BatteryLight` (`battery_light.cpp`) | whether there is a light, the colour it was told last | `InitLight` when the light service is there, `UpdateColor` with each report |
| `BatteryConfig` (`battery_config.cpp`) | what the JSON configuration said | read once, at start |
| Notifications (`services/native/notification/`) | the languages and strings of the locale, the notifications shown with their button subscriptions | a popup item of a uevent: bring the strings up to date, publish or cancel; button events |
| `ChargingSound` (`charging_sound.cpp`) | the connection to the sound extension | start, stop |
| `BatterySrvClient` (`frameworks/native/src/battery_srv_client.cpp`) | the proxy and its death recipient | connect, reset, the getters |
| Bindings (`frameworks/napi`, `ets`, `cj`, `capi`) | the posted request of `getStatus` | one conversion per getter, one exception per error code |
| Charger: `ChargerThread` and `BatteryThread` (`charger_thread.cpp`, `battery_thread.cpp`) | the last reading, the poll interval, the times of the key and the screen, `g_keys` | the loop of waits, uevents and cycles; the power key |
| Charger: `BatteryBacklight`, `ChargerAnimation`, `BatteryLed`, `BatteryVibrate`, `PowerSupplyProvider` | the screen, the views shown, the LED; none | on and off, show and hide, file reads |

### How they interact

The HDI calls `BatteryCallback::Update` on a binder thread, which calls
`HandleBatteryCallbackEvent`: it fills `batteryInfo_` and, unless nothing
changed, calls `HandleBatteryInfo`: light, capacity handling, events, then
`lastBatteryInfo_ = batteryInfo_`. A START report of the HDI service submits a
task to FFRT that registers the callback, fills
`batteryInfo_` from the getters and calls `HandleBatteryInfo` too. The Dump
commands do so on a third kind of thread. A STOP report drops the interface of
the HDI. The status listener itself is registered with the device service
manager (DSM) by `OnStart`, by a retry from the FFRT queue, or when the DSM
comes back (`OnAddSystemAbility`, after `OnRemoveSystemAbility`). When the common event service
appears, a fourth thread publishes what is known so far. The delayed shutdown
runs on the FFRT queue, the hibernation timer on an FFRT worker, its guard is a
running lock of the power manager, and a subscriber of the hibernation events
cancels the timer. `shutdownGuardMutex_`, the `mutex_` of the service and the
`mutex_` of `BatteryNotify` each protect a part of it; nothing excludes two
threads from `HandleBatteryInfo`.

A uevent that names popups, and the IPC call `HandleNotification`, load the
notification library, whose two singletons they share: the strings of the
locale, without a lock, and the map of notifications, locked except for the
publication itself.

Every other process has one `BatterySrvClient`: its threads share the proxy of
the service and its death recipient. The service may die and start again
between any two steps; the death notice comes on a thread of the binder.

The charger is one loop in one thread: `epoll_wait` with a computed timeout, a
uevent or a cycle (`HandleStates`), again. A second thread, the input monitor,
stores the power key's state in the global `g_keys`, which the loop reads
without synchronisation and without being woken.

### What is hard, and what makes a part correct

| Part | Hard | Correct when |
|---|---|---|
| Information flow | four kinds of threads on two unprotected structures; reports dropped during a mock; repeated reports skipped | once nobody is at work and nothing is mocked, the last handled information is the battery's |
| Shutdown | a handle tested and assigned without a lock; a task that runs, waits or ended; a device mode that declines | an empty battery shuts the device down; a charging one leaves no shutdown behind |
| Hibernation | a timer and a running lock with four parties and no common lock | an armed timer is guarded; no guard without a timer; an empty battery makes it ask |
| Events | one-shot flags under a lock, the information they are about not; two start-up orders | the events of a pair alternate; the subscribers end with the current reading |
| Charger | key, timeouts, poll interval and readings in any order; file reads that fail; uevents that are lost | the screen goes off, shows what was read, a held key reboots and nothing else does, a charging battery is watched |
| Life cycle | the HDI, the DSM and the listener's registration come, go and are retried in any order; a lock for one of two shared pointers | no use of a dropped interface; the service ends connected; a stopped service leaves nothing behind; a command returns |
| Client and bindings | the service dies and restarts while threads connect and call; its death is told late, to two parties | no proxy that works is dropped and no dead one kept; failures are told as such; calls recover |
| Notifications | strings without a lock that several threads rebuild; publication outside of the map's lock; a panel that refuses | what is shown can be cancelled and its buttons work (unless the name was published again), in the language of the locale; the last item of a uevent wins |
| Effects of a report | skipped calls on a light that may fail or restart; a division by a difference; thresholds in any order | the light shows what the report asks for; the estimate is that of the charge under way; a level is that of its threshold |

`PROJECT.json` lists every hazard at its line with the properties that would
catch it.

## 2. Modules

| Module | Models |
|---|---|
| `BatteryInfoFlow` | from a report, a START task or a mock command to `batteryInfo_`, the handling and `lastBatteryInfo_` |
| `LowCapacityShutdown` (extends it) | `HandleCapacity`, the delayed task and its handle: the default build |
| `LowCapacityHibernate` (extends it) | `HandleCapacityExt`, timer, guard and subscriber: the build with `BATTERY_MANAGER_SET_LOW_CAPACITY_THRESHOLD` |
| `ReportEffects` | the other effects of `HandleBatteryInfo`: the light, the wake-up, the remaining charge time; and the capacity level |
| `EdgeEvents` | abstract: what the subscribers of the paired events are promised |
| `BatteryNotify` | the publishers, the one-shot flags, the uevents and the start-up order; implements `EdgeEvents` (`Promise == INSTANCE EdgeEvents WITH ...`) |
| `Notifications` | `HandleNotification` of a uevent and the notification library it loads |
| `HdiLifeCycle` | `OnStart`, `OnStop`, the status listener with its retries, START and STOP reports, the DSM's notices, `mutex_`, and whoever uses the HDI's interface |
| `BatteryClient` | `BatterySrvClient`, what the service answers it, and what the bindings make of the answer |
| `ChargerThread` | the charger's loop, key, screen and display |
| `LowCapacityShutdownProofs`, `LowCapacityHibernateProofs`, `ReportEffectsProofs`, `BatteryNotifyProofs`, `NotificationsProofs`, `HdiLifeCycleProofs`, `BatteryClientProofs`, `ChargerThreadProofs` | the theorems; the first two each carry the lemmas about the `BatteryInfoFlow` that both models extend |
| `MC...` | the model values, symmetry and constraints of the runs |

### How state and actions correspond to the code

**Threads and steps.** A thread of the service is an element of `HdiThreads`,
`InitThreads` or `DumpThreads` (`ReportThreads` and `CesThread` in
`BatteryNotify`), with a label `pc[t]` that says where it is in
`HandleBatteryInfo`. A step goes from one access of shared state to the next:
where the code tests a member and assigns it later, these are two steps
(`TestSubmit`, `SubmitDelayTask`); what happens under one lock is one step
unless the data it uses is not protected by that lock (`PublishEdgeEvent`, one
step for each publisher within `mutex_`, because `batteryInfo_` is passed by
reference). An assignment of a `BatteryInfo` is one step: the model does not
explore a structure that is half of two reports.

**Information.** `Info` keeps the fields that the decisions look at (capacity,
charge state, presence; in `BatteryNotify` capacity, plug, charge state and
charge type). That two reports differ in another field only is the freedom of
`HandleIfDifferent` to handle a report whose modelled fields equal the last.
`BatteryNotify` takes each report as it is assigned; where it came from is the
subject of `BatteryInfoFlow`.

**Tasks.** The FFRT queue of the service is serial: `RunTask` needs
`running = {}`. Cancelling removes a waiting task and does nothing to one that
runs or ended, and the handle is a plain name, so "waiting", "running",
"declined" and "the handle" are four different things, as in the code. The
`FFRTTimer` forgets its handle before it runs its task (`TimerExpires`). The
test of the timer and its cancellation are two steps (`TestClear`,
`CancelTimer`), and `Reset` destroys the timer in a step of its own behind the
handler (`DestroyTimer`).

**Mock commands.** A mock command and `Reset` read the battery first and ignore
whether that succeeded: if it did not, the event they go on with may be anything
a battery reports (`StartMock`, `StartReset`), and `stale` remembers that a
`Reset` may have handled something else than the reading.

**Time in the charger.** Moments are kept relative to the present and
saturate: `keyAge` counts up to `RebootTime`, `keyWait` and `backlightWait` down
from their timeouts. `Tick` passes one unit while the loop waits, or between
the file reads of a cycle, and only in a wait that still has time left; the
rest of a pass takes milliseconds and no tick. `stores` holds the stores of
`SetKeyState` that the loop may not see yet: they become visible in any
order, which is what a data race on `g_keys` can do.

**Disturbances.** The constant `Disturbances` of `ChargerThread` names which of
the power key, a file that cannot be read, a uevent that is lost, a uevent of
another subsystem and an interrupted wait an instance includes.

**The HDI and the DSM.** `manager` and `hdi` name the incarnation that is up, 0
means none; a pointer of the service (`hdiServiceMgr`, `iBatteryInterface`) names
the incarnation it was obtained from, so that a proxy of a dead one differs from
`nullptr` and from the current one. Each listener is a thread that delivers its
own reports in order; two listeners have no order between them. A null pointer
that is used sets `crashed` and stops the model. `mutex_` is `writer` and
`readers`; `WriterFirst` says whether a waiting writer keeps new readers out, which
the standard leaves to the implementation. One getter stands for all, and one
command for `MockUnplugged`, `MockCapacity`, `MockUevent` and `Reset`.

**The client.** `running` names the instance of the service that runs, `table`
the one in samgr's table, which may be dead; `proxy`, `remote` and `notices`
name the instance a proxy, a call or a death notice belongs to. `Connect` is
one step while nothing is looked up (`UseProxy`) and three otherwise
(`CheckSystemAbility`, `AddDeathRecipient`, `StoreProxy`), with `mutex_` held in
between; the request and the reply of a call are two steps (`Serve`, `Reply`), so
that the service can die before, between and behind them. A value is
abstracted to where it comes from: `"READ"`, the service's default without
interface, or the client's own value for a failure, which differs between a
missing proxy (`FailedConnect`) and a failed call (`FailedCall`): `""` and
`"Invalid"` for `GetTechnology`, and `true` for `GetPresent` in both cases. A
value that the service reads may be one that also stands for a failure: the HDI's
charge status 4 (unknown) is cast to `CHARGE_STATE_BUTT`, and it may report a
capacity of -1 (`Unknown`). What a binding makes of a value are the operators `Shown`,
`Throws` and `Callbacks`.

**The notification library.** `NotificationLocale` has no lock, and two threads
in it are a data race: a step is one access to one of its maps, and a thread
finds them empty, half filled or of another locale. The comparison of the base
name and its store are two steps (`CompareLocale`, `StoreBaseName`), so that two
threads may both find a new locale; so are the texts looked up before and after
the two readings that the text "power" needs (`FillText`, `FillPower`). That a
torn `unordered_map` may also crash the service is left out, and so is the
reference into it that `FillPower`'s readings leave time to invalidate
(`notification_locale.cpp:147`). A text is represented by the language it is in, `PublishNotification` is the call of the panel outside the
lock, `KeepNotification` the `emplace` under it, which leaves what the map
has already: the later object dies, and `replaced` remembers that the buttons
on the panel are then left to the older one. The panel, the event service and the user are external: the first
two may refuse each call, whose result the code ignores, and the user may
change the language and swipe a notification away. The library is opened with
`RTLD_NODELETE`, so that its singletons outlive each uevent.

**The effects of a report.** `ReportEffects` reads `batteryInfo_` at each call
of `HandleBatteryInfo` as the code does (by reference), and its members without a
lock at each access. A call on the light and the assignment to `lightColor_` that
follows are two steps. `lastAge` is the time since `lastTime_`, the boot clock is
`Tick`; the division is that of C++, truncated. Where `BatteryInfoFlow` says which
report comes when, here any report of `Reports` may, because only the sequence
matters. `Restart` is the death of the service process: its variables are
those of a new one, the light keeps its colour.

**History variables.** `overlap` says that two threads were in the handler at
once, `met` that the timer's task or the subscriber was at work together with
another party, `torn` (in `BatteryNotify`) that `batteryInfo_` was assigned while
a publisher was reading it, `torn` (in `ChargerThread`) that the loop read
`g_keys` half stored, `declined` which tasks met the extreme mode, `said` which
event of each pair was last published (recorded until `torn`), `history` (in
`HdiLifeCycle`) the races and losses that the properties of that module
exclude by name, `heldFor` how long the key really has been down; `disturbed`
(`BatteryClient`) that the service was not there for the whole call; `alone`
(`Notifications`) the last thread that started and was not joined by another,
its `torn` that the strings were last rebuilt by two, `replaced` the names under
which a later object was dropped, `refused` whose last call the panel refused; `joined` and `unsettled` (`ReportEffects`) that two threads met
in the handler and which effects no undisturbed report has put right since, its
`refused` that the light refused its last call, `chargeAge` how long the charge
really has lasted.
They restrict nothing; the properties that need them say what the code
guarantees as long as such a meeting did not happen. Each of these conditions
is necessary: without it TLC finds a counterexample, and what is lost then is
described with the hazards.

## 3. What is checked

Every run finishes in less than five minutes on two workers, most in less than
one.

| Run | Shows |
|---|---|
| `low_capacity_shutdown` | with HDI reports, START reports, no HDI and all Dump commands, until two threads meet: the inductive invariant `IInv`; `HandledInfoIsCurrent`, `WaitingTaskIsHandled`, `ChargingDisarms`, `ExhaustedArms`; and `ExhaustedShutsDown`: a battery that stays empty ends in a shutdown |
| `low_capacity_hibernate` | with reports, Dump commands, the timer's task, the subscriber and the guard's own timeout, until two of them meet: `IInv` (with `GuardCoversTimer`, `GuardReleased`), `TimerOnlyWhenExhausted`, and `EmptyBatteryAsks`: a battery that stays empty makes the service ask for hibernation |
| `hibernate_guard_race` | the violation of `GuardProtectsTimer`, section 5 |
| `battery_notify` | with all kinds of callers: `IInv`, the refinement `KeepsPromise` of `EdgeEvents`, and `SubscribersAreCurrent`: whatever comes last of HDI, common event service and START task |
| `notifications` | with two uevents at once, refusals, a changing locale and missing files: `IInv`, `ShownIsOwned`, `TextIsLocalised`, `LastItemWins` |
| `report_effects` | with two threads, refused calls on the light, a light that comes late and restarts: `IInv`, `LightFollowsReport`, `EstimateIsOfThisCharge`, `LevelIsFirstThreshold` |
| `hdi_life_cycle` | with restarts of the HDI and the DSM, a refused listener, OnStop, a START task and a command: the inductive invariant `IInv`, `NoNullUse`, `RunningServiceIsConnected`, `StoppedServiceIsSilent` |
| `hdi_liveness` | in the build that sets the threshold: `GetsConnected`, `CommandReturns` |
| `dump_deadlock` | the violation of `CommandReturns` with a lock that prefers writers, section 5 |
| `battery_client` | with two threads, a service that dies and restarts and a system that refuses: `IInv`, `DeadProxyHasNotice`, `LivingProxyIsKept`, `FailsOnlyWhenDisturbed`, `FailureIsTold`, `CallsRecover`, `StatusCompletes` |
| `charger_safety` | with all five disturbances: `IInv`, `ScreenIsTimed`, `DisplayIsCurrent`, `HeldBeforeReboot` |
| `charger_liveness` | `HeldKeyReboots`, `ScreenTurnsOff`, `BatteryStaysWatched` |

### Bounds, and why they are enough

- One thread of each kind, or two where the kind does not matter
  (`BatteryClient`, `Notifications`, `ReportEffects`). The binder delivers the
  callbacks of one HDI one after the other, START tasks are a restart of the HDI
  apart, and the shell sends one command at a time; the races of interest are
  between kinds. `low_capacity_hibernate` leaves out START tasks: once only one
  party is at work at a time they are an unmocked report. The
  theorems hold for any number.
- Two or three capacities on both sides of the threshold: below, at and above
  it are all the cases that the comparisons tell apart; the third one is for the
  comparison with the previous report (`CheckIfCreateHibernateTask`). Charge
  states: one that charges and one that does not. The battery is present: an
  absent one only makes `IsCharging` false, which `"NONE"` does too; the theorems
  hold for both.
- Two tasks: a task can wait or run while the handle names another one. A third
  would need a second submission while both are alive, which only two threads in
  the handler can bring about.
- `NoOverlapYet` (a state constraint of `LowCapacityShutdown.cfg`) stops after the
  first meeting of two threads, `SequentialYet` of `LowCapacityHibernate.cfg`
  after the first meeting of any two parties, `NotTornYet` of `BatteryNotify.cfg`
  when `batteryInfo_` changes under a publisher. The properties of these runs
  that are not simply types assume that this did not happen, directly or
  through the invariants of the flow, and the history variables are never reset,
  so that no state behind it can violate them. What happens after a meeting is
  in `hibernate_guard_race`, and the theorems about types (and
  `TimerOnlyWhenExhausted` after a meeting of timer and subscriber) hold there.
- The times of the charger: 1 or 2 units for `REBOOT_TIME`, the
  screen's 10 s and the poll interval. What matters is which of two
  moments comes first; since time passes in a wait and in a cycle in any
  portion, each order occurs with 2 units.
- `LowCapacity` of `BatteryNotify` is 20 as in the code's default, and the
  capacities are 20 and 21.
- `HdiLifeCycle`: `MaxHdi = 2` (a proxy of a dead HDI beside the current one),
  `MaxManager = 2` in the safety run (the DSM comes back once, which is when
  `OnAddSystemAbility` registers again), `MaxStart = 1`, `MaxFailure = 1` (one
  refusal is one retry; a retry of a retry is the same step again), two
  listeners, one worker, one client. The safety run has `WriterFirst = TRUE`,
  which includes every behaviour without, because a writer need not wait in the
  model to get the lock. The liveness run has one incarnation of the DSM.
- `BatteryClient`: values by name, as above, so that each value which a
  failure and a reading share occurs; `MaxStarts = 2` (a proxy, a notice or a table entry of a dead
  instance beside the next one), `MaxFaults = 1`; one entry point for each kind of
  outcome (a pair of getters behind a posted task, a config call by NAPI and
  one by Taihe, a state getter), a process with all permissions or none.
- `Notifications`: one uevent that cancels a notification and publishes it
  anew, with an invalid item, and one that cancels it, behind an item about a
  second notification that is lost behind a bad button; a locale with its own
  language and one that falls back; files of which one is missing. Two threads
  in the first uevent publish the same name twice, so that publications and
  cancellations of one name interleave.
- `ReportEffects`: five reports (capacities at both sides of a bound, charging or
  not, full, above 100, and the unknown charge state with the values of a
  constructed `BatteryInfo`), a light configuration with overlapping ranges, an
  entry of two colours, one that is not numeric and a gap, thresholds in order, out of order, undefined and
  equal; `MaxTime = 1`, since the estimate compares the age of a capacity with the
  age of the charge.
- Symmetry is used for the listeners of `hdi_life_cycle` and the threads of
  `notifications` and `report_effects` only, which check invariants alone.
- `CHECK_DEADLOCK FALSE` only where the system may stop: the runs of
  `HdiLifeCycle`, whose service may have stopped or crashed.

### Fairness

`LowCapacityShutdown!Fairness`: a thread that is in the handler leaves it (no step of the
handler waits for another thread), the FFRT queue runs what was submitted, and
the HDI delivers a report that it owes. `ExhaustedShutsDown` supposes, besides a
battery that stays empty, that the mock commands come to an end: one whose
reading fails handles an event that the battery did not send. Nothing obliges the battery, the shell
or the device mode to change.

`LowCapacityHibernate!Fairness`: the same for timer and subscriber, and strong
fairness of `HandleIfDifferent`: readings that are not modelled (voltage,
current, temperature) keep changing, so that not every report of a battery in
use is skipped as a repetition.

`ChargerThread!FairSpec`: the loop goes on, the stores of the input monitor
become visible, and time passes: strong fairness of `Tick`, because
in the model, as on the device, a loop that polls without waiting must not stop
the clock. The key and the battery are not fair.

`BatteryClient!Fairness`: a thread that is in a call goes on, a death is told to
whoever asked for it, and samgr forgets a dead service. Nothing obliges the
service to start again, nor an application to call. `CallsRecover` is about a
service that stays and a system that no longer refuses.

`HdiLifeCycle!Fairness`: every thread goes on, submitted tasks and retries run,
and reports and notices arrive; strong fairness for the threads that lock
`mutex_` exclusive, because readers come and go and a `std::shared_mutex` does not
starve a writer. Nothing obliges the HDI, the DSM, a client or OnStop.

## 4. What is proved

The theorems hold for all sets of threads, capacities, tasks, thresholds and
times that satisfy the named assumptions; nothing else is assumed.

**`LowCapacityShutdownProofs`.** `IInv == TypeOK /\ FlowInv /\ TaskInv`. Neither
`HandledInfoIsCurrent` nor `WaitingTaskIsHandled` is inductive: they only speak
of moments when nobody is in the handler. `FlowInv` adds where the battery's state
is meanwhile: in the event of the only thread (`EventIsCurrent`), then in
`batteryInfo_` (`ConvertedIsCurrent`). `TaskInv` adds what a thread between the test of the handle
and the end of the handler still knows (`SubmitterTested`, `ClearerTested`,
`RecorderSettled`), and that a set handle names a task that is alive, was
declined, or asked for the shutdown (`HandleIsLive`). From it follow
`HandledInfoStaysCurrent`, `WaitingTaskStaysHandled`, `ChargingAlwaysDisarms` and
`ExhaustedAlwaysArms`.

**`LowCapacityHibernateProofs`.** The flow's invariants again, with the same
lemmas, `TimerInv` and `GuardInv`. `TimerInv` says
why the timer may be armed at each step of a thread that is alone in the handler:
it holds whatever the timer's task and the subscriber do, which only ever
disarm it, and gives `TimerIsOfExhaustion`. `GuardInv` needs that all parties come
one after the other (`Sequential`): then at most one is at work
(`OnePartyAtWork`), and a locked guard always has somebody who will unlock it
(`GuardIsKnown`), which gives `GuardCoversTimer` and `GuardReleased`. After a
`Reset` nobody does, which is the disjunct `~timerExists`.

**`ReportEffectsProofs`.** `AloneInv`: unless threads met, one thread is in the
handler, and what it was told is the current `batteryInfo_`. Of the reports it is
assumed only that they are values of the structure, so the unknown charge state,
which looks like that of a constructed one, is among them. The light:
outside of a call `lightColor_` is black or the colour shown (`ColorIsShown`), never
a colour that is not shown, which is what makes the skip of
`battery_light.cpp:112` sound: colours of ranges are not black. The
estimate: `lastTime_` was taken within the charge under way, and the truncated
quotient of an age by a positive difference is not more than the age
(`QuotientIsSmaller`), so that `(100 - capacity) * chargeAge` bounds it through
each rise, each fall and each tick. The levels: the comparisons are a chain
over seven thresholds, and a capacity that was passed by the first `i` of them is
above each of them (`PassedLevels`).

**`BatteryNotifyProofs`.** `HolderInSection`: `mutex_` is held exactly by the
thread between the first and the last publisher. `FlagsTellLast`: until
`batteryInfo_` changes under a publisher, each pair of flags either agrees with
the last event said, or the holder is between the two publishers of that
pair. `NotTold` is the consequence: an event that is about to be published
was not the last of its pair. Hence `PublishingKeepsPromise`: the initial states map
to those of `EdgeEvents`, and each step is one of its steps or a stutter. (A
second publication of the same event would not be a stutter: `said` counts
the publications modulo 2.) `SubscribersKnow` needs what a caller has published
so far. While no two were at work at once (`OneAtWork`), the copy of
`OnAddSystemAbility` is what `batteryInfo_` is, and the pairs whose two
publishers a thread has passed are told as it says (`PassedAreTold`): the second
publisher of a pair sees what the first saw, and the flags are right by
`FlagsTellLast`. When nobody is on the way to publish everything is told
(`RestIsCurrent`), provided that the common event service was there; that it was
is `CesIsKnown`: `added` and `hdiReady` together mean that `cesInit` is set, or
that `OnAddSystemAbility` is about to set it, because whichever came last
published after the other was there.

**`NotificationsProofs`.** The map: what is shown and not in the map is about to be
put there by the thread that published it, or was refused; a thread that erases
holds the lock since it found the notification, and what it cancelled is gone
unless somebody is about to keep a new one (`CancelledIsGone`). Until a name is
published again, the object in the map is the one that was created for the
buttons on the panel, and what a thread is about to keep still serves them after
the steps of the others (`KeeperKeeps`, `OthersKeep`). What the panel lost through a later object is
excluded by name (`replaced`), and section 5 says what happens. The strings: as
long as no second thread was in the rebuild, each of its steps finds what the
one before left (`StringsAreParsed`), so that afterwards they are a function of
the locale; `languages` is only ever set to what the file says. A thread that was
alone read exactly these. The panel: of the items that an undisturbed thread has
dealt with, the last one about each notification decides (`PanelFollows`); an
item that finds nothing to cancel relies on `ShownIsOwned`, because what is not
in the map must not be on the panel either. When the thread is done these are
all items: `LastItemDecides`.

**`HdiLifeCycleProofs`.** The theorems hold for any listeners, workers and
clients, any number of restarts and refusals, both builds and both kinds of
lock, from `BoundAssumption` (the bounds are natural numbers, and the HDI and the
DSM may start) and `ThreadAssumption` (no thread is of two kinds). `MutexIsHeld`
says where each thread may stand and that it holds `mutex_`, exclusive or
shared, exactly there; `TestedIsThere`, that what a thread tested under it still
is there when it is used, unless it was assigned without the lock. Together they
give `NullIsNeverUsed`. That a service with nothing on its way is connected says
nothing about the states before, so the invariant says what is on its way:
`ServiceIsDue` has, while the service is active, a registration due when no
listener is known (`RegistrationIsDue`); a START due, a task under way or the
callback registered when the HDI is there (`ConnectionIsDue`); and a STOP or a
removal under way for an interface that is stale (`StaleIsDropped`). What is due
may be overtaken only if the order of things allows it. `NoticesInOrder`: the
notices of samgr alternate, and the last tells whether the DSM is there, so a
removal that is still remembered is followed by the addition that registers
again. `ReportsInOrder`: a STOP for a listener that the DSM knows is followed by
the START of the HDI that came after. `MainInOrder`: before `OnStart` has
registered there is nothing, and while `OnStop` holds `mutex_` nobody gets the
interface again. `StopFindsAll`: with one DSM and one known listener at a time,
what `OnStop` unregisters is all there is, and where nothing is, nothing comes
by itself (`SilentStays`). From these follow `RunningIsConnected` and
`StoppedIsSilent`.

**`BatteryClientProofs`.** `MutexIsHeld`: at most one thread is between the
lookup and the store of the proxy, and then there is none. `DeathIsNoticed`: the
proxy, and the one that a thread is about to store, are watched, and if dead,
their notice is under way; a notice is never about the running instance. Hence
`ProxyIsNeverForgotten` and the action property `ProxyIsKept`.
`UndisturbedIsSettled`, on top of it, gives `FailureIsDisturbance`: while a call
is not disturbed, everybody agrees on the instance that runs. `AnswersFit` says
that the answers of a thread are those to the calls of its entry point, in their
order: the client's own value if nobody answered, otherwise one that the service
gives to a caller with these permissions. `FailuresAreTold` then is a lemma about
each of the tables of values: a failed getter that has a value of its own is shown
as invalid (`GetterShows`), and a config call fails with the connection error
exactly when nobody answered (`ConfigTells`). `getStatus` is weaker: it reports
success only if both of its calls were answered, and if it fails then one was not,
or the service answered with one of the values of `Unknown`. It takes of the entry points
only that `getStatus` makes its two calls in their order (`StatusCalls`, part of
`ClientAssumption`).

**`ChargerThreadProofs`.** `KeysFollow`: what the loop can see in `g_keys` is not
older than the key's last change, unless it was read half stored.
`ScreenFollows`: a lit screen has a timeout, except between the step that lights
it and the one that starts the timeout. `DisplayFollows`: the same for the
prompt and the animation. From them follow `ScreenAlwaysTimed`,
`DisplayAlwaysCurrent` and the action property `RebootOnlyIfHeld`.

**Only model-checked:** the liveness properties, which the proof system does not
reach under fairness: `ExhaustedShutsDown`, `EmptyBatteryAsks`, `HeldKeyReboots`,
`ScreenTurnsOff`, `BatteryStaysWatched`, `GetsConnected`, `CommandReturns`,
`CallsRecover` and `StatusCompletes`. Every invariant and every action property of
a passing run is a theorem.

## 5. What was found

`GuardProtectsTimer` states what the comment at `battery_service.cpp:651` says
of the running lock: it is there "to avoid the shutdown ffrt task breaked by
S3/ULSR". The run `hibernate_guard_race` shows a report that is handled between
`CancelTimer` and `UnlockShutdownGuard` of the subscriber (lines 1176-1177): it
arms a new timer and locks the guard, and the subscriber then drops the guard of
the new timer. The timer's task and the clearing branch of `HandleCapacityExt`
have the same window.

`CommandReturns`: the tests of Dump (`battert_service_inner_test.cpp:346`) expect that
the command `-u` returns `ERR_OK`. `MockUnplugged` holds `mutex_` shared (line 1086)
and `ConvertingEvent` calls `GetChargeType`, which locks it shared again (line
963). The standard leaves this undefined; with an implementation that lets a
waiting writer go first, as libc++'s does, the run `dump_deadlock` shows
a STOP report that comes in between and waits for the command that waits for it.
`MockCapacity`, `MockUevent` and `Reset` do the same.

Observations that contradict no document of the repository:

- The first report after a start counts as "capacity increased" against the
  constructed capacity -1: `HandleCapacityExt` arms the timer and clears it in
  the same call; only a later, different report arms it for good.
- A capacity that rises within the low range clears the timer although nothing
  charges the battery (line 612).
- A task that met the extreme power save mode ends, its handle stays, and no
  other task is submitted until a charging report (`ExhaustedArms` counts it as
  arranged).
- After `Reset` (line 1157) the timer object is gone for good, and each report of
  an empty battery locks the guard without a timer.
- `OnAddSystemAbility` publishes a copy; a report that is published meanwhile is
  overwritten by the older one for the subscribers.
- `BatteryStaysWatched` fails if the power key is used: a release that happened
  while the loop was blocked with the interval -1 is handled in the pass of the
  uevent that brings the charger, turns the screen off again, and
  `epoll_wait` blocks with the old interval although the battery is charging.
- `OnRemoveSystemAbility` (line 190) clears `iBatteryInterface_` without `mutex_`,
  and `hdiServiceMgr_` has no lock at all: a getter or a registration that has
  tested the pointer uses a null pointer (`"raced"`). So does
  `SetLowCapacityThreshold` (line 710), which only the threshold build calls,
  when a STOP report comes between its test and its use.
- An HDI that refuses the callback is never asked again (`"refused"`).
- A DSM that dies after `RegisterHdiStatusListener` of `OnStart` and before
  `AddSystemAbilityListener` is not noticed, and a START task that obtained an
  HDI which died while no listener was registered keeps the dead proxy
  (`"unseen"`).
- A retry that is pending when the DSM comes back registers a second listener;
  the late STOP report of the first drops what the second obtained (`"doubled"`,
  `"stale"`).
- OnStop unregisters the last listener only; a task, a retry or a notice that is
  under way registers again behind it (`"late"`), and so does the next DSM.
- Two uevents handled at once can publish a notification with empty or mixed
  texts, and the base name that the first one stored keeps the second one from
  parsing the strings itself.
- A button whose fields are not valid ends the parsing of all later
  notifications (`battery_config.cpp:378` returns where its neighbours
  continue).
- A notification that is published again keeps the object of its first
  publication, with that one's button subscriptions.
- `getStatus` fails, as if the service were gone, when the HDI does not know the
  charge state: `Unknown` of the HDI is 4, and so is `CHARGE_STATE_BUTT`.
- `GetPresent` of the client is true when the call failed.
- A mock command or `Reset` whose reading fails goes on with whatever the event
  held.
- `getStatus` whose task `napi_send_event` refuses calls nobody back.
- The service answers a getter without an interface with values that look
  valid (a full battery, state `NONE`), and a state that the Taihe binding does
  not know is shown as its default: an application cannot tell these from
  readings (`FailureShows`).
- Two threads in `CalculateRemainingChargeTime` can divide by zero, or store a
  negative remaining time, which `battery_service_test.cpp:775` expects not to
  see in a single thread. A capacity above 100 leaves the estimate of an earlier
  charge, and the capacity -1 at the start of a charge blocks it.
- A thread that records `lastBatteryInfo_ = batteryInfo_` after another one's
  assignment makes the other's report be skipped as a repetition.
- `FillCommonEvent` (lines 325-343) leaves the name of the event set when it
  returns false, and its caller publishes it, although the log says that it need
  not be sent.
- With an unknown charge state and a lit screen the charger's timeout is 0 and
  the loop polls without waiting until the screen goes off.

## 6. What is not modelled

Formatting, logs, the layout of views and notifications, and device drivers.
The declarations of the bindings and the values they pass on unchanged; the
command line tool, which prints what the client returns. The vibrator and the
LED. The sound: `StartChargingSoundFunc` has no caller at this commit. Of
`BatteryConfig`, what is not about the light, the popups and the notifications:
its values are constants. Results of a publish: a publisher sets its flag
whether or not the call succeeded, and the model takes the request for the
event. In `HdiLifeCycle`: a failing `Init` or `Publish` of `OnStart`, and the moment
between `Register` at the HDI and `RegisterBatteryEvent`, in which a first report
finds no `eventCb_` and is lost. In `Notifications`: a library that cannot be
opened, which does nothing, the memory that a torn `unordered_map` or a reference
into a cleared one may corrupt, and a restart of the service, whose panel keeps
what the new process does not know. In
`ChargerThread`: a uevent socket that cannot be opened. In every module a
`BatteryInfo` is assigned in one step.

Code outside of the repository is modelled from its use: the FFRT queue and
timer, the HDI, the common event service, the power manager and its running
lock (which is dropped by its own timeout only after the timer has expired:
`GUARD_TIMEOUT` is 90 s, the timer's delay 60 s), and the kernel's uevents.

## 7. Plan

1. Done: information flow, shutdown, hibernation, effects of a report, events,
   notifications, the life cycle of the HDI connection, the client with its
   bindings, the charger; the theorems of section 4.
2. What is left to model: the missing uevent socket of the charger as a
   constant of `ChargerThread`; the state after `Reset` in the hibernation build; a
   failing publication in `BatteryNotify`, with the flags as they are; vibrator,
   sound and LED, which react to the same reports.
3. What is left to prove: of what the runs check only liveness, which is out of the
   prover's reach. The parts of 2 bring invariants of their own; what was the last
   publication of an event that succeeded is one more variable in the invariant of
   `BatteryNotify`.
