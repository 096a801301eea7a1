------------------------ MODULE LowCapacityHibernate ------------------------
(***************************************************************************)
(* The delayed hibernation of an empty battery, in the build with          *)
(* BATTERY_MANAGER_SET_LOW_CAPACITY_THRESHOLD: HandleCapacityExt arms a    *)
(* timer of the FFRTTimer g_ffrtTimer and takes the running lock           *)
(* g_shutdownGuard, so that the device does not fall asleep before the     *)
(* timer's task has run.                                                   *)
(*                                                                         *)
(* Four parties arm, cancel and run the timer and take and drop the guard: *)
(* the threads of BatteryInfoFlow, the timer's own task, the subscriber of *)
(* the hibernation events, and Reset, which destroys the timer object.     *)
(* shutdownGuardMutex_ protects single calls on the guard, nothing the     *)
(* timer and the guard together.                                           *)
(***************************************************************************)
EXTENDS BatteryInfoFlow

CONSTANTS
  ShutdownThreshold,  \* shutdownCapacityThreshold_
  IsHibernateEnable,  \* isHibernateEnable_, const.power.enable_s4
  HibernateEvents,    \* whether the hibernation events are published
  DeviceModes         \* values of "in extreme power save mode"

ASSUME ShutdownThresholdAssumption == ShutdownThreshold \in Int
ASSUME SwitchesAssumption ==
  /\ IsHibernateEnable \in BOOLEAN
  /\ HibernateEvents \in BOOLEAN
  /\ DeviceModes \subseteq BOOLEAN

VARIABLES
  timerExists,  \* g_ffrtTimer # nullptr
  timer,        \* the timer is armed: GetTaskHandlePtr # nullptr
  task,         \* the next step of the timer's task, once the timer expired
  guard,        \* g_shutdownGuard
  subscriber,   \* the next step of BatteryCommonEventSubscriber
  resetting,    \* the Dump threads that run Reset
  extreme,      \* the device is in extreme power save mode
  asked,        \* what the power manager was asked for
  met           \* history: the timer's task or the subscriber met another party

extVars ==
  <<timerExists, timer, task, guard, subscriber, resetting, extreme, asked,
    met>>
vars == <<flowVars, extVars>>

TypeOK ==
  /\ FlowTypeOK
  /\ timerExists \in BOOLEAN
  /\ timer \in BOOLEAN
  /\ task \in {"idle", "decide", "unlock"}
  /\ guard \in {"null", "unlocked", "locked"}
  /\ subscriber \in {"idle", "unlock"}
  /\ resetting \subseteq DumpThreads
  /\ extreme \in BOOLEAN
  /\ asked \subseteq {"hibernate", "shutdown"}
  /\ met \in BOOLEAN

Init ==
  /\ FlowInit
  /\ timerExists = TRUE
  /\ timer = FALSE
  /\ task = "idle"
  /\ guard = "null"
  /\ subscriber = "idle"
  /\ resetting = {}
  /\ extreme \in DeviceModes
  /\ asked = {}
  /\ met = FALSE

IsCharging(info) == info.chargeState = "ENABLE"

IsDelayHibernateTimerValid == timerExists /\ timer

Unlocked == IF guard = "null" THEN "null" ELSE "unlocked"

TaskActive == task # "idle"
SubscriberActive == subscriber # "idle"

-----------------------------------------------------------------------------
(***************************************************************************)
(* With bugs: only a falling capacity arms the timer; only charging clears *)
(* it.                                                                     *)
(***************************************************************************)
CreateIfFalling(info) ==
  /\ info.capacity <= ShutdownThreshold
  /\ ~IsDelayHibernateTimerValid
  /\ info.capacity < lastBatteryInfo.capacity

ClearIfCharging(info) ==
  /\ IsDelayHibernateTimerValid
  /\ info.present /\ IsCharging(info)

(***************************************************************************)
(* HandleCapacityExt.  Its arguments are read from batteryInfo_ at the     *)
(* call, the previous capacity from lastBatteryInfo_ at each check.        *)
(***************************************************************************)
CheckIfCreateHibernateTask(info) ==
  /\ info.capacity <= ShutdownThreshold
  /\ ~IsDelayHibernateTimerValid
  /\ \/ info.capacity < lastBatteryInfo.capacity
     \/ info.present /\ ~IsCharging(info)

CheckIfClearHibernateTask(info) ==
  /\ IsDelayHibernateTimerValid
  /\ \/ info.capacity > lastBatteryInfo.capacity
     \/ info.present /\ IsCharging(info)

TestCreate(t) ==
  /\ pc[t] = "handle"
  /\ local' = [local EXCEPT ![t] = batteryInfo]
  /\ pc' = [pc EXCEPT ![t] = IF CheckIfCreateHibernateTask(batteryInfo)
                             THEN "submit" ELSE "clear"]
  /\ UNCHANGED <<device, stale, mock, batteryInfo, lastBatteryInfo, overlap>>
  /\ UNCHANGED extVars

(***************************************************************************)
(* With a bug: the guard is locked only when it has just been created.     *)
(***************************************************************************)
LockNewGuardOnly(t) ==
  /\ Goto(t, "submit", "arm")
  /\ IF guard = "null" THEN guard' \in {"null", "locked"}
                       ELSE UNCHANGED guard
  /\ UNCHANGED <<device, stale, mock, batteryInfo, lastBatteryInfo, local,
                 overlap>>
  /\ UNCHANGED <<timerExists, timer, task, subscriber, resetting, extreme,
                 asked, met>>

(***************************************************************************)
(* The power manager may fail to create the running lock.                  *)
(***************************************************************************)
CreateAndLockGuard(t) ==
  /\ Goto(t, "submit", "arm")
  /\ \/ guard' = "locked"
     \/ guard = "null" /\ guard' = "null"
  /\ UNCHANGED <<device, stale, mock, batteryInfo, lastBatteryInfo, local,
                 overlap>>
  /\ UNCHANGED <<timerExists, timer, task, subscriber, resetting, extreme,
                 asked, met>>

SetTimer(t) ==
  /\ Goto(t, "arm", "clear")
  /\ timer' = timerExists
  /\ UNCHANGED <<device, stale, mock, batteryInfo, lastBatteryInfo, local,
                 overlap>>
  /\ UNCHANGED <<timerExists, task, guard, subscriber, resetting, extreme,
                 asked, met>>

TestClear(t) ==
  /\ Goto(t, "clear", IF CheckIfClearHibernateTask(local[t])
                      THEN "cancel" ELSE "record")
  /\ UNCHANGED <<device, stale, mock, batteryInfo, lastBatteryInfo, local,
                 overlap>>
  /\ UNCHANGED extVars

CancelTimer(t) ==
  /\ Goto(t, "cancel", "unlock")
  /\ timer' = FALSE
  /\ UNCHANGED <<device, stale, mock, batteryInfo, lastBatteryInfo, local,
                 overlap>>
  /\ UNCHANGED <<timerExists, task, guard, subscriber, resetting, extreme,
                 asked, met>>

UnlockAfterClear(t) ==
  /\ Goto(t, "unlock", "record")
  /\ guard' = Unlocked
  /\ UNCHANGED <<device, stale, mock, batteryInfo, lastBatteryInfo, local,
                 overlap>>
  /\ UNCHANGED <<timerExists, timer, task, subscriber, resetting, extreme,
                 asked, met>>

HandleCapacityExt(t) ==
  \/ TestCreate(t)
  \/ CreateAndLockGuard(t)
  \/ SetTimer(t)
  \/ TestClear(t)
  \/ CancelTimer(t)
  \/ UnlockAfterClear(t)

-----------------------------------------------------------------------------
(***************************************************************************)
(* The timer expires and forgets its task's handle, then runs the task:    *)
(* DoHibernateOrShutdown and UnlockShutdownGuard.                          *)
(***************************************************************************)
TimerExpires ==
  /\ timer
  /\ task = "idle"
  /\ timer' = FALSE
  /\ task' = "decide"
  /\ met' = (met \/ ~Quiet \/ SubscriberActive)
  /\ UNCHANGED flowVars
  /\ UNCHANGED <<timerExists, guard, subscriber, resetting, extreme, asked>>

DoHibernateOrShutdown ==
  /\ task = "decide"
  /\ task' = "unlock"
  /\ IF extreme
     THEN UNCHANGED asked
     ELSE asked' =
            asked \cup {IF IsHibernateEnable THEN "hibernate" ELSE "shutdown"}
  /\ UNCHANGED flowVars
  /\ UNCHANGED <<timerExists, timer, guard, subscriber, resetting, extreme,
                 met>>

UnlockAfterTask ==
  /\ task = "unlock"
  /\ task' = "idle"
  /\ guard' = Unlocked
  /\ UNCHANGED flowVars
  /\ UNCHANGED <<timerExists, timer, subscriber, resetting, extreme, asked,
                 met>>

(***************************************************************************)
(* OnReceiveEvent of BatteryCommonEventSubscriber: the device enters or    *)
(* leaves hibernation, for whatever reason.                                *)
(***************************************************************************)
ReceiveHibernateEvent ==
  /\ HibernateEvents
  /\ subscriber = "idle"
  /\ subscriber' = "unlock"
  /\ timer' = FALSE
  /\ met' = (met \/ ~Quiet \/ TaskActive)
  /\ UNCHANGED flowVars
  /\ UNCHANGED <<timerExists, task, guard, resetting, extreme, asked>>

UnlockAfterEvent ==
  /\ subscriber = "unlock"
  /\ subscriber' = "idle"
  /\ guard' = Unlocked
  /\ UNCHANGED flowVars
  /\ UNCHANGED <<timerExists, timer, task, resetting, extreme, asked, met>>

(***************************************************************************)
(* The running lock is released SHUTDOWN_GUARD_TIMEOUT_MS after the last   *)
(* Lock: not before the timer is set, and 30 seconds after it has expired. *)
(***************************************************************************)
GuardTimesOut ==
  /\ guard = "locked"
  /\ ~timer
  /\ \A t \in Thread : pc[t] # "arm"
  /\ guard' = "unlocked"
  /\ UNCHANGED flowVars
  /\ UNCHANGED <<timerExists, timer, task, subscriber, resetting, extreme,
                 asked, met>>

ChangeDeviceMode ==
  /\ extreme' \in DeviceModes \ {extreme}
  /\ UNCHANGED flowVars
  /\ UNCHANGED <<timerExists, timer, task, guard, subscriber, resetting,
                 asked, met>>

-----------------------------------------------------------------------------
(***************************************************************************)
(* The steps of the information flow.  A thread that enters the handler    *)
(* may meet the timer's task or the subscriber.  Reset ends, outside of    *)
(* the handler, with destroying the timer object, which cancels the timer  *)
(* for good.                                                               *)
(***************************************************************************)
EnterHandler ==
  /\ \/ \E t \in HdiThreads : HdiReport(t)
     \/ \E t \in InitThreads : StartReport(t)
     \/ \E t \in DumpThreads \ resetting :
          StartMockUnplugged(t) \/ StartMockCapacity(t) \/ StartMockUevent(t)
  /\ met' = (met \/ TaskActive \/ SubscriberActive)
  /\ UNCHANGED <<timerExists, timer, task, guard, subscriber, resetting,
                 extreme, asked>>

EnterReset(t) ==
  /\ t \notin resetting
  /\ StartReset(t)
  /\ resetting' = resetting \cup {t}
  /\ met' = (met \/ TaskActive \/ SubscriberActive)
  /\ UNCHANGED <<timerExists, timer, task, guard, subscriber, extreme, asked>>

ContinueHandler(t) == Continue(t) /\ UNCHANGED extVars

DestroyTimer(t) ==
  /\ t \in resetting
  /\ pc[t] = "idle"
  /\ resetting' = resetting \ {t}
  /\ timerExists' = FALSE
  /\ timer' = FALSE
  /\ UNCHANGED flowVars
  /\ UNCHANGED <<task, guard, subscriber, extreme, asked, met>>

HandlerStep(t) ==
  \/ ContinueHandler(t)
  \/ HandleCapacityExt(t)
  \/ DestroyTimer(t)

TimerStep == TimerExpires \/ DoHibernateOrShutdown \/ UnlockAfterTask

Next ==
  \/ DeviceChanges /\ UNCHANGED extVars
  \/ EnterHandler
  \/ \E t \in DumpThreads : EnterReset(t)
  \/ \E t \in Thread : HandlerStep(t)
  \/ TimerStep
  \/ ReceiveHibernateEvent
  \/ UnlockAfterEvent
  \/ GuardTimesOut
  \/ ChangeDeviceMode

Spec == Init /\ [][Next]_vars

(***************************************************************************)
(* Threads leave the handler, the timer and its task run, and the battery  *)
(* HDI keeps reporting.  Its readings that are not modelled, the voltage   *)
(* and the current, never stay the same forever, so that some report is    *)
(* handled even when nothing of the modelled information changes.          *)
(***************************************************************************)
Fairness ==
  /\ \A t \in Thread : WF_vars(HandlerStep(t))
  /\ \A t \in HdiThreads :
       /\ WF_vars(EnterHandler /\ pc[t] = "idle" /\ HdiReport(t))
       /\ SF_vars(HandleIfDifferent(t) /\ UNCHANGED extVars)
  /\ WF_vars(TimerStep)
  /\ WF_vars(UnlockAfterEvent)

FairSpec == Spec /\ Fairness

-----------------------------------------------------------------------------
Exhausted(info) ==
  /\ info.capacity <= ShutdownThreshold
  /\ info.present
  /\ ~IsCharging(info)

(***************************************************************************)
(* Nobody but one thread of the handler, the timer's task or the           *)
(* subscriber was ever at work at the same time.                           *)
(***************************************************************************)
Sequential == ~overlap /\ ~met

(***************************************************************************)
(* What the comment at battery_service.cpp:651 says of the guard: it is    *)
(* there so that the delayed task is not broken by the device's sleep.  As *)
(* long as the guard could be created, an armed timer is guarded.          *)
(***************************************************************************)
GuardProtectsTimer == timer /\ guard # "null" => guard = "locked"

(***************************************************************************)
(* It does so when the handler, the timer's task and the hibernation       *)
(* events happen one after the other.                                      *)
(***************************************************************************)
GuardCoversTimer == Sequential => GuardProtectsTimer

(***************************************************************************)
(* ... and then the guard keeps the device awake for nothing else: it is   *)
(* dropped on each path that ends the timer, except the one of Reset.      *)
(***************************************************************************)
GuardReleased ==
  (Sequential /\ Quiet /\ ~TaskActive /\ ~SubscriberActive
     /\ timerExists /\ ~timer)
    => guard # "locked"

(***************************************************************************)
(* As long as no two threads were inside the handler at once, the timer is *)
(* armed only while the last handled information says that the battery is  *)
(* low and not, present, being charged: CheckIfClearHibernateTask sees     *)
(* each recovery, though it compares with the previous report only.        *)
(***************************************************************************)
TimerOnlyWhenExhausted ==
  ~overlap /\ Quiet /\ timer =>
    /\ lastBatteryInfo.capacity <= ShutdownThreshold
    /\ ~(lastBatteryInfo.present /\ IsCharging(lastBatteryInfo))

(***************************************************************************)
(* A battery that stays empty, is not charged and whose capacity does not  *)
(* rise any more makes the service ask for hibernation or shutdown, if the *)
(* device never is in extreme power save mode, no two parties meet, mocks, *)
(* START reports and hibernation events come to an end and no Reset took   *)
(* the timer.                                                              *)
(* (The first report only arms the timer to clear it at once: any capacity *)
(* is higher than the INVALID_BATT_INT_VALUE of lastBatteryInfo_.)         *)
(***************************************************************************)
EmptyBatteryAsks ==
  /\ [](~extreme /\ Sequential /\ timerExists)
  /\ <>[](/\ Exhausted(device)
          /\ mock = {}
          /\ \A t \in InitThreads : ~Busy(t)
          /\ subscriber = "idle")
  /\ <>[][device'.capacity <= device.capacity]_device
  => <>(asked # {})

-----------------------------------------------------------------------------
(***************************************************************************)
(* The inductive invariant.  A thread that tests whether to create or to   *)
(* clear knows why the timer may be armed, as long as it is alone in the   *)
(* handler.                                                                *)
(***************************************************************************)
Low(info) ==
  /\ info.capacity <= ShutdownThreshold
  /\ ~(info.present /\ IsCharging(info))

HandlerTested ==
  \A t \in Thread :
    /\ pc[t] \in {"submit", "arm", "clear", "cancel", "unlock", "record"}
         => local[t] = batteryInfo
    /\ pc[t] \in {"submit", "arm"} => batteryInfo.capacity <= ShutdownThreshold
    /\ pc[t] = "submit" => ~timer
    /\ pc[t] = "clear" /\ timer =>
         \/ batteryInfo.capacity <= ShutdownThreshold
         \/ lastBatteryInfo.capacity <= ShutdownThreshold
    /\ pc[t] = "unlock" => ~timer
    /\ pc[t] = "record" /\ timer => Low(batteryInfo)

TimerIsKnown ==
  (timer /\ \A t \in Thread :
              pc[t] \notin {"clear", "cancel", "unlock", "record"})
    => Low(lastBatteryInfo)

TimerInv ==
  /\ timer => timerExists
  /\ ~overlap => HandlerTested /\ TimerIsKnown

(***************************************************************************)
(* The guard.  As long as everything happens one after the other, only one *)
(* party is at work, and who finds the guard locked knows who will unlock  *)
(* it.                                                                     *)
(***************************************************************************)
OnePartyAtWork ==
  /\ TaskActive \/ SubscriberActive => Quiet
  /\ ~(TaskActive /\ SubscriberActive)

GuardIsLocked == guard \in {"null", "locked"}

GuardIsKnown ==
  /\ timer => GuardIsLocked
  /\ \A t \in Thread : pc[t] = "arm" => GuardIsLocked
  /\ TaskActive \/ SubscriberActive => ~timer
  /\ guard = "locked" =>
       \/ timer
       \/ TaskActive
       \/ SubscriberActive
       \/ ~timerExists
       \/ \E t \in Thread : pc[t] \in {"arm", "cancel", "unlock"}

GuardInv == Sequential => OnePartyAtWork /\ GuardIsKnown

IInv ==
  /\ TypeOK /\ FlowInv /\ TimerInv /\ GuardInv
  /\ GuardCoversTimer /\ GuardReleased
=============================================================================
