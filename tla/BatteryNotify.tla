--------------------------- MODULE BatteryNotify ---------------------------
(***************************************************************************)
(* How the service's batteryInfo_ becomes common events: BatteryNotify::   *)
(* PublishEvents (services/native/src/battery_notify.cpp) and its callers  *)
(* in battery_service.cpp.                                                 *)
(*                                                                         *)
(* A thread that handles a report of the battery HDI (or a command of a    *)
(* Dump) and the task of a START report pass batteryInfo_ by reference,    *)
(* and other threads may assign it meanwhile; OnAddSystemAbility, which    *)
(* publishes what could not be published before the common event service   *)
(* (CES) was there, passes a copy.  mutex_ protects the flags that make    *)
(* the edge events (low, okay...) one-shot, not what they are computed     *)
(* from.                                                                   *)
(*                                                                         *)
(* Which reports are handled at all is the subject of BatteryInfoFlow.     *)
(* Vibration, sound, notifications, system events and the optional         *)
(* capacity level in the BATTERY_CHANGED event are left out.  A common     *)
(* event counts as published when CommonEventManager was asked to publish  *)
(* it: the code marks an event as sent even when that call fails.          *)
(***************************************************************************)
EXTENDS Integers

CONSTANTS
  ReportThreads,  \* threads that handle a report or a command
  InitThreads,    \* FFRT workers that run the task of a START report
  CesThread,      \* the thread that runs OnAddSystemAbility
  Capacity, PluggedType, ChargeState, ChargeType,  \* the battery's readings
  Uevent,         \* the kinds of uevent a report carries
  LowCapacity     \* lowCapacity_, the configured soc.low

ASSUME NotifyThreadsAssumption ==
  /\ ReportThreads \cap InitThreads = {}
  /\ CesThread \notin ReportThreads \cup InitThreads

ASSUME ReadingsAssumption ==
  /\ Capacity \subseteq Int
  /\ LowCapacity \in Int
  /\ Uevent \subseteq {"plain", "broadcast", "custom", "command"}

VARIABLES
  batteryInfo,  \* batteryInfo_ of the service, without its uevent
  uevent,       \* the uevent of batteryInfo_
  copy,         \* the copy that OnAddSystemAbility publishes
  pc,           \* the next step of each thread
  mutex,        \* the threads that hold mutex_ of BatteryNotify
  registered,   \* the HDI callback is registered
  hdiReady,     \* isBatteryHdiReady_
  ces,          \* the system ability manager knows the CES
  added,        \* history: OnAddSystemAbility was called for the CES
  cesReady,     \* isCommonEventReady_
  cesInit,      \* g_commonEventInitSuccess
  once,         \* the g_battery*Once flags
  announced,    \* batteryInfoChargeType_
  changed,      \* history: the reading of the last BATTERY_CHANGED event
  said,         \* history: the last edge event of each pair, until torn
  overlap,      \* history: two threads were at work at once
  torn          \* history: batteryInfo_ changed under a thread in mutex_

infoVars == <<batteryInfo, uevent, torn>>
startVars == <<registered, hdiReady, ces, added, cesReady>>
eventVars == <<cesInit, once, announced, changed, said>>
vars == <<infoVars, copy, pc, mutex, overlap, startVars, eventVars>>

SharedThreads == ReportThreads \cup InitThreads
Thread == SharedThreads \cup {CesThread}

Reading == [capacity: Capacity, pluggedType: PluggedType,
            chargeState: ChargeState, chargeType: ChargeType]

NoReading == [capacity |-> -1, pluggedType |-> "BUTT",
              chargeState |-> "BUTT", chargeType |-> "NONE"]

Event ==
  {"low", "okay", "connected", "disconnected", "charging", "discharging"}

Opposite ==
  [low |-> "okay", okay |-> "low",
   connected |-> "disconnected", disconnected |-> "connected",
   charging |-> "discharging", discharging |-> "charging"]

(***************************************************************************)
(* The condition of each edge event, as the six publishers test it.        *)
(***************************************************************************)
Plugged(info) == info.pluggedType \notin {"NONE", "BUTT"}
Charging(info) == info.chargeState \in {"ENABLE", "FULL"}

Holds(e, info) ==
  \/ e = "low" /\ info.capacity <= LowCapacity
  \/ e = "okay" /\ info.capacity > LowCapacity
  \/ e = "connected" /\ Plugged(info)
  \/ e = "disconnected" /\ ~Plugged(info)
  \/ e = "charging" /\ Charging(info)
  \/ e = "discharging" /\ ~Charging(info)

(***************************************************************************)
(* The order of the publishers inside mutex_.                              *)
(***************************************************************************)
After ==
  [low |-> "okay", okay |-> "connected", connected |-> "disconnected",
   disconnected |-> "charging", charging |-> "discharging",
   discharging |-> "chargeType"]

Section == Event \cup {"chargeType"}
Label == {"idle", "init", "publish", "changed", "lock", "ready"} \cup Section

TypeOK ==
  /\ batteryInfo \in Reading \cup {NoReading}
  /\ uevent \in {"plain", "broadcast", "custom", "command", "handled"}
  /\ copy \in Reading \cup {NoReading}
  /\ pc \in [Thread -> Label]
  /\ mutex \subseteq Thread
  /\ {registered, hdiReady, ces, added, cesReady, cesInit, overlap, torn}
       \subseteq BOOLEAN
  /\ once \in [Event -> BOOLEAN]
  /\ announced \in ChargeType \cup {"NONE"}
  /\ changed \in Reading \cup {NoReading}
  /\ said \subseteq Event

Init ==
  /\ batteryInfo = NoReading
  /\ uevent = "plain"
  /\ copy = NoReading
  /\ pc = [t \in Thread |-> "idle"]
  /\ mutex = {}
  /\ registered = FALSE
  /\ hdiReady = FALSE
  /\ ces \in BOOLEAN
  /\ added = FALSE
  /\ cesReady = FALSE
  /\ cesInit = FALSE
  /\ once = [e \in Event |-> FALSE]
  /\ announced = "NONE"
  /\ changed = NoReading
  /\ said = {}
  /\ overlap = FALSE
  /\ torn = FALSE

Busy(t) == pc[t] # "idle"
Quiet == \A t \in Thread : ~Busy(t)
Overlapping == overlap \/ ~Quiet

Goto(t, from, to) ==
  /\ pc[t] = from
  /\ pc' = [pc EXCEPT ![t] = to]

(***************************************************************************)
(* What thread t publishes, and where it goes when PublishEvents returns.  *)
(***************************************************************************)
Argument(t) == IF t = CesThread THEN copy ELSE batteryInfo
ArgumentUevent(t) == IF t = CesThread THEN "plain" ELSE uevent
Return(t) == IF t \in ReportThreads THEN "idle" ELSE "ready"

(***************************************************************************)
(* batteryInfo_ is assigned by ConvertingEvent or by the getters.          *)
(***************************************************************************)
Assign(events) ==
  /\ batteryInfo' \in Reading
  /\ uevent' \in events
  /\ torn' = (torn \/ \E u \in SharedThreads : pc[u] \in Section)

-----------------------------------------------------------------------------
(***************************************************************************)
(* A report of the HDI that is handled, once the callback is registered;   *)
(* while the uevent is mocked the report keeps it.                         *)
(***************************************************************************)
HandleBatteryInfo(t) ==
  /\ registered
  /\ Goto(t, "idle", "publish")
  /\ Assign(Uevent \cup {uevent})
  /\ overlap' = Overlapping
  /\ UNCHANGED <<copy, mutex, startVars, eventVars>>

(***************************************************************************)
(* The task of a START report: RegisterBatteryHdiCallback, InitBatteryInfo *)
(* and the flag isBatteryHdiReady_.  AddBootCommonEvents leaves the uevent *)
(* as it is, clears it, or asks for a broadcast.                           *)
(***************************************************************************)
RegisterBatteryHdiCallback(t) ==
  /\ Goto(t, "idle", "init")
  /\ registered' = TRUE
  /\ overlap' = Overlapping
  /\ UNCHANGED <<infoVars, copy, mutex, hdiReady, ces, added, cesReady,
                 eventVars>>

InitBatteryInfo(t) ==
  /\ Goto(t, "init", "publish")
  /\ Assign({uevent, "plain", "broadcast"})
  /\ UNCHANGED <<copy, mutex, overlap, startVars, eventVars>>

SetHdiReady(t) ==
  /\ Goto(t, "ready", "idle")
  /\ hdiReady' = TRUE
  /\ UNCHANGED <<infoVars, copy, mutex, overlap, registered, ces, added,
                 cesReady, eventVars>>

(***************************************************************************)
(* The CES registers itself, and OnAddSystemAbility hears of it, once or   *)
(* again after a restart of the CES.                                       *)
(***************************************************************************)
CesStarts ==
  /\ ~ces
  /\ ces' = TRUE
  /\ UNCHANGED <<infoVars, copy, pc, mutex, overlap, registered, hdiReady,
                 added, cesReady, eventVars>>

OnAddTooEarly ==
  /\ ces /\ ~cesReady /\ ~hdiReady
  /\ added' = TRUE
  /\ overlap' = Overlapping
  /\ UNCHANGED <<infoVars, copy, pc, mutex, registered, hdiReady, ces,
                 cesReady, eventVars>>

(***************************************************************************)
(* With a bug: the CES is taken as ready without publishing anything.      *)
(***************************************************************************)
OnAddWithoutPublish ==
  /\ ces /\ ~cesReady /\ hdiReady
  /\ Goto(CesThread, "idle", "ready")
  /\ copy' = batteryInfo
  /\ added' = TRUE
  /\ overlap' = Overlapping
  /\ UNCHANGED <<infoVars, mutex, registered, hdiReady, ces, cesReady,
                 eventVars>>

OnAddSystemAbility ==
  /\ ces /\ ~cesReady /\ hdiReady
  /\ Goto(CesThread, "idle", "publish")
  /\ copy' = batteryInfo
  /\ added' = TRUE
  /\ overlap' = Overlapping
  /\ UNCHANGED <<infoVars, mutex, registered, hdiReady, ces, cesReady,
                 eventVars>>

SetCommonEventReady ==
  /\ Goto(CesThread, "ready", "idle")
  /\ cesReady' = TRUE
  /\ copy' = NoReading
  /\ UNCHANGED <<infoVars, mutex, overlap, registered, hdiReady, ces, added,
                 eventVars>>

-----------------------------------------------------------------------------
(***************************************************************************)
(* PublishEvents.  Nothing is published while there is no CES.             *)
(***************************************************************************)
CesMissing(t) ==
  /\ ~cesInit /\ ~ces
  /\ Goto(t, "publish", Return(t))
  /\ UNCHANGED <<infoVars, copy, mutex, overlap, startVars, eventVars>>

CesPresent == cesInit \/ ces

PublishOrdinary(t) ==
  /\ CesPresent
  /\ ArgumentUevent(t) = "plain"
  /\ Goto(t, "publish", "changed")
  /\ cesInit' = TRUE
  /\ UNCHANGED <<infoVars, copy, mutex, overlap, startVars, once, announced,
                 changed, said>>

(***************************************************************************)
(* HandleUevent, instead of the events below: a uevent "name$action" is    *)
(* broadcast in a BATTERY_CHANGED event, sent as a custom event, or is a   *)
(* command to shut down or reboot.  The first two cut the action off the   *)
(* uevent, in batteryInfo_ itself, and a uevent without action is ignored. *)
(***************************************************************************)
HandleUevent(t) ==
  /\ CesPresent
  /\ ArgumentUevent(t) # "plain"
  /\ Goto(t, "publish", Return(t))
  /\ cesInit' = TRUE
  /\ uevent' = IF uevent \in {"broadcast", "custom"} THEN "handled" ELSE uevent
  /\ changed' = IF uevent = "broadcast" THEN Argument(t) ELSE changed
  /\ UNCHANGED <<batteryInfo, torn, copy, mutex, overlap, startVars, once,
                 announced, said>>

PublishChangedEvent(t) ==
  /\ Goto(t, "changed", "lock")
  /\ changed' = Argument(t)
  /\ UNCHANGED <<infoVars, copy, mutex, overlap, startVars, cesInit, once,
                 announced, said>>

(***************************************************************************)
(* With a bug: the publishers do not wait for mutex_.                      *)
(***************************************************************************)
EnterWithoutLock(t) ==
  /\ Goto(t, "lock", "low")
  /\ mutex' = {t}
  /\ UNCHANGED <<infoVars, copy, overlap, startVars, eventVars>>

LockMutex(t) ==
  /\ mutex = {}
  /\ Goto(t, "lock", "low")
  /\ mutex' = {t}
  /\ UNCHANGED <<infoVars, copy, overlap, startVars, eventVars>>

(***************************************************************************)
(* Event e is published: it is in said when it was published an odd number *)
(* of times since the opposite event was, so that one more time shows.     *)
(***************************************************************************)
Tell(e) ==
  said' = IF e \in said THEN said \ {e} ELSE (said \ {Opposite[e]}) \cup {e}

(***************************************************************************)
(* With a bug: the flag is not set after publishing.                       *)
(***************************************************************************)
PublishWithoutFlag(t, e) ==
  LET holds == Holds(e, Argument(t)) IN
    /\ Goto(t, e, After[e])
    /\ once' = [once EXCEPT ![e] = holds /\ once[e]]
    /\ IF holds /\ ~once[e] /\ ~torn THEN Tell(e) ELSE UNCHANGED said
    /\ UNCHANGED <<infoVars, copy, mutex, overlap, startVars, cesInit,
                   announced, changed>>

(***************************************************************************)
(* PublishLowEvent to PublishDischargingEvent: the flag of an event whose  *)
(* condition does not hold is cleared; otherwise the event is published,   *)
(* once.                                                                   *)
(***************************************************************************)
PublishEdgeEvent(t, e) ==
  LET holds == Holds(e, Argument(t)) IN
    /\ Goto(t, e, After[e])
    /\ once' = [once EXCEPT ![e] = holds]
    /\ IF holds /\ ~once[e] /\ ~torn THEN Tell(e) ELSE UNCHANGED said
    /\ UNCHANGED <<infoVars, copy, mutex, overlap, startVars, cesInit,
                   announced, changed>>

PublishLowEvent(t) == PublishEdgeEvent(t, "low")
PublishOkayEvent(t) == PublishEdgeEvent(t, "okay")
PublishPowerConnectedEvent(t) == PublishEdgeEvent(t, "connected")
PublishPowerDisconnectedEvent(t) == PublishEdgeEvent(t, "disconnected")
PublishChargingEvent(t) == PublishEdgeEvent(t, "charging")
PublishDischargingEvent(t) == PublishEdgeEvent(t, "discharging")

PublishChargeTypeChangedEvent(t) ==
  /\ Goto(t, "chargeType", Return(t))
  /\ announced' = Argument(t).chargeType
  /\ mutex' = {}
  /\ UNCHANGED <<infoVars, copy, overlap, startVars, cesInit, once, changed,
                 said>>

PublishEvents(t) ==
  \/ CesMissing(t)
  \/ PublishOrdinary(t)
  \/ HandleUevent(t)
  \/ PublishChangedEvent(t)
  \/ LockMutex(t)
  \/ PublishLowEvent(t)
  \/ PublishOkayEvent(t)
  \/ PublishPowerConnectedEvent(t)
  \/ PublishPowerDisconnectedEvent(t)
  \/ PublishChargingEvent(t)
  \/ PublishDischargingEvent(t)
  \/ PublishChargeTypeChangedEvent(t)

Next ==
  \/ \E t \in ReportThreads : HandleBatteryInfo(t)
  \/ \E t \in InitThreads :
       \/ RegisterBatteryHdiCallback(t)
       \/ InitBatteryInfo(t)
       \/ SetHdiReady(t)
  \/ CesStarts
  \/ OnAddTooEarly
  \/ OnAddSystemAbility
  \/ SetCommonEventReady
  \/ \E t \in Thread : PublishEvents(t)

Spec == Init /\ [][Next]_vars

-----------------------------------------------------------------------------
Promise ==
  INSTANCE EdgeEvents
    WITH Event <- Event, Opposite <- Opposite, said <- said

(***************************************************************************)
(* As long as batteryInfo_ did not change under a thread inside mutex_,    *)
(* publishing implements EdgeEvents, however the callers interleave: an    *)
(* event is asked for only after its opposite.  mutex_ alone does not give *)
(* more: the two publishers of a pair may otherwise see two reports.       *)
(***************************************************************************)
KeepsPromise == Promise!Spec

Current ==
  /\ changed = batteryInfo
  /\ announced = batteryInfo.chargeType
  /\ \A e \in Event : e \in said <=> Holds(e, batteryInfo)

(***************************************************************************)
(* As long as no two of the callers were at work at once: when nobody is,  *)
(* the CES is known and the last report was an ordinary one, the           *)
(* subscribers were told everything about the current batteryInfo_.  What  *)
(* could not be published before the CES was there is published by         *)
(* OnAddSystemAbility or by the START task, whichever comes last, and the  *)
(* uevents that suppress the events do not leave a flag in a wrong state.  *)
(***************************************************************************)
SubscribersAreCurrent ==
  (~overlap /\ Quiet /\ added /\ hdiReady /\ uevent = "plain")
    => Current

-----------------------------------------------------------------------------
(***************************************************************************)
(* Why the events alternate.  Only the holder of mutex_ is in the section. *)
(* For a pair of events whose second publisher is not next, the flags tell *)
(* which event was the last; between the two publishers of a pair the      *)
(* first flag tells what the first publisher saw, and the second publisher *)
(* will see the same.                                                      *)
(***************************************************************************)
First == {"low", "connected", "charging"}

HolderInSection ==
  \A t \in Thread : pc[t] \in Section <=> mutex = {t}

NotBoth(f) == f \notin said \/ Opposite[f] \notin said

Settled(f) ==
  /\ once[f] <=> f \in said
  /\ once[Opposite[f]] <=> Opposite[f] \in said
  /\ NotBoth(f)

HalfWay(f, info) ==
  \/ Holds(f, info) /\ once[f] /\ f \in said /\ Opposite[f] \notin said
  \/ /\ ~Holds(f, info) /\ ~once[f] /\ NotBoth(f)
     /\ once[Opposite[f]] <=> Opposite[f] \in said

FlagsOf(f) ==
  /\ (\A t \in Thread : pc[t] # Opposite[f]) => Settled(f)
  /\ \A t \in Thread : pc[t] = Opposite[f] => HalfWay(f, Argument(t))

FlagsTellLast == ~torn => \A f \in First : FlagsOf(f)

(***************************************************************************)
(* Why the subscribers are current.  While no two callers are at work at   *)
(* once the copy is what batteryInfo_ is.                                  *)
(***************************************************************************)
AtWork == {"publish", "changed", "lock"} \cup Section

OneAtWork ==
  ~overlap =>
    /\ ~torn
    /\ \A t, u \in Thread : Busy(t) /\ Busy(u) => t = u
    /\ pc[CesThread] \in AtWork => copy = batteryInfo

(***************************************************************************)
(* Whoever is the last, the CES or the HDI, has published after the other  *)
(* was there: from then on cesInit is set, or OnAddSystemAbility is about *)
(* to set it.                                                              *)
(***************************************************************************)
CesIsKnown ==
  /\ \A t \in Thread : pc[t] \in AtWork \ {"publish"} => cesInit
  /\ added \/ Busy(CesThread) => ces
  /\ ~overlap =>
       /\ added /\ hdiReady => cesInit \/ pc[CesThread] = "publish"
       /\ \A t \in Thread : added /\ pc[t] = "ready" => cesInit

(***************************************************************************)
(* The pairs whose publishers a thread in the section has passed are as    *)
(* batteryInfo_ says; and all is when nobody is on the way to publish.     *)
(***************************************************************************)
Passed ==
  [low |-> {}, okay |-> {},
   connected |-> {"low"}, disconnected |-> {"low"},
   charging |-> {"low", "connected"}, discharging |-> {"low", "connected"},
   chargeType |-> First]

Told(f) ==
  \A e \in {f, Opposite[f]} : e \in said <=> Holds(e, batteryInfo)

PassedAreTold ==
  ~overlap => \A t \in Thread :
    /\ pc[t] \in {"lock"} \cup Section => changed = batteryInfo
    /\ pc[t] \in Section => \A f \in Passed[pc[t]] : Told(f)

Resting == \A t \in Thread : pc[t] \in {"idle", "ready"}

RestIsCurrent == ~overlap /\ Resting /\ cesInit /\ uevent = "plain" => Current

IInv ==
  /\ TypeOK /\ HolderInSection /\ FlagsTellLast
  /\ OneAtWork /\ CesIsKnown /\ PassedAreTold /\ RestIsCurrent
=============================================================================
