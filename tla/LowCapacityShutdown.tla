------------------------ MODULE LowCapacityShutdown ------------------------
(***************************************************************************)
(* The delayed shutdown of an empty battery, in the build without          *)
(* BATTERY_MANAGER_SET_LOW_CAPACITY_THRESHOLD: BatteryService::            *)
(* HandleCapacity submits a task to the service's FFRT queue, the task     *)
(* runs SHUTDOWN_DELAY_TIME_MS later unless a charging report cancels it,  *)
(* and g_lowCapacityShutdownHandle is all the service remembers of it.     *)
(*                                                                         *)
(* The handle is a global that every thread of BatteryInfoFlow tests and   *)
(* assigns without a lock.                                                 *)
(***************************************************************************)
EXTENDS BatteryInfoFlow

CONSTANTS
  ShutdownThreshold,  \* shutdownCapacityThreshold_
  Task,               \* the tasks the FFRT queue can hold
  NoTask,             \* the null handle
  DeviceModes         \* values of "in extreme power save mode"

ASSUME ShutdownThresholdAssumption == ShutdownThreshold \in Int
ASSUME TaskAssumption == NoTask \notin Task
ASSUME DeviceModesAssumption == DeviceModes \subseteq BOOLEAN

VARIABLES
  handle,       \* g_lowCapacityShutdownHandle
  waiting,      \* submitted tasks whose delay has not elapsed
  running,      \* the task the serial queue is running, if any
  declined,     \* history: tasks that ended without asking for a shutdown
  extreme,      \* the device is in extreme power save mode
  shutdown      \* ShutDownDevice("LowCapacity") was called

taskVars == <<handle, waiting, running, declined, extreme, shutdown>>
vars == <<flowVars, taskVars>>

TypeOK ==
  /\ FlowTypeOK
  /\ handle \in Task \cup {NoTask}
  /\ waiting \subseteq Task
  /\ running \subseteq Task
  /\ declined \subseteq Task
  /\ extreme \in BOOLEAN
  /\ shutdown \in BOOLEAN

Init ==
  /\ FlowInit
  /\ handle = NoTask
  /\ waiting = {}
  /\ running = {}
  /\ declined = {}
  /\ extreme \in DeviceModes
  /\ shutdown = FALSE

IsCharging(info) == info.chargeState = "ENABLE"

Exhausted(info) ==
  /\ info.capacity <= ShutdownThreshold
  /\ info.present
  /\ ~IsCharging(info)

-----------------------------------------------------------------------------
(***************************************************************************)
(* With a bug: the handle is not tested before a task is submitted.        *)
(***************************************************************************)
TestWithoutHandle(t) ==
  /\ pc[t] = "handle"
  /\ local' = [local EXCEPT ![t] = batteryInfo]
  /\ pc' = [pc EXCEPT ![t] = IF Exhausted(batteryInfo)
                             THEN "submit" ELSE "clear"]
  /\ UNCHANGED <<device, stale, mock, batteryInfo, lastBatteryInfo, overlap>>
  /\ UNCHANGED taskVars

(***************************************************************************)
(* HandleCapacity.  Its arguments are read from batteryInfo_ at the call.  *)
(* Testing the handle and assigning it are two steps.                      *)
(***************************************************************************)
TestSubmit(t) ==
  /\ pc[t] = "handle"
  /\ local' = [local EXCEPT ![t] = batteryInfo]
  /\ pc' = [pc EXCEPT ![t] = IF Exhausted(batteryInfo) /\ handle = NoTask
                             THEN "submit" ELSE "clear"]
  /\ UNCHANGED <<device, stale, mock, batteryInfo, lastBatteryInfo, overlap>>
  /\ UNCHANGED taskVars

SubmitDelayTask(t) ==
  /\ Goto(t, "submit", "clear")
  /\ \E k \in Task \ (waiting \cup running \cup {handle}) :
       /\ handle' = k
       /\ waiting' = waiting \cup {k}
       /\ declined' = declined \ {k}
  /\ UNCHANGED <<device, stale, mock, batteryInfo, lastBatteryInfo, local,
                 overlap>>
  /\ UNCHANGED <<running, extreme, shutdown>>

(***************************************************************************)
(* With a bug: the handle of the cancelled task is kept, and blocks the    *)
(* next submission.                                                        *)
(***************************************************************************)
CancelKeepsHandle(t) ==
  /\ Goto(t, "clear", "record")
  /\ waiting' = IF IsCharging(local[t]) THEN waiting \ {handle} ELSE waiting
  /\ UNCHANGED <<device, stale, mock, batteryInfo, lastBatteryInfo, local,
                 overlap>>
  /\ UNCHANGED <<handle, running, declined, extreme, shutdown>>

(***************************************************************************)
(* With a bug: charging cancels only once the capacity has recovered.      *)
(***************************************************************************)
CancelWhenRecovered(t) ==
  /\ Goto(t, "clear", "record")
  /\ IF IsCharging(local[t]) /\ local[t].capacity > ShutdownThreshold
     THEN /\ waiting' = waiting \ {handle}
          /\ handle' = NoTask
     ELSE UNCHANGED <<waiting, handle>>
  /\ UNCHANGED <<device, stale, mock, batteryInfo, lastBatteryInfo, local,
                 overlap>>
  /\ UNCHANGED <<running, declined, extreme, shutdown>>

(***************************************************************************)
(* Cancelling takes a waiting task off the queue and does nothing to one   *)
(* that has started or ended.                                              *)
(***************************************************************************)
CancelIfCharging(t) ==
  /\ Goto(t, "clear", "record")
  /\ IF IsCharging(local[t])
     THEN /\ waiting' = waiting \ {handle}
          /\ handle' = NoTask
     ELSE UNCHANGED <<waiting, handle>>
  /\ UNCHANGED <<device, stale, mock, batteryInfo, lastBatteryInfo, local,
                 overlap>>
  /\ UNCHANGED <<running, declined, extreme, shutdown>>

(***************************************************************************)
(* The FFRT queue: it is serial, and runs a task some time after its delay *)
(* elapsed.  The task asks the power manager for the device's mode, and    *)
(* only then for the shutdown.  It leaves the handle as it is.             *)
(***************************************************************************)
RunTask(k) ==
  /\ running = {}
  /\ k \in waiting
  /\ waiting' = waiting \ {k}
  /\ running' = {k}
  /\ UNCHANGED flowVars
  /\ UNCHANGED <<handle, declined, extreme, shutdown>>

ShutDownDevice(k) ==
  /\ k \in running
  /\ ~extreme
  /\ running' = running \ {k}
  /\ shutdown' = TRUE
  /\ UNCHANGED flowVars
  /\ UNCHANGED <<handle, waiting, declined, extreme>>

DeclineShutdown(k) ==
  /\ k \in running
  /\ extreme
  /\ running' = running \ {k}
  /\ declined' = declined \cup {k}
  /\ UNCHANGED flowVars
  /\ UNCHANGED <<handle, waiting, extreme, shutdown>>

ChangeDeviceMode ==
  /\ extreme' \in DeviceModes \ {extreme}
  /\ UNCHANGED flowVars
  /\ UNCHANGED <<handle, waiting, running, declined, shutdown>>

HandleCapacity(t) ==
  \/ TestSubmit(t)
  \/ SubmitDelayTask(t)
  \/ CancelIfCharging(t)

QueueStep(k) ==
  \/ RunTask(k)
  \/ ShutDownDevice(k)
  \/ DeclineShutdown(k)

Next ==
  \/ FlowStep /\ UNCHANGED taskVars
  \/ \E t \in Thread : HandleCapacity(t)
  \/ \E k \in Task : QueueStep(k)
  \/ ChangeDeviceMode

Spec == Init /\ [][Next]_vars

(***************************************************************************)
(* Every thread that entered the handler leaves it, the queue runs its     *)
(* tasks, and a service that was not told of the battery's state gets a    *)
(* report: the HDI reports each change, and the voltage and the current    *)
(* never stay the same forever.  Nothing obliges the battery, the shell,   *)
(* the START reports or the device mode to change.                         *)
(***************************************************************************)
Fairness ==
  /\ \A t \in Thread :
       WF_vars((Continue(t) /\ UNCHANGED taskVars) \/ HandleCapacity(t))
  /\ \A t \in HdiThreads :
       WF_vars(stale /\ HdiReport(t) /\ UNCHANGED taskVars)
  /\ \A k \in Task : WF_vars(QueueStep(k))

FairSpec == Spec /\ Fairness

-----------------------------------------------------------------------------
(***************************************************************************)
(* The service will shut the device down for an empty battery, has asked   *)
(* to, or was told by the device mode not to.                              *)
(***************************************************************************)
Armed ==
  \/ handle \in waiting \cup running \cup declined
  \/ handle # NoTask /\ shutdown

(***************************************************************************)
(* As long as no two threads were inside the handler at once, a waiting    *)
(* shutdown task is the one the handle names: none is left that a charging *)
(* report could not cancel.                                                *)
(***************************************************************************)
WaitingTaskIsHandled == ~overlap => waiting \subseteq {handle}

(***************************************************************************)
(* ... and when the last handled information says that the battery is      *)
(* charging, no shutdown waits and the next empty battery can submit one.  *)
(***************************************************************************)
ChargingDisarms ==
  ~overlap /\ Quiet /\ IsCharging(lastBatteryInfo)
    => handle = NoTask /\ waiting = {}

(***************************************************************************)
(* ... and when it says that the battery is empty and not charging, a      *)
(* shutdown was arranged.  The repeated reports that are not handled and   *)
(* the handle that is never reset do not lose it, except that a task that  *)
(* met the extreme power save mode is not submitted again.                 *)
(***************************************************************************)
ExhaustedArms ==
  ~overlap /\ Quiet /\ lastBatteryInfo # ConstructedInfo
    => (Exhausted(lastBatteryInfo) => Armed)

(***************************************************************************)
(* A battery that stays empty and is not charged makes the service ask for *)
(* the shutdown, if the device never is in extreme power save mode, mocks  *)
(* and Dump commands come to an end and no two threads meet in the         *)
(* handler.                                                                *)
(***************************************************************************)
ExhaustedShutsDown ==
  /\ [](~extreme /\ ~overlap)
  /\ <>[](/\ Exhausted(device)
          /\ mock = {}
          /\ \A t \in DumpThreads : ~Busy(t))
  => <>shutdown

-----------------------------------------------------------------------------
(***************************************************************************)
(* The inductive invariant.  A thread between testing the handle and       *)
(* recording what it handled still knows what it tested; outside of that   *)
(* window the last handled information is settled.                         *)
(***************************************************************************)
Settled(info) ==
  /\ IsCharging(info) => handle = NoTask
  /\ info # ConstructedInfo /\ Exhausted(info) => handle # NoTask

HandleIsLive == handle # NoTask => Armed

SubmitterTested ==
  \A t \in Thread : pc[t] = "submit" =>
    /\ handle = NoTask
    /\ ~IsCharging(batteryInfo)
    /\ local[t] = batteryInfo

ClearerTested ==
  \A t \in Thread : pc[t] = "clear" =>
    /\ Exhausted(batteryInfo) => handle # NoTask
    /\ local[t] = batteryInfo

RecorderSettled ==
  \A t \in Thread : pc[t] = "record" => Settled(batteryInfo)

LastIsSettled ==
  (\A t \in Thread : pc[t] \notin {"submit", "clear", "record"})
    => Settled(lastBatteryInfo)

TaskInv ==
  /\ HandleIsLive
  /\ ~overlap =>
       /\ OneThreadInHandler
       /\ waiting \subseteq {handle}
       /\ SubmitterTested
       /\ ClearerTested
       /\ RecorderSettled
       /\ LastIsSettled

IInv == TypeOK /\ FlowInv /\ TaskInv
=============================================================================
