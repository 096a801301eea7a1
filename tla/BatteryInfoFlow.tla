-------------------------- MODULE BatteryInfoFlow --------------------------
(***************************************************************************)
(* How a report of the battery HDI becomes the service's current and last  *)
(* handled battery information (services/native/src/battery_service.cpp).  *)
(*                                                                         *)
(* Three kinds of threads run HandleBatteryInfo on the same two members    *)
(* batteryInfo_ and lastBatteryInfo_, and none of them holds a lock that   *)
(* excludes the others: the binder thread of an IBatteryCallback::Update,  *)
(* the FFRT worker that runs the task of a SERVIE_STATUS_START report, and *)
(* the binder thread of a Dump (the mock commands hold mutex_ shared).     *)
(*                                                                         *)
(* This module holds everything before and after the capacity handling;    *)
(* LowCapacityShutdown and LowCapacityHibernate extend it with the two     *)
(* builds of HandleCapacity, the steps from label "handle" to "record".    *)
(* The light, the wake-up, the remaining time, the published events and    *)
(* the temperature check of HandleBatteryInfo touch no variable of these   *)
(* modules.                                                                *)
(***************************************************************************)
EXTENDS Integers, FiniteSets

CONSTANTS
  HdiThreads,    \* threads that deliver IBatteryCallback::Update
  InitThreads,   \* FFRT workers that run the task of a START report
  DumpThreads,   \* binder threads that run a Dump of the service
  Capacity,      \* the capacities the battery reports
  ChargeState,   \* the charge states the battery reports
  Presence       \* whether the battery may be reported present, absent

INVALID_BATT_INT_VALUE == -1
BATTERY_FULL_CAPACITY == 100

ASSUME ThreadsAssumption ==
  /\ HdiThreads \cap InitThreads = {}
  /\ HdiThreads \cap DumpThreads = {}
  /\ InitThreads \cap DumpThreads = {}

ASSUME InfoAssumption ==
  /\ Capacity \subseteq 0 .. BATTERY_FULL_CAPACITY
  /\ ChargeState \subseteq {"NONE", "ENABLE", "DISABLE", "FULL"}
  /\ Presence \subseteq BOOLEAN

VARIABLES
  device,           \* what the battery HDI reports when it is asked
  stale,            \* the service has not been told of the device's state
  mock,             \* the isMock*_ flags that are set
  batteryInfo,      \* batteryInfo_
  lastBatteryInfo,  \* lastBatteryInfo_
  pc,               \* the next step of each thread
  local,            \* a thread's event, later the arguments of HandleCapacity
  overlap           \* history: two threads were inside the handler at once

flowVars ==
  <<device, stale, mock, batteryInfo, lastBatteryInfo, pc, local, overlap>>

Thread == HdiThreads \cup InitThreads \cup DumpThreads

Reported == [capacity: Capacity, chargeState: ChargeState, present: Presence]

(***************************************************************************)
(* A BatteryInfo holds what was reported, what the service falls back to   *)
(* without an HDI, what a mock wrote, or its constructor's values.         *)
(***************************************************************************)
Info ==
  [capacity: 0 .. BATTERY_FULL_CAPACITY \cup {INVALID_BATT_INT_VALUE},
   chargeState: {"NONE", "ENABLE", "DISABLE", "FULL", "BUTT"},
   present: BOOLEAN]

ConstructedInfo ==
  [capacity |-> INVALID_BATT_INT_VALUE, chargeState |-> "BUTT",
   present |-> TRUE]

NullInterfaceInfo ==
  [capacity |-> BATTERY_FULL_CAPACITY, chargeState |-> "NONE",
   present |-> FALSE]

Mocks == {"unplugged", "capacity", "uevent"}

Label ==
  {"idle", "convert", "compare", "init", "mockUnplugged", "mockCapacity",
   "mockOther", "handle", "submit", "arm", "clear", "cancel", "unlock",
   "record"}

FlowTypeOK ==
  /\ device \in Reported
  /\ stale \in BOOLEAN
  /\ mock \subseteq Mocks
  /\ batteryInfo \in Info
  /\ lastBatteryInfo \in Info
  /\ pc \in [Thread -> Label]
  /\ local \in [Thread -> Info]
  /\ overlap \in BOOLEAN

FlowInit ==
  /\ device \in Reported
  /\ stale = TRUE
  /\ mock = {}
  /\ batteryInfo = ConstructedInfo
  /\ lastBatteryInfo = ConstructedInfo
  /\ pc = [t \in Thread |-> "idle"]
  /\ local = [t \in Thread |-> ConstructedInfo]
  /\ overlap = FALSE

Busy(t) == pc[t] # "idle"

Quiet == \A t \in Thread : ~Busy(t)

(***************************************************************************)
(* Thread t enters the handler at a label with the event it was given.     *)
(***************************************************************************)
Enter(t, label, event) ==
  /\ pc[t] = "idle"
  /\ pc' = [pc EXCEPT ![t] = label]
  /\ local' = [local EXCEPT ![t] = event]
  /\ overlap' = (overlap \/ \E u \in Thread : Busy(u))

Leave(t) ==
  /\ pc' = [pc EXCEPT ![t] = "idle"]
  /\ local' = [local EXCEPT ![t] = ConstructedInfo]

Goto(t, from, to) ==
  /\ pc[t] = from
  /\ pc' = [pc EXCEPT ![t] = to]

(***************************************************************************)
(* The battery, and so what the HDI will report, changes.                  *)
(***************************************************************************)
DeviceChanges ==
  /\ device' \in Reported \ {device}
  /\ stale' = TRUE
  /\ UNCHANGED <<mock, batteryInfo, lastBatteryInfo, pc, local, overlap>>

(***************************************************************************)
(* ConvertingEvent: a field whose mock is set keeps its value.             *)
(***************************************************************************)
ConvertingEvent(event) ==
  [capacity |-> IF "capacity" \in mock THEN batteryInfo.capacity
                                       ELSE event.capacity,
   chargeState |-> IF "unplugged" \in mock THEN batteryInfo.chargeState
                                           ELSE event.chargeState,
   present |-> event.present]

(***************************************************************************)
(* HandleBatteryCallbackEvent: the HDI reports its state, whether it       *)
(* changed or not; a report that comes while a mock is set is dropped.     *)
(***************************************************************************)
DropUpdate(t) ==
  /\ mock # {}
  /\ pc[t] = "idle"
  /\ stale' = FALSE
  /\ UNCHANGED <<device, mock, batteryInfo, lastBatteryInfo, pc, local,
                 overlap>>

ReceiveUpdate(t) ==
  /\ mock = {}
  /\ Enter(t, "convert", device)
  /\ stale' = FALSE
  /\ UNCHANGED <<device, mock, batteryInfo, lastBatteryInfo>>

ConvertUpdate(t) ==
  /\ Goto(t, "convert", "compare")
  /\ batteryInfo' = ConvertingEvent(local[t])
  /\ UNCHANGED <<device, stale, mock, lastBatteryInfo, local, overlap>>

(***************************************************************************)
(* The report is handled unless the whole BatteryInfo equals the last one  *)
(* handled.  Fields that are not modelled (voltage, current...) may differ *)
(* when the modelled ones agree.                                           *)
(***************************************************************************)
ReturnIfSame(t) ==
  /\ pc[t] = "compare"
  /\ lastBatteryInfo = batteryInfo
  /\ Leave(t)
  /\ UNCHANGED <<device, stale, mock, batteryInfo, lastBatteryInfo, overlap>>

HandleIfDifferent(t) ==
  /\ Goto(t, "compare", "handle")
  /\ UNCHANGED <<device, stale, mock, batteryInfo, lastBatteryInfo, local,
                 overlap>>

(***************************************************************************)
(* InitBatteryInfo, the task of a START report: the getters ask the HDI,   *)
(* or return the mocked field, or fall back when there is no interface     *)
(* (the callback is then not registered either).  Nothing is compared.     *)
(***************************************************************************)
StartInit(t) ==
  /\ Enter(t, "init", device)
  /\ stale' = FALSE
  /\ UNCHANGED <<device, mock, batteryInfo, lastBatteryInfo>>

StartInitWithoutHdi(t) ==
  /\ Enter(t, "init", NullInterfaceInfo)
  /\ stale' = TRUE
  /\ UNCHANGED <<device, mock, batteryInfo, lastBatteryInfo>>

InitBatteryInfo(t) ==
  /\ Goto(t, "init", "handle")
  /\ batteryInfo' = ConvertingEvent(local[t])
  /\ UNCHANGED <<device, stale, mock, lastBatteryInfo, local, overlap>>

(***************************************************************************)
(* The mock commands and the reset of a Dump: set or clear the flags, ask  *)
(* the HDI for its state, then convert it.  Nobody tests whether the HDI   *)
(* answered: after a failure the event has the values it was created with, *)
(* of which the model takes those that a battery may report.  The mocked   *)
(* capacity travels in the event, whose own one the conversion skips.      *)
(***************************************************************************)
StartMock(t, label, name) ==
  /\ \E event \in Reported : Enter(t, label, event)
  /\ mock' = mock \cup {name}
  /\ UNCHANGED <<device, stale, batteryInfo, lastBatteryInfo>>

StartMockUnplugged(t) == StartMock(t, "mockUnplugged", "unplugged")
StartMockCapacity(t) == StartMock(t, "mockCapacity", "capacity")
StartMockUevent(t) == StartMock(t, "mockOther", "uevent")

(***************************************************************************)
(* With a bug: Reset clears the flags and does not ask the HDI.            *)
(***************************************************************************)
ResetWithoutQuery(t) ==
  /\ Enter(t, "mockOther", batteryInfo)
  /\ mock' = {}
  /\ UNCHANGED <<device, stale, batteryInfo, lastBatteryInfo>>

StartReset(t) ==
  /\ \E event \in Reported :
       /\ Enter(t, "mockOther", event)
       /\ stale' = (event # device)
  /\ mock' = {}
  /\ UNCHANGED <<device, batteryInfo, lastBatteryInfo>>

MockUnplugged(t) ==
  /\ Goto(t, "mockUnplugged", "handle")
  /\ batteryInfo' =
       [ConvertingEvent(local[t]) EXCEPT !.chargeState = "NONE"]
  /\ UNCHANGED <<device, stale, mock, lastBatteryInfo, local, overlap>>

MockCapacity(t) ==
  /\ Goto(t, "mockCapacity", "handle")
  /\ batteryInfo' =
       [ConvertingEvent(local[t]) EXCEPT !.capacity = local[t].capacity]
  /\ UNCHANGED <<device, stale, mock, lastBatteryInfo, local, overlap>>

MockUeventOrReset(t) ==
  /\ Goto(t, "mockOther", "handle")
  /\ batteryInfo' = ConvertingEvent(local[t])
  /\ UNCHANGED <<device, stale, mock, lastBatteryInfo, local, overlap>>

(***************************************************************************)
(* The end of HandleBatteryInfo.                                           *)
(***************************************************************************)
Record(t) ==
  /\ pc[t] = "record"
  /\ lastBatteryInfo' = batteryInfo
  /\ Leave(t)
  /\ UNCHANGED <<device, stale, mock, batteryInfo, overlap>>

(***************************************************************************)
(* The steps outside the capacity handling: how a thread of each kind      *)
(* enters the handler, and how it goes on.                                 *)
(***************************************************************************)
HdiReport(t) == DropUpdate(t) \/ ReceiveUpdate(t)

StartReport(t) == StartInit(t) \/ StartInitWithoutHdi(t)

DumpCommand(t) ==
  \/ StartMockUnplugged(t)
  \/ StartMockCapacity(t)
  \/ StartMockUevent(t)
  \/ StartReset(t)

Continue(t) ==
  \/ ConvertUpdate(t)
  \/ ReturnIfSame(t)
  \/ HandleIfDifferent(t)
  \/ InitBatteryInfo(t)
  \/ MockUnplugged(t)
  \/ MockCapacity(t)
  \/ MockUeventOrReset(t)
  \/ Record(t)

FlowStep ==
  \/ DeviceChanges
  \/ \E t \in HdiThreads : HdiReport(t)
  \/ \E t \in InitThreads : StartReport(t)
  \/ \E t \in DumpThreads : DumpCommand(t)
  \/ \E t \in Thread : Continue(t)

(***************************************************************************)
(* As long as no two threads were inside the handler at once: when nobody  *)
(* is in it, no mock is set and the service was told of the battery's      *)
(* state (the HDI owes no report, and answered the last Reset), the last   *)
(* handled information is the battery's.  The mocks that drop reports, the *)
(* reset that makes up for them and the comparison that skips a repeated   *)
(* report (battery_service.cpp:242-252, 1084-1158) must work together.     *)
(***************************************************************************)
HandledInfoIsCurrent ==
  ~overlap /\ Quiet /\ mock = {} /\ ~stale => lastBatteryInfo = device

-----------------------------------------------------------------------------
(***************************************************************************)
(* Why it holds.  While no two threads met, at most one is in the handler; *)
(* from the moment the service was told, that thread carries the battery's *)
(* state first in its event and then in batteryInfo_.                      *)
(***************************************************************************)
OneThreadInHandler ==
  \A t, u \in Thread : Busy(t) /\ Busy(u) => t = u

MockCommandsKeepMocks ==
  \A t \in Thread : pc[t] \in {"mockUnplugged", "mockCapacity"} => mock # {}

EventIsCurrent ==
  \A t \in Thread :
    pc[t] \in {"convert", "init", "mockOther"} => local[t] = device

ConvertedIsCurrent ==
  \A t \in Thread :
    pc[t] \in {"compare", "handle", "submit", "arm", "clear", "cancel",
               "unlock", "record"}
      => batteryInfo = device

FlowInv ==
  ~overlap =>
    /\ OneThreadInHandler
    /\ MockCommandsKeepMocks
    /\ mock = {} /\ ~stale =>
         /\ EventIsCurrent
         /\ ConvertedIsCurrent
         /\ Quiet => lastBatteryInfo = device
=============================================================================
