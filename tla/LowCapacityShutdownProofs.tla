--------------------- MODULE LowCapacityShutdownProofs ---------------------
(***************************************************************************)
(* Theorems of LowCapacityShutdown, for every set of threads, of reported  *)
(* capacities, states and presences, every threshold and every task queue. *)
(***************************************************************************)
EXTENDS LowCapacityShutdown, TLAPS

-----------------------------------------------------------------------------
(***************************************************************************)
(* The information flow: the steps of BatteryInfoFlow keep its types and   *)
(* its invariant FlowInv, whatever is done with the capacity.              *)
(***************************************************************************)


(***************************************************************************)
(* What the HDI reports, the fallback without an HDI and the conversion of *)
(* an Info are Infos.                                                      *)
(***************************************************************************)
LEMMA ReportedIsInfo ==
  /\ Reported \subseteq Info
  /\ ConstructedInfo \in Info
  /\ NullInterfaceInfo \in Info
<1>1. Reported \subseteq Info
  BY InfoAssumption DEF Reported, Info, BATTERY_FULL_CAPACITY
<1>2. ConstructedInfo \in Info
  BY DEF ConstructedInfo, Info, INVALID_BATT_INT_VALUE
<1>3. NullInterfaceInfo \in Info
  BY DEF NullInterfaceInfo, Info, BATTERY_FULL_CAPACITY
<1>4. QED
  BY <1>1, <1>2, <1>3

LEMMA ConvertingKeepsInfo ==
  ASSUME batteryInfo \in Info, NEW event \in Info
  PROVE  ConvertingEvent(event) \in Info
  BY DEF ConvertingEvent, Info

(***************************************************************************)
(* Without a mock, converting a report of the battery yields that report.  *)
(***************************************************************************)
LEMMA ConvertingWithoutMock ==
  ASSUME mock = {}, NEW event \in Info
  PROVE  ConvertingEvent(event) = event
  BY DEF ConvertingEvent, Info

-----------------------------------------------------------------------------
(***************************************************************************)
(* The types of the information flow.                                      *)
(***************************************************************************)
LEMMA FlowTypeInit == FlowInit => FlowTypeOK
  BY ReportedIsInfo DEF FlowInit, FlowTypeOK, Label

(***************************************************************************)
(* A mock command enters with its mock set and an event of some battery's. *)
(***************************************************************************)
MockCommand(t) ==
  StartMockUnplugged(t) \/ StartMockCapacity(t) \/ StartMockUevent(t)

LEMMA MockEnters ==
  ASSUME NEW t \in Thread, MockCommand(t)
  PROVE  /\ \E label \in {"mockUnplugged", "mockCapacity", "mockOther"} :
              \E event \in Reported : Enter(t, label, event)
         /\ \E name \in Mocks : mock' = mock \cup {name}
         /\ UNCHANGED <<device, stale, batteryInfo, lastBatteryInfo>>
  BY DEF MockCommand, StartMockUnplugged, StartMockCapacity, StartMockUevent,
     StartMock, Mocks

LEMMA FlowTypeEntering ==
  ASSUME FlowTypeOK, NEW t \in Thread,
         \/ HdiReport(t) \/ StartReport(t) \/ DumpCommand(t)
  PROVE  FlowTypeOK'
<1> USE ReportedIsInfo DEF FlowTypeOK
<1>1. CASE DropUpdate(t)
  BY <1>1 DEF DropUpdate
<1>2. CASE ReceiveUpdate(t)
  BY <1>2 DEF ReceiveUpdate, Enter, Label
<1>3. CASE StartInit(t)
  BY <1>3 DEF StartInit, Enter, Label
<1>4. CASE StartInitWithoutHdi(t)
  BY <1>4 DEF StartInitWithoutHdi, Enter, Label
<1>5. CASE MockCommand(t)
  BY <1>5, MockEnters DEF Enter, Label, Mocks
<1>6. CASE StartReset(t)
  BY <1>6 DEF StartReset, Enter, Label
<1>. QED
  BY <1>1, <1>2, <1>3, <1>4, <1>5, <1>6
  DEF HdiReport, StartReport, DumpCommand, MockCommand

LEMMA FlowTypeContinue ==
  ASSUME FlowTypeOK, NEW t \in Thread, Continue(t)
  PROVE  FlowTypeOK'
<1> USE DEF FlowTypeOK
<1>a. ConvertingEvent(local[t]) \in Info
  BY ConvertingKeepsInfo
<1>b. /\ [ConvertingEvent(local[t]) EXCEPT !.chargeState = "NONE"] \in Info
      /\ [ConvertingEvent(local[t]) EXCEPT !.capacity = local[t].capacity]
           \in Info
  BY <1>a DEF Info
<1>1. CASE ConvertUpdate(t)
  BY <1>1, <1>a DEF ConvertUpdate, Goto, Label
<1>2. CASE ReturnIfSame(t)
  BY <1>2, ReportedIsInfo DEF ReturnIfSame, Leave, Label
<1>3. CASE HandleIfDifferent(t)
  BY <1>3 DEF HandleIfDifferent, Goto, Label
<1>4. CASE InitBatteryInfo(t)
  BY <1>4, <1>a DEF InitBatteryInfo, Goto, Label
<1>5. CASE MockUnplugged(t)
  BY <1>5, <1>b DEF MockUnplugged, Goto, Label
<1>6. CASE MockCapacity(t)
  BY <1>6, <1>b DEF MockCapacity, Goto, Label
<1>7. CASE MockUeventOrReset(t)
  BY <1>7, <1>a DEF MockUeventOrReset, Goto, Label
<1>8. CASE Record(t)
  BY <1>8, ReportedIsInfo DEF Record, Leave, Label
<1>9. QED
  BY <1>1, <1>2, <1>3, <1>4, <1>5, <1>6, <1>7, <1>8 DEF Continue

LEMMA FlowTypeHandle ==
  ASSUME FlowTypeOK, NEW t \in Thread, NEW label \in Label,
         pc' = [pc EXCEPT ![t] = label],
         local' = local \/ local' = [local EXCEPT ![t] = batteryInfo],
         UNCHANGED <<device, stale, mock, batteryInfo, lastBatteryInfo, overlap>>
  PROVE  FlowTypeOK'
  BY DEF FlowTypeOK

-----------------------------------------------------------------------------
(***************************************************************************)
(* FlowInv: the one thread in the handler carries the battery's state.     *)
(***************************************************************************)
LEMMA FlowStarts == FlowInit => FlowInv
  BY DEF FlowInit, FlowInv, OneThreadInHandler, MockCommandsKeepMocks, Busy

(***************************************************************************)
(* Entering the handler when nobody is in it is the only way in that       *)
(* leaves the history variable overlap unset.                              *)
(***************************************************************************)
LEMMA EnterAlone ==
  ASSUME FlowTypeOK, NEW t \in Thread, NEW label \in Label \ {"idle"},
         NEW event \in Info, Enter(t, label, event), ~overlap'
  PROVE  /\ ~overlap
         /\ Quiet
         /\ pc'[t] = label
         /\ local'[t] = event
         /\ \A u \in Thread : u # t => pc'[u] = "idle"
         /\ OneThreadInHandler'
  BY DEF Enter, Quiet, Busy, OneThreadInHandler, FlowTypeOK

(***************************************************************************)
(* Going on or leaving keeps the thread alone in the handler.              *)
(***************************************************************************)
LEMMA MoveAlone ==
  ASSUME FlowTypeOK, OneThreadInHandler, NEW t \in Thread, Busy(t),
         NEW label \in Label, pc' = [pc EXCEPT ![t] = label]
  PROVE  /\ pc'[t] = label
         /\ \A u \in Thread : u # t => pc[u] = "idle" /\ pc'[u] = "idle"
         /\ OneThreadInHandler'
  BY DEF Busy, OneThreadInHandler, FlowTypeOK

(***************************************************************************)
(* Entering the handler keeps FlowInv, when a mock command sets its mock   *)
(* and any other thread, once the HDI owes nothing, brings the state of    *)
(* the battery.                                                            *)
(***************************************************************************)
LEMMA EnterKeepsFlow ==
  ASSUME FlowTypeOK, NEW t \in Thread, NEW event \in Info,
         NEW label \in {"convert", "init", "mockUnplugged", "mockCapacity",
                        "mockOther"},
         Enter(t, label, event),
         label \in {"mockUnplugged", "mockCapacity"} => mock' # {},
         label \in {"convert", "init", "mockOther"} /\ mock' = {} /\ ~stale'
           => event = device'
  PROVE  FlowInv'
<1> SUFFICES ASSUME ~overlap' PROVE FlowInv'
  BY DEF FlowInv
<1>1. label \in Label \ {"idle"}
  BY DEF Label
<1>2. /\ pc'[t] = label
      /\ local'[t] = event
      /\ \A u \in Thread : u # t => pc'[u] = "idle"
      /\ OneThreadInHandler'
  BY <1>1, EnterAlone
<1>3. MockCommandsKeepMocks'
  BY <1>2 DEF MockCommandsKeepMocks
<1>4. mock' = {} /\ ~stale' => EventIsCurrent'
  BY <1>2 DEF EventIsCurrent
<1>5. ConvertedIsCurrent'
  BY <1>2 DEF ConvertedIsCurrent
<1>6. ~Quiet'
  BY <1>2 DEF Quiet, Busy
<1>7. QED
  BY <1>2, <1>3, <1>4, <1>5, <1>6 DEF FlowInv

LEMMA FlowEntering ==
  ASSUME FlowTypeOK, FlowInv, NEW t \in Thread,
         \/ HdiReport(t) \/ StartReport(t) \/ DumpCommand(t)
  PROVE  FlowInv'
<1>a. device \in Info /\ device \in Reported
  BY ReportedIsInfo DEF FlowTypeOK
<1>1. CASE DropUpdate(t)
  BY <1>1 DEF DropUpdate, FlowInv, OneThreadInHandler,
              MockCommandsKeepMocks, Busy
<1>2. CASE ReceiveUpdate(t)
  BY <1>2, <1>a, EnterKeepsFlow DEF ReceiveUpdate
<1>3. CASE StartInit(t)
  BY <1>3, <1>a, EnterKeepsFlow DEF StartInit
<1>4. CASE StartInitWithoutHdi(t)
  BY <1>4, ReportedIsInfo, EnterKeepsFlow DEF StartInitWithoutHdi
<1>5. CASE MockCommand(t)
  <2>1. mock' # {}
    BY <1>5, MockEnters
  <2>. QED
    BY <1>5, <2>1, MockEnters, ReportedIsInfo, EnterKeepsFlow
<1>6. CASE StartReset(t)
  <2>1. PICK event \in Reported :
          Enter(t, "mockOther", event) /\ stale' = (event # device)
    BY <1>6 DEF StartReset
  <2>. QED
    BY <1>6, <2>1, ReportedIsInfo, EnterKeepsFlow DEF StartReset
<1>. QED
  BY <1>1, <1>2, <1>3, <1>4, <1>5, <1>6
  DEF HdiReport, StartReport, DumpCommand, MockCommand

LEMMA FlowContinue ==
  ASSUME FlowTypeOK, FlowInv, NEW t \in Thread, Continue(t)
  PROVE  FlowInv'
<1> SUFFICES ASSUME ~overlap
             PROVE  /\ OneThreadInHandler'
                    /\ MockCommandsKeepMocks'
                    /\ mock' = {} /\ ~stale' =>
                         /\ EventIsCurrent'
                         /\ ConvertedIsCurrent'
                         /\ Quiet' => lastBatteryInfo' = device'
  BY DEF FlowInv, Continue, ConvertUpdate, ReturnIfSame, HandleIfDifferent,
         InitBatteryInfo, MockUnplugged, MockCapacity, MockUeventOrReset,
         Record
<1> USE DEF FlowInv, MockCommandsKeepMocks, EventIsCurrent,
            ConvertedIsCurrent, Quiet, Busy
<1>a. local[t] \in Info
  BY DEF FlowTypeOK
<1>b. mock = {} => ConvertingEvent(local[t]) = local[t]
  BY <1>a, ConvertingWithoutMock
<1>1. CASE ConvertUpdate(t)
  BY <1>1, <1>b, MoveAlone DEF ConvertUpdate, Goto, Label
<1>2. CASE ReturnIfSame(t)
  BY <1>2, MoveAlone DEF ReturnIfSame, Leave, Label
<1>3. CASE HandleIfDifferent(t)
  BY <1>3, MoveAlone DEF HandleIfDifferent, Goto, Label
<1>4. CASE InitBatteryInfo(t)
  BY <1>4, <1>b, MoveAlone DEF InitBatteryInfo, Goto, Label
<1>5. CASE MockUnplugged(t)
  BY <1>5, MoveAlone DEF MockUnplugged, Goto, Label
<1>6. CASE MockCapacity(t)
  BY <1>6, MoveAlone DEF MockCapacity, Goto, Label
<1>7. CASE MockUeventOrReset(t)
  BY <1>7, <1>b, MoveAlone DEF MockUeventOrReset, Goto, Label
<1>8. CASE Record(t)
  BY <1>8, MoveAlone DEF Record, Leave, Label
<1>9. QED
  BY <1>1, <1>2, <1>3, <1>4, <1>5, <1>6, <1>7, <1>8 DEF Continue

LEMMA FlowHandle ==
  ASSUME FlowTypeOK, FlowInv, NEW t \in Thread,
         NEW label \in {"submit", "arm", "clear", "cancel", "unlock", "record"},
         pc[t] \in {"handle", "submit", "arm", "clear", "cancel", "unlock"},
         pc' = [pc EXCEPT ![t] = label],
         UNCHANGED <<device, stale, mock, batteryInfo, lastBatteryInfo, overlap>>
  PROVE  FlowInv'
<1>1. label \in Label
  BY DEF Label
<1>2. pc \in [Thread -> Label] /\ Busy(t) /\ pc'[t] = label
  BY DEF FlowTypeOK, Busy
<1>3. CASE ~overlap
  <2>1. /\ OneThreadInHandler'
        /\ \A x \in Thread \ {t} : pc'[x] = "idle"
    BY <1>1, <1>2, <1>3, MoveAlone DEF FlowInv
  <2>2. MockCommandsKeepMocks' /\ EventIsCurrent'
    BY <1>2, <2>1 DEF MockCommandsKeepMocks, EventIsCurrent
  <2>3. ASSUME mock = {}, ~stale
        PROVE  ConvertedIsCurrent'
    <3>1. batteryInfo = device
      BY <1>3, <2>3 DEF FlowInv, ConvertedIsCurrent
    <3>. QED
      BY <3>1 DEF ConvertedIsCurrent
  <2>4. ~Quiet'
    BY <1>2 DEF Quiet, Busy
  <2>. QED
    BY <1>3, <2>1, <2>2, <2>3, <2>4 DEF FlowInv
<1>. QED
  BY <1>3 DEF FlowInv

(***************************************************************************)
(* What happens to the battery, and what happens outside of the handler.   *)
(***************************************************************************)
LEMMA FlowDeviceChanges ==
  ASSUME FlowTypeOK, FlowInv, DeviceChanges
  PROVE  FlowTypeOK' /\ FlowInv'
  BY DEF DeviceChanges, FlowTypeOK, FlowInv, OneThreadInHandler,
         MockCommandsKeepMocks, Busy

LEMMA FlowUnchanged ==
  ASSUME FlowTypeOK, FlowInv, UNCHANGED flowVars
  PROVE  FlowTypeOK' /\ FlowInv'
  BY DEF flowVars, FlowTypeOK, FlowInv, OneThreadInHandler, MockCommandsKeepMocks,
         EventIsCurrent, ConvertedIsCurrent, Quiet, Busy

-----------------------------------------------------------------------------
(***************************************************************************)
(* The steps of the queue and of the device mode leave the information     *)
(* flow alone; those of the capacity handling go on in it.                 *)
(***************************************************************************)
LEMMA QueueIsApart ==
  ASSUME ChangeDeviceMode \/ \E k \in Task : QueueStep(k)
  PROVE  UNCHANGED flowVars
  BY DEF ChangeDeviceMode, QueueStep, RunTask, ShutDownDevice, DeclineShutdown

LEMMA HandleIsInFlow ==
  ASSUME FlowTypeOK, FlowInv, NEW t \in Thread, HandleCapacity(t)
  PROVE  FlowTypeOK' /\ FlowInv'
<1>1. /\ UNCHANGED <<device, stale, mock, batteryInfo, lastBatteryInfo, overlap>>
      /\ local' = local \/ local' = [local EXCEPT ![t] = batteryInfo]
      /\ pc[t] \in {"handle", "submit", "arm", "clear", "cancel", "unlock"}
  BY DEF HandleCapacity, TestSubmit, SubmitDelayTask, CancelIfCharging, Goto
<1>2. PICK label \in {"submit", "arm", "clear", "cancel", "unlock", "record"} :
        pc' = [pc EXCEPT ![t] = label]
  BY DEF HandleCapacity, TestSubmit, SubmitDelayTask, CancelIfCharging, Goto
<1>3. label \in Label
  BY DEF Label
<1>. QED
  BY <1>1, <1>2, <1>3, FlowTypeHandle, FlowHandle

LEMMA FlowNext == FlowTypeOK /\ FlowInv /\ [Next]_vars => FlowTypeOK' /\ FlowInv'
<1> SUFFICES ASSUME FlowTypeOK, FlowInv, [Next]_vars PROVE FlowTypeOK' /\ FlowInv'
  OBVIOUS
<1>1. CASE FlowStep
  BY <1>1, FlowDeviceChanges, FlowTypeEntering, FlowTypeContinue, FlowEntering,
     FlowContinue DEF FlowStep, Thread
<1>2. CASE \E t \in Thread : HandleCapacity(t)
  BY <1>2, HandleIsInFlow
<1>3. CASE UNCHANGED flowVars
  BY <1>3, FlowUnchanged
<1>. QED
  BY <1>1, <1>2, <1>3, QueueIsApart DEF Next, vars

(***************************************************************************)
(* The task's own variables.                                               *)
(***************************************************************************)
LEMMA TypeInit == Init => TypeOK
  BY FlowTypeInit, DeviceModesAssumption DEF Init, TypeOK

LEMMA TypeNext == TypeOK /\ FlowInv /\ [Next]_vars => TypeOK'
<1> SUFFICES ASSUME TypeOK, FlowInv, [Next]_vars PROVE TypeOK'
  OBVIOUS
<1>1. FlowTypeOK'
  BY FlowNext DEF TypeOK
<1>2. CASE UNCHANGED taskVars
  BY <1>1, <1>2 DEF TypeOK, taskVars
<1>3. ASSUME NEW t \in Thread, HandleCapacity(t) PROVE TypeOK'
  BY <1>1, <1>3 DEF TypeOK, HandleCapacity, TestSubmit, SubmitDelayTask,
     CancelIfCharging, taskVars
<1>4. CASE ChangeDeviceMode \/ \E k \in Task : QueueStep(k)
  BY <1>1, <1>4, DeviceModesAssumption DEF TypeOK, ChangeDeviceMode, QueueStep, RunTask,
     ShutDownDevice, DeclineShutdown
<1>. QED
  BY <1>2, <1>3, <1>4 DEF Next, vars

LEMMA FlowInvariance == Spec => [](TypeOK /\ FlowInv)
<1>1. Init => TypeOK /\ FlowInv
  BY TypeInit, FlowStarts DEF Init
<1>2. TypeOK /\ FlowInv /\ [Next]_vars => TypeOK' /\ FlowInv'
  BY TypeNext, FlowNext DEF TypeOK
<1>. QED
  BY <1>1, <1>2, PTL DEF Spec

(***************************************************************************)
(* The variables of the service, the queue and the device mode keep their  *)
(* types (battery_service.cpp:66-76, battery_service.h:166-204).           *)
(***************************************************************************)
THEOREM TypeCorrect == Spec => []TypeOK
  BY FlowInvariance, PTL

(***************************************************************************)
(* Whenever no two threads met, nobody handles anything, no mock is set    *)
(* and the HDI owes no report, what was handled last is the battery's      *)
(* state: no report is lost by the mocks or by the comparison with the     *)
(* last one (battery_service.cpp:242-252, 1084-1158).                      *)
(***************************************************************************)
THEOREM HandledInfoStaysCurrent == Spec => []HandledInfoIsCurrent
<1>1. FlowInv => HandledInfoIsCurrent
  BY DEF FlowInv, HandledInfoIsCurrent
<1>2. QED
  BY <1>1, FlowInvariance, PTL

-----------------------------------------------------------------------------
(***************************************************************************)
(* TaskInv: what a thread tested still holds until it records, and the     *)
(* last handled information is settled outside of that window.             *)
(***************************************************************************)
LEMMA TaskStarts == Init => TaskInv
  BY DEF Init, FlowInit, TaskInv, HandleIsLive, OneThreadInHandler, Busy,
         SubmitterTested, ClearerTested, RecorderSettled, LastIsSettled,
         Settled, ConstructedInfo, IsCharging

(***************************************************************************)
(* A step of the information flow up to the capacity handling.             *)
(***************************************************************************)
LEMMA TaskEntering ==
  ASSUME TypeOK, TaskInv, NEW t \in Thread, UNCHANGED taskVars,
         \/ HdiReport(t) \/ StartReport(t) \/ DumpCommand(t)
  PROVE  TaskInv'
<1>1. CASE DropUpdate(t)
  BY <1>1
  DEF DropUpdate, taskVars, TaskInv, HandleIsLive, Armed, OneThreadInHandler,
      Busy, SubmitterTested, ClearerTested, RecorderSettled, LastIsSettled,
      Settled
<1>2. CASE ~DropUpdate(t)
  <2>1. PICK label \in Label \ {"idle", "submit", "clear", "record"},
             event \in Info : Enter(t, label, event)
    <3>1. CASE MockCommand(t)
      BY <3>1, MockEnters, ReportedIsInfo DEF Label
    <3>2. CASE ~MockCommand(t)
      BY <1>2, <3>2, ReportedIsInfo
      DEF MockCommand, HdiReport, StartReport, DumpCommand, ReceiveUpdate,
          StartInit, StartInitWithoutHdi, StartReset, TypeOK, FlowTypeOK, Label
    <3>3. QED
      BY <3>1, <3>2
  <2>2. UNCHANGED <<batteryInfo, lastBatteryInfo>>
    BY <1>2, MockEnters
    DEF HdiReport, StartReport, DumpCommand, ReceiveUpdate, StartInit,
        StartInitWithoutHdi, MockCommand, StartReset
  <2>3. HandleIsLive'
    BY DEF TaskInv, HandleIsLive, Armed, taskVars
  <2>4. ASSUME ~overlap'
        PROVE  /\ OneThreadInHandler'
               /\ (waiting \subseteq {handle})'
               /\ SubmitterTested'
               /\ ClearerTested'
               /\ RecorderSettled'
               /\ LastIsSettled'
    <3>1. /\ ~overlap /\ Quiet /\ OneThreadInHandler'
          /\ \A u \in Thread : pc'[u] \notin {"submit", "clear", "record"}
      BY <2>1, <2>4, EnterAlone DEF TypeOK
    <3>2. Settled(lastBatteryInfo)
      BY <3>1 DEF TaskInv, LastIsSettled, Quiet, Busy
    <3>3. QED
      BY <2>2, <3>1, <3>2
      DEF TaskInv, taskVars, SubmitterTested, ClearerTested,
          RecorderSettled, LastIsSettled, Settled
  <2>5. QED
    BY <2>3, <2>4 DEF TaskInv
<1>3. QED
  BY <1>1, <1>2

LEMMA TaskContinue ==
  ASSUME TypeOK, TaskInv, NEW t \in Thread, Continue(t), UNCHANGED taskVars
  PROVE  TaskInv'
<1>1. HandleIsLive'
  BY DEF TaskInv, HandleIsLive, Armed, taskVars
<1>2. ASSUME ~overlap'
      PROVE  /\ OneThreadInHandler'
             /\ (waiting \subseteq {handle})'
             /\ SubmitterTested'
             /\ ClearerTested'
             /\ RecorderSettled'
             /\ LastIsSettled'
  <2>1. PICK label \in Label \ {"submit", "clear", "record"} :
          pc' = [pc EXCEPT ![t] = label]
    BY DEF Continue, ConvertUpdate, ReturnIfSame, HandleIfDifferent,
           InitBatteryInfo, MockUnplugged, MockCapacity, MockUeventOrReset,
           Record, Goto, Leave, Label
  <2>2. ~overlap /\ Busy(t)
    BY <1>2
    DEF Continue, ConvertUpdate, ReturnIfSame, HandleIfDifferent,
        InitBatteryInfo, MockUnplugged, MockCapacity, MockUeventOrReset,
        Record, Goto, Busy
  <2>3. /\ OneThreadInHandler'
        /\ \A u \in Thread : u # t => pc[u] = "idle"
        /\ \A u \in Thread : pc'[u] \notin {"submit", "clear", "record"}
    BY <2>1, <2>2, MoveAlone DEF TypeOK, TaskInv
  <2>4. CASE Record(t)
    BY <2>2, <2>3, <2>4
    DEF Record, TaskInv, RecorderSettled, Settled, taskVars, SubmitterTested,
        ClearerTested, LastIsSettled
  <2>5. CASE ~Record(t)
    <3>1. /\ lastBatteryInfo' = lastBatteryInfo
          /\ pc[t] \notin {"submit", "clear", "record"}
      BY <2>5
      DEF Continue, ConvertUpdate, ReturnIfSame, HandleIfDifferent,
          InitBatteryInfo, MockUnplugged, MockCapacity, MockUeventOrReset,
          Goto
    <3>2. Settled(lastBatteryInfo)
      BY <2>2, <2>3, <3>1 DEF TaskInv, LastIsSettled
    <3>3. QED
      BY <2>2, <2>3, <3>1, <3>2
      DEF TaskInv, taskVars, SubmitterTested, ClearerTested,
          RecorderSettled, LastIsSettled, Settled
  <2>6. QED
    BY <2>4, <2>5
<1>3. QED
  BY <1>1, <1>2 DEF TaskInv

(***************************************************************************)
(* The three steps of HandleCapacity.                                      *)
(***************************************************************************)
LEMMA TaskTestSubmit ==
  ASSUME TypeOK, TaskInv, NEW t \in Thread, TestSubmit(t)
  PROVE  TaskInv'
<1>1. HandleIsLive'
  BY DEF TaskInv, HandleIsLive, Armed, taskVars, TestSubmit
<1>2. ASSUME ~overlap'
      PROVE  /\ OneThreadInHandler'
             /\ (waiting \subseteq {handle})'
             /\ SubmitterTested'
             /\ ClearerTested'
             /\ RecorderSettled'
             /\ LastIsSettled'
  <2>1. ~overlap /\ Busy(t)
    BY <1>2 DEF TestSubmit, Busy
  <2>2. PICK label \in {"submit", "clear"} : pc' = [pc EXCEPT ![t] = label]
    BY DEF TestSubmit
  <2>3. /\ OneThreadInHandler'
        /\ pc'[t] = label
        /\ \A u \in Thread : u # t => pc'[u] = "idle"
    BY <2>1, <2>2, MoveAlone DEF TypeOK, TaskInv, Label
  <2>4. local'[t] = batteryInfo
    BY DEF TestSubmit, TypeOK, FlowTypeOK
  <2>5. SubmitterTested' /\ ClearerTested'
    BY <2>1, <2>2, <2>3, <2>4
    DEF TestSubmit, taskVars, SubmitterTested, ClearerTested, Exhausted,
        TypeOK, FlowTypeOK
  <2>6. RecorderSettled' /\ LastIsSettled'
    BY <2>2, <2>3 DEF RecorderSettled, LastIsSettled
  <2>7. QED
    BY <2>1, <2>3, <2>5, <2>6 DEF TaskInv, TestSubmit, taskVars
<1>3. QED
  BY <1>1, <1>2 DEF TaskInv

LEMMA TaskSubmit ==
  ASSUME TypeOK, TaskInv, NEW t \in Thread, SubmitDelayTask(t)
  PROVE  TaskInv'
<1>1. PICK k \in Task \ (waiting \cup running \cup {handle}) :
        /\ handle' = k
        /\ waiting' = waiting \cup {k}
        /\ declined' = declined \ {k}
  BY DEF SubmitDelayTask
<1>2. k # NoTask
  BY TaskAssumption
<1>3. HandleIsLive'
  BY <1>1 DEF HandleIsLive, Armed
<1>4. ASSUME ~overlap'
      PROVE  /\ OneThreadInHandler'
             /\ (waiting \subseteq {handle})'
             /\ SubmitterTested'
             /\ ClearerTested'
             /\ RecorderSettled'
             /\ LastIsSettled'
  <2>1. ~overlap /\ Busy(t)
    BY <1>4 DEF SubmitDelayTask, Goto, Busy
  <2>2. /\ handle = NoTask
        /\ local[t] = batteryInfo
    BY <2>1 DEF TaskInv, SubmitterTested, SubmitDelayTask, Goto
  <2>3. /\ OneThreadInHandler'
        /\ pc'[t] = "clear"
        /\ \A u \in Thread : u # t => pc'[u] = "idle"
    BY <2>1, MoveAlone DEF TypeOK, TaskInv, SubmitDelayTask, Goto, Label
  <2>4. (waiting \subseteq {handle})'
    BY <1>1, <2>1, <2>2, TaskAssumption DEF TaskInv, TypeOK
  <2>5. SubmitterTested' /\ ClearerTested'
    BY <1>1, <1>2, <2>2, <2>3
    DEF SubmitDelayTask, SubmitterTested, ClearerTested
  <2>6. RecorderSettled' /\ LastIsSettled'
    BY <2>3 DEF RecorderSettled, LastIsSettled
  <2>7. QED
    BY <2>3, <2>4, <2>5, <2>6
<1>5. QED
  BY <1>3, <1>4 DEF TaskInv

LEMMA TaskCancel ==
  ASSUME TypeOK, TaskInv, NEW t \in Thread, CancelIfCharging(t)
  PROVE  TaskInv'
<1>1. HandleIsLive'
  BY DEF TaskInv, HandleIsLive, Armed, CancelIfCharging
<1>2. ASSUME ~overlap'
      PROVE  /\ OneThreadInHandler'
             /\ (waiting \subseteq {handle})'
             /\ SubmitterTested'
             /\ ClearerTested'
             /\ RecorderSettled'
             /\ LastIsSettled'
  <2>1. ~overlap /\ Busy(t)
    BY <1>2 DEF CancelIfCharging, Goto, Busy
  <2>2. /\ Exhausted(batteryInfo) => handle # NoTask
        /\ local[t] = batteryInfo
    BY <2>1 DEF TaskInv, ClearerTested, CancelIfCharging, Goto
  <2>3. /\ OneThreadInHandler'
        /\ pc'[t] = "record"
        /\ \A u \in Thread : u # t => pc'[u] = "idle"
    BY <2>1, MoveAlone DEF TypeOK, TaskInv, CancelIfCharging, Goto, Label
  <2>4. (waiting \subseteq {handle})'
    BY <2>1 DEF TaskInv, CancelIfCharging
  <2>5. Settled(batteryInfo)'
    BY <2>2 DEF CancelIfCharging, Settled, IsCharging, Exhausted
  <2>6. QED
    BY <2>3, <2>4, <2>5
    DEF SubmitterTested, ClearerTested, RecorderSettled, LastIsSettled
<1>3. QED
  BY <1>1, <1>2 DEF TaskInv

(***************************************************************************)
(* The queue and the device mode change no handle, and a task that starts, *)
(* asks for the shutdown or declines it remains accounted for.             *)
(***************************************************************************)
LEMMA TaskQueue ==
  ASSUME TypeOK, TaskInv, UNCHANGED <<flowVars, handle>>,
         ChangeDeviceMode \/ \E k \in Task : QueueStep(k)
  PROVE  TaskInv'
<1>1. HandleIsLive'
  <2>1. CASE ChangeDeviceMode
    BY <2>1 DEF TaskInv, HandleIsLive, Armed, ChangeDeviceMode
  <2>2. ASSUME NEW k \in Task, RunTask(k)
        PROVE  HandleIsLive'
    BY <2>2 DEF TaskInv, HandleIsLive, Armed, RunTask
  <2>3. ASSUME NEW k \in Task, ShutDownDevice(k)
        PROVE  HandleIsLive'
    BY <2>3 DEF TaskInv, HandleIsLive, Armed, ShutDownDevice
  <2>4. ASSUME NEW k \in Task, DeclineShutdown(k)
        PROVE  HandleIsLive'
    BY <2>4 DEF TaskInv, HandleIsLive, Armed, DeclineShutdown
  <2>5. QED
    BY <2>1, <2>2, <2>3, <2>4 DEF QueueStep
<1>2. waiting' \subseteq waiting
  BY DEF ChangeDeviceMode, QueueStep, RunTask, ShutDownDevice,
         DeclineShutdown
<1>3. QED
  BY <1>1, <1>2
  DEF TaskInv, flowVars, OneThreadInHandler, Busy, SubmitterTested,
      ClearerTested, RecorderSettled, LastIsSettled, Settled

LEMMA TaskNext == TypeOK /\ TaskInv /\ [Next]_vars => TaskInv'
<1> SUFFICES ASSUME TypeOK, TaskInv, [Next]_vars PROVE TaskInv'
  OBVIOUS
<1>1. CASE UNCHANGED vars
  BY <1>1
  DEF vars, flowVars, taskVars, TaskInv, HandleIsLive, Armed,
      OneThreadInHandler, Busy, SubmitterTested, ClearerTested,
      RecorderSettled, LastIsSettled, Settled
<1>2. CASE DeviceChanges /\ UNCHANGED taskVars
  BY <1>2
  DEF DeviceChanges, taskVars, TaskInv, HandleIsLive, Armed,
      OneThreadInHandler, Busy, SubmitterTested, ClearerTested,
      RecorderSettled, LastIsSettled, Settled
<1>3. CASE FlowStep /\ UNCHANGED taskVars
  BY <1>2, <1>3, TaskEntering, TaskContinue DEF FlowStep, Thread
<1>4. CASE \E t \in Thread : HandleCapacity(t)
  BY <1>4, TaskTestSubmit, TaskSubmit, TaskCancel DEF HandleCapacity
<1>5. CASE ChangeDeviceMode \/ \E k \in Task : QueueStep(k)
  <2>1. UNCHANGED <<flowVars, handle>>
    BY <1>5 DEF ChangeDeviceMode, QueueStep, RunTask, ShutDownDevice,
                DeclineShutdown
  <2>2. QED
    BY <1>5, <2>1, TaskQueue
<1>6. QED
  BY <1>1, <1>3, <1>4, <1>5 DEF Next

(***************************************************************************)
(* The invariant behind the properties below is inductive.                 *)
(***************************************************************************)
THEOREM InductiveInvariant == Spec => []IInv
<1>1. Init => IInv
  BY TypeInit, FlowStarts, TaskStarts DEF IInv, Init
<1>2. IInv /\ [Next]_vars => IInv'
  BY TypeNext, FlowNext, TaskNext DEF IInv, TypeOK
<1>3. QED
  BY <1>1, <1>2, PTL DEF Spec

(***************************************************************************)
(* While no two threads meet in the handler, every shutdown task that      *)
(* waits is the one a charging report would cancel                         *)
(* (battery_service.cpp:510-533).                                          *)
(***************************************************************************)
THEOREM WaitingTaskStaysHandled == Spec => []WaitingTaskIsHandled
<1>1. IInv => WaitingTaskIsHandled
  BY DEF IInv, TaskInv, WaitingTaskIsHandled
<1>2. QED
  BY <1>1, InductiveInvariant, PTL

(***************************************************************************)
(* ... handling a charging report leaves no shutdown waiting               *)
(* (battery_service.cpp:526-532).                                          *)
(***************************************************************************)
THEOREM ChargingAlwaysDisarms == Spec => []ChargingDisarms
<1>1. IInv => ChargingDisarms
  <2> SUFFICES ASSUME IInv, ~overlap, Quiet, IsCharging(lastBatteryInfo)
               PROVE  handle = NoTask /\ waiting = {}
    BY DEF ChargingDisarms
  <2>1. Settled(lastBatteryInfo)
    BY DEF IInv, TaskInv, LastIsSettled, Quiet, Busy
  <2>2. handle = NoTask
    BY <2>1 DEF Settled
  <2>3. waiting \subseteq {NoTask} /\ waiting \subseteq Task
    BY <2>2 DEF IInv, TaskInv, TypeOK
  <2>4. QED
    BY <2>2, <2>3, TaskAssumption
<1>2. QED
  BY <1>1, InductiveInvariant, PTL

(***************************************************************************)
(* ... and handling an empty battery leaves a shutdown arranged, asked for *)
(* or declined (battery_service.cpp:512-524).                              *)
(***************************************************************************)
THEOREM ExhaustedAlwaysArms == Spec => []ExhaustedArms
<1>1. IInv => ExhaustedArms
  <2> SUFFICES ASSUME IInv, ~overlap, Quiet,
                      lastBatteryInfo # ConstructedInfo,
                      Exhausted(lastBatteryInfo)
               PROVE  Armed
    BY DEF ExhaustedArms
  <2>1. Settled(lastBatteryInfo)
    BY DEF IInv, TaskInv, LastIsSettled, Quiet, Busy
  <2>2. QED
    BY <2>1 DEF Settled, IInv, TaskInv, HandleIsLive
<1>2. QED
  BY <1>1, InductiveInvariant, PTL
=============================================================================
