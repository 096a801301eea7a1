--------------------- MODULE LowCapacityHibernateProofs ---------------------
(***************************************************************************)
(* Theorems of LowCapacityHibernate, for every set of threads, of reported *)
(* capacities, states and presences, and every threshold.                  *)
(***************************************************************************)
EXTENDS LowCapacityHibernate, TLAPS

-----------------------------------------------------------------------------
(***************************************************************************)
(* The information flow: the steps of BatteryInfoFlow keep its types and   *)
(* its invariant FlowInv, whatever is done with the capacity.              *)
(***************************************************************************)


(***************************************************************************)
(* What the HDI reports, the fallback without an HDI and the conversion of *)
(* an Info are Infos.                                                      *)
(***************************************************************************)
LEMMA ReportedIsInfo ==
  /\ Reported \subseteq Info
  /\ ConstructedInfo \in Info
  /\ NullInterfaceInfo \in Info
<1>1. Reported \subseteq Info
  BY InfoAssumption DEF Reported, Info, BATTERY_FULL_CAPACITY
<1>2. ConstructedInfo \in Info
  BY DEF ConstructedInfo, Info, INVALID_BATT_INT_VALUE
<1>3. NullInterfaceInfo \in Info
  BY DEF NullInterfaceInfo, Info, BATTERY_FULL_CAPACITY
<1>4. QED
  BY <1>1, <1>2, <1>3

LEMMA ConvertingKeepsInfo ==
  ASSUME batteryInfo \in Info, NEW event \in Info
  PROVE  ConvertingEvent(event) \in Info
  BY DEF ConvertingEvent, Info

(***************************************************************************)
(* Without a mock, converting a report of the battery yields that report.  *)
(***************************************************************************)
LEMMA ConvertingWithoutMock ==
  ASSUME mock = {}, NEW event \in Info
  PROVE  ConvertingEvent(event) = event
  BY DEF ConvertingEvent, Info

-----------------------------------------------------------------------------
(***************************************************************************)
(* The types of the information flow.                                      *)
(***************************************************************************)
LEMMA FlowTypeInit == FlowInit => FlowTypeOK
  BY ReportedIsInfo DEF FlowInit, FlowTypeOK, Label

(***************************************************************************)
(* A mock command enters with its mock set and an event of some battery's. *)
(***************************************************************************)
MockCommand(t) ==
  StartMockUnplugged(t) \/ StartMockCapacity(t) \/ StartMockUevent(t)

LEMMA MockEnters ==
  ASSUME NEW t \in Thread, MockCommand(t)
  PROVE  /\ \E label \in {"mockUnplugged", "mockCapacity", "mockOther"} :
              \E event \in Reported : Enter(t, label, event)
         /\ \E name \in Mocks : mock' = mock \cup {name}
         /\ UNCHANGED <<device, stale, batteryInfo, lastBatteryInfo>>
  BY DEF MockCommand, StartMockUnplugged, StartMockCapacity, StartMockUevent,
     StartMock, Mocks

LEMMA FlowTypeEntering ==
  ASSUME FlowTypeOK, NEW t \in Thread,
         \/ HdiReport(t) \/ StartReport(t) \/ DumpCommand(t)
  PROVE  FlowTypeOK'
<1> USE ReportedIsInfo DEF FlowTypeOK
<1>1. CASE DropUpdate(t)
  BY <1>1 DEF DropUpdate
<1>2. CASE ReceiveUpdate(t)
  BY <1>2 DEF ReceiveUpdate, Enter, Label
<1>3. CASE StartInit(t)
  BY <1>3 DEF StartInit, Enter, Label
<1>4. CASE StartInitWithoutHdi(t)
  BY <1>4 DEF StartInitWithoutHdi, Enter, Label
<1>5. CASE MockCommand(t)
  BY <1>5, MockEnters DEF Enter, Label, Mocks
<1>6. CASE StartReset(t)
  BY <1>6 DEF StartReset, Enter, Label
<1>. QED
  BY <1>1, <1>2, <1>3, <1>4, <1>5, <1>6
  DEF HdiReport, StartReport, DumpCommand, MockCommand

LEMMA FlowTypeContinue ==
  ASSUME FlowTypeOK, NEW t \in Thread, Continue(t)
  PROVE  FlowTypeOK'
<1> USE DEF FlowTypeOK
<1>a. ConvertingEvent(local[t]) \in Info
  BY ConvertingKeepsInfo
<1>b. /\ [ConvertingEvent(local[t]) EXCEPT !.chargeState = "NONE"] \in Info
      /\ [ConvertingEvent(local[t]) EXCEPT !.capacity = local[t].capacity]
           \in Info
  BY <1>a DEF Info
<1>1. CASE ConvertUpdate(t)
  BY <1>1, <1>a DEF ConvertUpdate, Goto, Label
<1>2. CASE ReturnIfSame(t)
  BY <1>2, ReportedIsInfo DEF ReturnIfSame, Leave, Label
<1>3. CASE HandleIfDifferent(t)
  BY <1>3 DEF HandleIfDifferent, Goto, Label
<1>4. CASE InitBatteryInfo(t)
  BY <1>4, <1>a DEF InitBatteryInfo, Goto, Label
<1>5. CASE MockUnplugged(t)
  BY <1>5, <1>b DEF MockUnplugged, Goto, Label
<1>6. CASE MockCapacity(t)
  BY <1>6, <1>b DEF MockCapacity, Goto, Label
<1>7. CASE MockUeventOrReset(t)
  BY <1>7, <1>a DEF MockUeventOrReset, Goto, Label
<1>8. CASE Record(t)
  BY <1>8, ReportedIsInfo DEF Record, Leave, Label
<1>9. QED
  BY <1>1, <1>2, <1>3, <1>4, <1>5, <1>6, <1>7, <1>8 DEF Continue

LEMMA FlowTypeHandle ==
  ASSUME FlowTypeOK, NEW t \in Thread, NEW label \in Label,
         pc' = [pc EXCEPT ![t] = label],
         local' = local \/ local' = [local EXCEPT ![t] = batteryInfo],
         UNCHANGED <<device, stale, mock, batteryInfo, lastBatteryInfo, overlap>>
  PROVE  FlowTypeOK'
  BY DEF FlowTypeOK

-----------------------------------------------------------------------------
(***************************************************************************)
(* FlowInv: the one thread in the handler carries the battery's state.     *)
(***************************************************************************)
LEMMA FlowStarts == FlowInit => FlowInv
  BY DEF FlowInit, FlowInv, OneThreadInHandler, MockCommandsKeepMocks, Busy

(***************************************************************************)
(* Entering the handler when nobody is in it is the only way in that       *)
(* leaves the history variable overlap unset.                              *)
(***************************************************************************)
LEMMA EnterAlone ==
  ASSUME FlowTypeOK, NEW t \in Thread, NEW label \in Label \ {"idle"},
         NEW event \in Info, Enter(t, label, event), ~overlap'
  PROVE  /\ ~overlap
         /\ Quiet
         /\ pc'[t] = label
         /\ local'[t] = event
         /\ \A u \in Thread : u # t => pc'[u] = "idle"
         /\ OneThreadInHandler'
  BY DEF Enter, Quiet, Busy, OneThreadInHandler, FlowTypeOK

(***************************************************************************)
(* Going on or leaving keeps the thread alone in the handler.              *)
(***************************************************************************)
LEMMA MoveAlone ==
  ASSUME FlowTypeOK, OneThreadInHandler, NEW t \in Thread, Busy(t),
         NEW label \in Label, pc' = [pc EXCEPT ![t] = label]
  PROVE  /\ pc'[t] = label
         /\ \A u \in Thread : u # t => pc[u] = "idle" /\ pc'[u] = "idle"
         /\ OneThreadInHandler'
  BY DEF Busy, OneThreadInHandler, FlowTypeOK

(***************************************************************************)
(* Entering the handler keeps FlowInv, when a mock command sets its mock   *)
(* and any other thread, once the HDI owes nothing, brings the state of    *)
(* the battery.                                                            *)
(***************************************************************************)
LEMMA EnterKeepsFlow ==
  ASSUME FlowTypeOK, NEW t \in Thread, NEW event \in Info,
         NEW label \in {"convert", "init", "mockUnplugged", "mockCapacity",
                        "mockOther"},
         Enter(t, label, event),
         label \in {"mockUnplugged", "mockCapacity"} => mock' # {},
         label \in {"convert", "init", "mockOther"} /\ mock' = {} /\ ~stale'
           => event = device'
  PROVE  FlowInv'
<1> SUFFICES ASSUME ~overlap' PROVE FlowInv'
  BY DEF FlowInv
<1>1. label \in Label \ {"idle"}
  BY DEF Label
<1>2. /\ pc'[t] = label
      /\ local'[t] = event
      /\ \A u \in Thread : u # t => pc'[u] = "idle"
      /\ OneThreadInHandler'
  BY <1>1, EnterAlone
<1>3. MockCommandsKeepMocks'
  BY <1>2 DEF MockCommandsKeepMocks
<1>4. mock' = {} /\ ~stale' => EventIsCurrent'
  BY <1>2 DEF EventIsCurrent
<1>5. ConvertedIsCurrent'
  BY <1>2 DEF ConvertedIsCurrent
<1>6. ~Quiet'
  BY <1>2 DEF Quiet, Busy
<1>7. QED
  BY <1>2, <1>3, <1>4, <1>5, <1>6 DEF FlowInv

LEMMA FlowEntering ==
  ASSUME FlowTypeOK, FlowInv, NEW t \in Thread,
         \/ HdiReport(t) \/ StartReport(t) \/ DumpCommand(t)
  PROVE  FlowInv'
<1>a. device \in Info /\ device \in Reported
  BY ReportedIsInfo DEF FlowTypeOK
<1>1. CASE DropUpdate(t)
  BY <1>1 DEF DropUpdate, FlowInv, OneThreadInHandler,
              MockCommandsKeepMocks, Busy
<1>2. CASE ReceiveUpdate(t)
  BY <1>2, <1>a, EnterKeepsFlow DEF ReceiveUpdate
<1>3. CASE StartInit(t)
  BY <1>3, <1>a, EnterKeepsFlow DEF StartInit
<1>4. CASE StartInitWithoutHdi(t)
  BY <1>4, ReportedIsInfo, EnterKeepsFlow DEF StartInitWithoutHdi
<1>5. CASE MockCommand(t)
  <2>1. mock' # {}
    BY <1>5, MockEnters
  <2>. QED
    BY <1>5, <2>1, MockEnters, ReportedIsInfo, EnterKeepsFlow
<1>6. CASE StartReset(t)
  <2>1. PICK event \in Reported :
          Enter(t, "mockOther", event) /\ stale' = (event # device)
    BY <1>6 DEF StartReset
  <2>. QED
    BY <1>6, <2>1, ReportedIsInfo, EnterKeepsFlow DEF StartReset
<1>. QED
  BY <1>1, <1>2, <1>3, <1>4, <1>5, <1>6
  DEF HdiReport, StartReport, DumpCommand, MockCommand

LEMMA FlowContinue ==
  ASSUME FlowTypeOK, FlowInv, NEW t \in Thread, Continue(t)
  PROVE  FlowInv'
<1> SUFFICES ASSUME ~overlap
             PROVE  /\ OneThreadInHandler'
                    /\ MockCommandsKeepMocks'
                    /\ mock' = {} /\ ~stale' =>
                         /\ EventIsCurrent'
                         /\ ConvertedIsCurrent'
                         /\ Quiet' => lastBatteryInfo' = device'
  BY DEF FlowInv, Continue, ConvertUpdate, ReturnIfSame, HandleIfDifferent,
         InitBatteryInfo, MockUnplugged, MockCapacity, MockUeventOrReset,
         Record
<1> USE DEF FlowInv, MockCommandsKeepMocks, EventIsCurrent,
            ConvertedIsCurrent, Quiet, Busy
<1>a. local[t] \in Info
  BY DEF FlowTypeOK
<1>b. mock = {} => ConvertingEvent(local[t]) = local[t]
  BY <1>a, ConvertingWithoutMock
<1>1. CASE ConvertUpdate(t)
  BY <1>1, <1>b, MoveAlone DEF ConvertUpdate, Goto, Label
<1>2. CASE ReturnIfSame(t)
  BY <1>2, MoveAlone DEF ReturnIfSame, Leave, Label
<1>3. CASE HandleIfDifferent(t)
  BY <1>3, MoveAlone DEF HandleIfDifferent, Goto, Label
<1>4. CASE InitBatteryInfo(t)
  BY <1>4, <1>b, MoveAlone DEF InitBatteryInfo, Goto, Label
<1>5. CASE MockUnplugged(t)
  BY <1>5, MoveAlone DEF MockUnplugged, Goto, Label
<1>6. CASE MockCapacity(t)
  BY <1>6, MoveAlone DEF MockCapacity, Goto, Label
<1>7. CASE MockUeventOrReset(t)
  BY <1>7, <1>b, MoveAlone DEF MockUeventOrReset, Goto, Label
<1>8. CASE Record(t)
  BY <1>8, MoveAlone DEF Record, Leave, Label
<1>9. QED
  BY <1>1, <1>2, <1>3, <1>4, <1>5, <1>6, <1>7, <1>8 DEF Continue

LEMMA FlowHandle ==
  ASSUME FlowTypeOK, FlowInv, NEW t \in Thread,
         NEW label \in {"submit", "arm", "clear", "cancel", "unlock", "record"},
         pc[t] \in {"handle", "submit", "arm", "clear", "cancel", "unlock"},
         pc' = [pc EXCEPT ![t] = label],
         UNCHANGED <<device, stale, mock, batteryInfo, lastBatteryInfo, overlap>>
  PROVE  FlowInv'
<1>1. label \in Label
  BY DEF Label
<1>2. pc \in [Thread -> Label] /\ Busy(t) /\ pc'[t] = label
  BY DEF FlowTypeOK, Busy
<1>3. CASE ~overlap
  <2>1. /\ OneThreadInHandler'
        /\ \A x \in Thread \ {t} : pc'[x] = "idle"
    BY <1>1, <1>2, <1>3, MoveAlone DEF FlowInv
  <2>2. MockCommandsKeepMocks' /\ EventIsCurrent'
    BY <1>2, <2>1 DEF MockCommandsKeepMocks, EventIsCurrent
  <2>3. ASSUME mock = {}, ~stale
        PROVE  ConvertedIsCurrent'
    <3>1. batteryInfo = device
      BY <1>3, <2>3 DEF FlowInv, ConvertedIsCurrent
    <3>. QED
      BY <3>1 DEF ConvertedIsCurrent
  <2>4. ~Quiet'
    BY <1>2 DEF Quiet, Busy
  <2>. QED
    BY <1>3, <2>1, <2>2, <2>3, <2>4 DEF FlowInv
<1>. QED
  BY <1>3 DEF FlowInv

(***************************************************************************)
(* What happens to the battery, and what happens outside of the handler.   *)
(***************************************************************************)
LEMMA FlowDeviceChanges ==
  ASSUME FlowTypeOK, FlowInv, DeviceChanges
  PROVE  FlowTypeOK' /\ FlowInv'
  BY DEF DeviceChanges, FlowTypeOK, FlowInv, OneThreadInHandler,
         MockCommandsKeepMocks, Busy

LEMMA FlowUnchanged ==
  ASSUME FlowTypeOK, FlowInv, UNCHANGED flowVars
  PROVE  FlowTypeOK' /\ FlowInv'
  BY DEF flowVars, FlowTypeOK, FlowInv, OneThreadInHandler, MockCommandsKeepMocks,
         EventIsCurrent, ConvertedIsCurrent, Quiet, Busy

-----------------------------------------------------------------------------
(***************************************************************************)
(* The handler's steps in the flow.                                        *)
(***************************************************************************)

(***************************************************************************)
(* The steps that are not the handler's leave the information flow alone.  *)
(***************************************************************************)
Apart ==
  \/ TimerStep \/ ReceiveHibernateEvent \/ UnlockAfterEvent
  \/ GuardTimesOut \/ ChangeDeviceMode
  \/ \E t \in Thread : DestroyTimer(t)

LEMMA ApartFromFlow == Apart => UNCHANGED flowVars
  BY DEF Apart, TimerStep, TimerExpires, DoHibernateOrShutdown, UnlockAfterTask,
     ReceiveHibernateEvent, UnlockAfterEvent, GuardTimesOut, ChangeDeviceMode,
     DestroyTimer

(***************************************************************************)
(* A step of the capacity handling stays in the handler and keeps what the *)
(* thread was told.                                                        *)
(***************************************************************************)
LEMMA HandleStays ==
  ASSUME NEW t \in Thread, HandleCapacityExt(t)
  PROVE  /\ UNCHANGED <<device, stale, mock, batteryInfo, lastBatteryInfo, overlap>>
         /\ local' = local \/ local' = [local EXCEPT ![t] = batteryInfo]
         /\ pc[t] \in {"handle", "submit", "arm", "clear", "cancel", "unlock"}
         /\ \E label \in {"submit", "arm", "clear", "cancel", "unlock", "record"} :
              pc' = [pc EXCEPT ![t] = label]
  BY DEF HandleCapacityExt, TestCreate, CreateAndLockGuard, SetTimer, TestClear,
     CancelTimer, UnlockAfterClear, Goto

LEMMA HandleIsInFlow ==
  ASSUME FlowTypeOK, FlowInv, NEW t \in Thread, HandleCapacityExt(t)
  PROVE  FlowTypeOK' /\ FlowInv'
<1>1. PICK label \in {"submit", "arm", "clear", "cancel", "unlock", "record"} :
        pc' = [pc EXCEPT ![t] = label]
  BY HandleStays
<1>2. label \in Label
  BY DEF Label
<1>. QED
  BY <1>1, <1>2, HandleStays, FlowTypeHandle, FlowHandle

LEMMA FlowNext == FlowTypeOK /\ FlowInv /\ [Next]_vars => FlowTypeOK' /\ FlowInv'
<1> SUFFICES ASSUME FlowTypeOK, FlowInv, [Next]_vars PROVE FlowTypeOK' /\ FlowInv'
  OBVIOUS
<1>1. CASE DeviceChanges
  BY <1>1, FlowDeviceChanges
<1>2. CASE EnterHandler \/ \E t \in DumpThreads : EnterReset(t)
  BY <1>2, FlowTypeEntering, FlowEntering
  DEF EnterHandler, EnterReset, DumpCommand, Thread
<1>3. ASSUME NEW t \in Thread, ContinueHandler(t) PROVE FlowTypeOK' /\ FlowInv'
  BY <1>3, FlowTypeContinue, FlowContinue DEF ContinueHandler
<1>4. ASSUME NEW t \in Thread, HandleCapacityExt(t) PROVE FlowTypeOK' /\ FlowInv'
  BY <1>4, HandleIsInFlow
<1>5. CASE UNCHANGED flowVars
  BY <1>5, FlowUnchanged
<1>. QED
  BY <1>1, <1>2, <1>3, <1>4, <1>5, ApartFromFlow DEF Next, HandlerStep, Apart, vars

-----------------------------------------------------------------------------
(***************************************************************************)
(* The types of the timer, the guard and what they serve.                  *)
(***************************************************************************)
LEMMA TypeInit == Init => TypeOK
  BY FlowTypeInit, SwitchesAssumption DEF Init, TypeOK

LEMMA TypeNext == TypeOK /\ FlowInv /\ [Next]_vars => TypeOK'
<1> SUFFICES ASSUME TypeOK, FlowInv, [Next]_vars PROVE TypeOK'
  OBVIOUS
<1>1. FlowTypeOK'
  BY FlowNext DEF TypeOK
<1>2. CASE UNCHANGED extVars
  BY <1>1, <1>2 DEF TypeOK, extVars
<1>3. CASE EnterHandler \/ \E t \in DumpThreads : EnterReset(t)
  <2>1. met' \in BOOLEAN
    BY <1>3 DEF EnterHandler, EnterReset, TypeOK, TaskActive, SubscriberActive
  <2>. QED
    BY <1>1, <1>3, <2>1 DEF TypeOK, EnterHandler, EnterReset
<1>5. ASSUME NEW t \in Thread, HandleCapacityExt(t) PROVE TypeOK'
  BY <1>1, <1>5 DEF TypeOK, HandleCapacityExt, TestCreate, CreateAndLockGuard, SetTimer,
     TestClear, CancelTimer, UnlockAfterClear, Unlocked, extVars
<1>6. CASE Apart
  <2>1. met' \in BOOLEAN
    BY <1>6 DEF Apart, TimerStep, TimerExpires, DoHibernateOrShutdown, UnlockAfterTask,
       ReceiveHibernateEvent, UnlockAfterEvent, GuardTimesOut, ChangeDeviceMode, DestroyTimer, TypeOK
  <2>. QED
    BY <1>1, <1>6, <2>1, SwitchesAssumption DEF Apart, TimerStep, TimerExpires,
       DoHibernateOrShutdown, UnlockAfterTask, ReceiveHibernateEvent, UnlockAfterEvent,
       GuardTimesOut, ChangeDeviceMode, DestroyTimer, TypeOK, Unlocked
<1>. QED
  BY <1>2, <1>3, <1>5, <1>6
  DEF Next, HandlerStep, ContinueHandler, Apart, vars

-----------------------------------------------------------------------------
(***************************************************************************)
(* While no two threads met, who enters the handler finds it empty, and    *)
(* who goes on in it is alone.                                             *)
(***************************************************************************)
EntryLabel == {"convert", "init", "mockUnplugged", "mockCapacity", "mockOther"}

LEMMA EnteringAlone ==
  ASSUME FlowTypeOK, NEW t \in Thread, ~overlap',
         \/ HdiReport(t) \/ StartReport(t) \/ DumpCommand(t)
  PROVE  /\ ~overlap
         /\ UNCHANGED <<batteryInfo, lastBatteryInfo>>
         /\ \/ UNCHANGED <<pc, local>>
            \/ /\ Quiet
               /\ \A u \in Thread : pc'[u] \in EntryLabel \cup {"idle"}
<1> DEFINE In(label, event) ==
      /\ Enter(t, label, event)
      /\ UNCHANGED <<batteryInfo, lastBatteryInfo>>
<1>1. ASSUME NEW label \in EntryLabel, NEW event, In(label, event)
      PROVE  /\ ~overlap /\ Quiet
             /\ UNCHANGED <<batteryInfo, lastBatteryInfo>>
             /\ \A u \in Thread : pc'[u] \in EntryLabel \cup {"idle"}
  BY <1>1 DEF Enter, Quiet, Busy, FlowTypeOK
<1>2. \/ DropUpdate(t)
      \/ \E label \in EntryLabel : \E event : In(label, event)
  BY MockEnters DEF HdiReport, StartReport, DumpCommand, ReceiveUpdate, StartInit,
     StartInitWithoutHdi, MockCommand, StartReset, EntryLabel
<1>3. CASE DropUpdate(t)
  BY <1>3 DEF DropUpdate
<1>. QED
  BY <1>1, <1>2, <1>3

LEMMA ContinueAlone ==
  ASSUME FlowTypeOK, FlowInv, NEW t \in Thread, ~overlap', Continue(t)
  PROVE  /\ ~overlap
         /\ \A u \in Thread : u # t => pc[u] = "idle" /\ pc'[u] = "idle"
         /\ \/ /\ pc[t] \in EntryLabel \cup {"compare"}
               /\ pc'[t] \in {"idle", "compare", "handle"}
               /\ lastBatteryInfo' = lastBatteryInfo
            \/ /\ pc[t] = "record"
               /\ pc'[t] = "idle"
               /\ lastBatteryInfo' = batteryInfo
<1>1. ~overlap /\ OneThreadInHandler
  BY DEF FlowInv, Continue, ConvertUpdate, ReturnIfSame, HandleIfDifferent,
     InitBatteryInfo, MockUnplugged, MockCapacity, MockUeventOrReset, Record
<1>. QED
  BY <1>1 DEF Continue, ConvertUpdate, ReturnIfSame, HandleIfDifferent,
     InitBatteryInfo, MockUnplugged, MockCapacity, MockUeventOrReset, Record,
     Goto, Leave, EntryLabel, FlowTypeOK, OneThreadInHandler, Busy

LEMMA HandleAlone ==
  ASSUME FlowTypeOK, FlowInv, NEW t \in Thread, ~overlap', HandleCapacityExt(t)
  PROVE  /\ ~overlap
         /\ \A u \in Thread : u # t => pc[u] = "idle" /\ pc'[u] = "idle"
         /\ UNCHANGED <<batteryInfo, lastBatteryInfo>>
  BY HandleStays DEF FlowInv, OneThreadInHandler, Busy, FlowTypeOK

-----------------------------------------------------------------------------
(***************************************************************************)
(* TimerInv: why the timer may be armed.                                   *)
(***************************************************************************)
LEMMA TimerInit == Init => TimerInv
  BY DEF Init, FlowInit, TimerInv, HandlerTested, TimerIsKnown

LEMMA TimerHandle ==
  ASSUME TypeOK, FlowInv, TimerInv, NEW t \in Thread, HandleCapacityExt(t)
  PROVE  TimerInv'
<1>1. (timer => timerExists)'
  BY DEF TimerInv, TypeOK, HandleCapacityExt, TestCreate, CreateAndLockGuard, SetTimer,
     TestClear, CancelTimer, UnlockAfterClear, extVars
<1> SUFFICES ASSUME ~overlap' PROVE HandlerTested' /\ TimerIsKnown'
  BY <1>1 DEF TimerInv
<1>2. /\ ~overlap
      /\ \A u \in Thread : u # t => pc[u] = "idle" /\ pc'[u] = "idle"
      /\ UNCHANGED <<batteryInfo, lastBatteryInfo>>
      /\ HandlerTested /\ TimerIsKnown
      /\ timer => timerExists
  BY HandleAlone DEF TypeOK, TimerInv
<1>3. /\ pc \in [Thread -> Label] /\ local \in [Thread -> Info]
      /\ batteryInfo \in Info /\ lastBatteryInfo \in Info
  BY DEF TypeOK, FlowTypeOK
<1>4. CASE TestCreate(t)
  <2>1. pc'[t] = "submit" => batteryInfo.capacity <= ShutdownThreshold /\ ~timer
    BY <1>2, <1>3, <1>4
    DEF TestCreate, CheckIfCreateHibernateTask, IsDelayHibernateTimerValid
  <2>2. timer => Low(lastBatteryInfo)
    BY <1>2, <1>4 DEF TestCreate, TimerIsKnown
  <2>3. /\ local'[t] = batteryInfo /\ timer' = timer
        /\ pc'[t] \in {"submit", "clear"}
    BY <1>3, <1>4 DEF TestCreate, extVars
  <2>. QED
    BY <1>2, <2>1, <2>2, <2>3 DEF HandlerTested, TimerIsKnown, Low
<1>5. CASE CreateAndLockGuard(t)
  <2>1. /\ pc[t] = "submit" /\ pc'[t] = "arm"
        /\ UNCHANGED <<local, timer>>
    BY <1>3, <1>5 DEF CreateAndLockGuard, Goto
  <2>. QED
    BY <1>2, <2>1 DEF HandlerTested, TimerIsKnown
<1>6. CASE SetTimer(t)
  <2>1. pc[t] = "arm" /\ pc'[t] = "clear" /\ UNCHANGED local
    BY <1>3, <1>6 DEF SetTimer, Goto
  <2>. QED
    BY <1>2, <2>1 DEF HandlerTested, TimerIsKnown
<1>7. CASE TestClear(t)
  <2>1. /\ pc[t] = "clear" /\ UNCHANGED <<local, timer>>
        /\ \/ pc'[t] = "cancel"
           \/ pc'[t] = "record" /\ ~CheckIfClearHibernateTask(local[t])
    BY <1>3, <1>7 DEF TestClear, Goto, extVars
  <2>2. local[t] = batteryInfo
    BY <1>2, <2>1 DEF HandlerTested
  <2>3. ASSUME timer, ~CheckIfClearHibernateTask(batteryInfo)
        PROVE  Low(batteryInfo)
    <3>1. /\ ~(batteryInfo.capacity > lastBatteryInfo.capacity)
          /\ ~(batteryInfo.present /\ IsCharging(batteryInfo))
      BY <1>2, <2>3 DEF CheckIfClearHibernateTask, IsDelayHibernateTimerValid
    <3>2. \/ batteryInfo.capacity <= ShutdownThreshold
          \/ lastBatteryInfo.capacity <= ShutdownThreshold
      BY <1>2, <2>1, <2>3 DEF HandlerTested
    <3>3. batteryInfo.capacity \in Int /\ lastBatteryInfo.capacity \in Int
      BY <1>3 DEF Info, INVALID_BATT_INT_VALUE, BATTERY_FULL_CAPACITY
    <3>. QED
      BY <3>1, <3>2, <3>3, ShutdownThresholdAssumption DEF Low
  <2>4. pc'[t] = "record" /\ timer' => Low(batteryInfo)
    BY <2>1, <2>2, <2>3
  <2>. QED
    BY <1>2, <2>1, <2>2, <2>4 DEF HandlerTested, TimerIsKnown, Low
<1>8. CASE UnlockAfterClear(t)
  <2>1. pc[t] = "unlock" /\ pc'[t] = "record" /\ UNCHANGED <<local, timer>>
    BY <1>3, <1>8 DEF UnlockAfterClear, Goto
  <2>. QED
    BY <1>2, <2>1 DEF HandlerTested, TimerIsKnown
<1>9. CASE CancelTimer(t)
  <2>1. pc[t] = "cancel" /\ pc'[t] = "unlock" /\ UNCHANGED local /\ ~timer'
    BY <1>3, <1>9 DEF CancelTimer, Goto
  <2>. QED
    BY <1>2, <2>1 DEF HandlerTested, TimerIsKnown
<1>. QED
  BY <1>4, <1>5, <1>6, <1>7, <1>8, <1>9 DEF HandleCapacityExt

LEMMA TimerContinue ==
  ASSUME TypeOK, FlowInv, TimerInv, NEW t \in Thread,
         ContinueHandler(t)
  PROVE  TimerInv'
<1>1. (timer => timerExists)' /\ (timer' => timer)
  BY DEF ContinueHandler, TimerInv, extVars
<1> SUFFICES ASSUME ~overlap' PROVE HandlerTested' /\ TimerIsKnown'
  BY <1>1 DEF TimerInv
<1>2. /\ ~overlap
      /\ \A u \in Thread : u # t => pc[u] = "idle" /\ pc'[u] = "idle"
      /\ \/ /\ pc[t] \in EntryLabel \cup {"compare"}
            /\ pc'[t] \in {"idle", "compare", "handle"}
            /\ lastBatteryInfo' = lastBatteryInfo
         \/ /\ pc[t] = "record"
            /\ pc'[t] = "idle"
            /\ lastBatteryInfo' = batteryInfo
  BY ContinueAlone DEF ContinueHandler, TypeOK
<1>3. HandlerTested /\ TimerIsKnown
  BY <1>2 DEF TimerInv
<1>4. HandlerTested'
  BY <1>2 DEF HandlerTested
<1>5. timer' => Low(lastBatteryInfo)'
  BY <1>1, <1>2, <1>3 DEF HandlerTested, TimerIsKnown, Low, EntryLabel
<1>. QED
  BY <1>4, <1>5 DEF TimerIsKnown

LEMMA TimerNext == TypeOK /\ FlowInv /\ TimerInv /\ [Next]_vars => TimerInv'
<1> SUFFICES ASSUME TypeOK, FlowInv, TimerInv, [Next]_vars PROVE TimerInv'
  OBVIOUS
<1>1. CASE EnterHandler \/ \E t \in DumpThreads : EnterReset(t)
  <2>1. PICK t \in Thread : HdiReport(t) \/ StartReport(t) \/ DumpCommand(t)
    BY <1>1 DEF EnterHandler, EnterReset, DumpCommand, Thread
  <2>2. UNCHANGED <<timer, timerExists>>
    BY <1>1 DEF EnterHandler, EnterReset
  <2>3. ASSUME ~overlap' PROVE HandlerTested' /\ TimerIsKnown'
    <3>1. /\ ~overlap
          /\ UNCHANGED <<batteryInfo, lastBatteryInfo>>
          /\ \/ UNCHANGED <<pc, local>>
             \/ /\ Quiet
                /\ \A u \in Thread : pc'[u] \in EntryLabel \cup {"idle"}
      BY <2>1, <2>3, EnteringAlone DEF TypeOK
    <3>2. HandlerTested /\ TimerIsKnown
      BY <3>1 DEF TimerInv
    <3>3. CASE UNCHANGED <<pc, local>>
      BY <2>2, <3>1, <3>2, <3>3 DEF HandlerTested, TimerIsKnown, Low
    <3>4. CASE Quiet /\ \A u \in Thread : pc'[u] \in EntryLabel \cup {"idle"}
      <4>1. timer => Low(lastBatteryInfo)
        BY <3>2, <3>4 DEF Quiet, Busy, TimerIsKnown
      <4>. QED
        BY <2>2, <3>1, <3>4, <4>1 DEF HandlerTested, TimerIsKnown, Low, EntryLabel
    <3>. QED
      BY <3>1, <3>3, <3>4
  <2>. QED
    BY <2>2, <2>3 DEF TimerInv
<1>2. ASSUME NEW t \in Thread, ContinueHandler(t) PROVE TimerInv'
  BY <1>2, TimerContinue
<1>3. ASSUME NEW t \in Thread, HandleCapacityExt(t) PROVE TimerInv'
  BY <1>3, TimerHandle
<1>4. CASE \/ Apart
           \/ DeviceChanges /\ UNCHANGED extVars
           \/ UNCHANGED vars
  <2>1. /\ UNCHANGED <<batteryInfo, lastBatteryInfo, pc, local, overlap>>
        /\ UNCHANGED <<timer, timerExists>> \/ ~timer'
    BY <1>4, ApartFromFlow DEF Apart, TimerStep, TimerExpires, DoHibernateOrShutdown,
       UnlockAfterTask, ReceiveHibernateEvent, UnlockAfterEvent, GuardTimesOut,
       ChangeDeviceMode, DestroyTimer, DeviceChanges, flowVars, extVars, vars
  <2>. QED
    BY <2>1 DEF TimerInv, HandlerTested, TimerIsKnown, Low
<1>. QED
  BY <1>1, <1>2, <1>3, <1>4 DEF Next, HandlerStep, Apart

-----------------------------------------------------------------------------
(***************************************************************************)
(* GuardInv: who keeps the guard locked, while one party is at work at a   *)
(* time.                                                                   *)
(***************************************************************************)
LEMMA GuardInit == Init => GuardInv
  BY DEF Init, FlowInit, GuardInv, OnePartyAtWork, GuardIsKnown, GuardIsLocked, Quiet,
     Busy, TaskActive, SubscriberActive

(***************************************************************************)
(* A step of the handler is taken while the task and the subscriber rest.  *)
(***************************************************************************)
LEMMA HandlerAlone ==
  ASSUME OnePartyAtWork, NEW t \in Thread, Busy(t)
  PROVE  ~TaskActive /\ ~SubscriberActive
  BY DEF OnePartyAtWork, Quiet

LEMMA GuardHandle ==
  ASSUME TypeOK, FlowInv, TimerInv, GuardInv, NEW t \in Thread, HandleCapacityExt(t)
  PROVE  GuardInv'
<1>1. UNCHANGED <<met, task, subscriber, timerExists>>
  BY DEF HandleCapacityExt, TestCreate, CreateAndLockGuard, SetTimer, TestClear,
     CancelTimer, UnlockAfterClear, extVars
<1> SUFFICES ASSUME Sequential' PROVE OnePartyAtWork' /\ GuardIsKnown'
  BY DEF GuardInv
<1>2. /\ ~overlap /\ ~overlap' /\ ~met
      /\ \A u \in Thread : u # t => pc[u] = "idle" /\ pc'[u] = "idle"
  BY <1>1, HandleAlone DEF TypeOK, Sequential
<1>3. OnePartyAtWork /\ GuardIsKnown /\ HandlerTested
  BY <1>2 DEF GuardInv, Sequential, TimerInv
<1>4. Busy(t)
  BY HandleStays DEF Busy
<1>5. ~TaskActive /\ ~SubscriberActive /\ ~TaskActive' /\ ~SubscriberActive'
  BY <1>1, <1>3, <1>4, HandlerAlone DEF TaskActive, SubscriberActive
<1>6. OnePartyAtWork'
  BY <1>5 DEF OnePartyAtWork
<1>7. GuardIsKnown'
  <2> USE <1>1, <1>2, <1>3, <1>5 DEF GuardIsKnown, GuardIsLocked
  <2>1. pc \in [Thread -> Label]
    BY DEF TypeOK, FlowTypeOK
  <2>2. CASE TestCreate(t)
    BY <2>1, <2>2 DEF TestCreate, extVars
  <2>3. CASE CreateAndLockGuard(t)
    BY <2>1, <2>3 DEF CreateAndLockGuard, Goto
  <2>4. CASE SetTimer(t)
    BY <2>1, <2>4 DEF SetTimer, Goto
  <2>5. CASE TestClear(t)
    BY <2>1, <2>5 DEF TestClear, Goto, extVars
  <2>6. CASE UnlockAfterClear(t)
    <3>1. pc[t] = "unlock" /\ pc'[t] = "record" /\ ~timer' /\ guard' # "locked"
      BY <2>1, <2>6 DEF UnlockAfterClear, Goto, HandlerTested, Unlocked
    <3>. QED
      BY <3>1
  <2>7. CASE CancelTimer(t)
    BY <2>1, <2>7 DEF CancelTimer, Goto
  <2>. QED
    BY <2>2, <2>3, <2>4, <2>5, <2>6, <2>7 DEF HandleCapacityExt
<1>. QED
  BY <1>6, <1>7

LEMMA GuardContinue ==
  ASSUME TypeOK, FlowInv, GuardInv, NEW t \in Thread,
         ContinueHandler(t)
  PROVE  GuardInv'
<1>1. /\ Continue(t)
      /\ UNCHANGED <<met, task, subscriber, guard, timer, timerExists>>
  BY DEF ContinueHandler, extVars
<1> SUFFICES ASSUME Sequential' PROVE OnePartyAtWork' /\ GuardIsKnown'
  BY DEF GuardInv
<1>2. /\ ~overlap /\ ~met
      /\ \A u \in Thread : u # t => pc[u] = "idle" /\ pc'[u] = "idle"
      /\ pc[t] \notin {"idle", "arm", "cancel", "unlock"}
      /\ pc'[t] \notin {"arm", "cancel", "unlock"}
  BY <1>1, ContinueAlone DEF TypeOK, Sequential, EntryLabel
<1>3. OnePartyAtWork /\ GuardIsKnown
  BY <1>2 DEF GuardInv, Sequential
<1>4. ~TaskActive /\ ~SubscriberActive /\ ~TaskActive' /\ ~SubscriberActive'
  BY <1>1, <1>2, <1>3, HandlerAlone DEF Busy, TaskActive, SubscriberActive
<1>. QED
  BY <1>1, <1>2, <1>3, <1>4 DEF OnePartyAtWork, GuardIsKnown, GuardIsLocked

LEMMA GuardApart ==
  ASSUME TypeOK, GuardInv, Apart
  PROVE  GuardInv'
<1>1. UNCHANGED <<pc, overlap>>
  BY ApartFromFlow DEF flowVars, Apart, TimerStep, TimerExpires, DoHibernateOrShutdown,
     UnlockAfterTask, ReceiveHibernateEvent, UnlockAfterEvent, GuardTimesOut,
     ChangeDeviceMode, DestroyTimer
<1>2. met => met'
  BY DEF Apart, TimerStep, TimerExpires, DoHibernateOrShutdown, UnlockAfterTask,
     ReceiveHibernateEvent, UnlockAfterEvent, GuardTimesOut, ChangeDeviceMode,
     DestroyTimer
<1> SUFFICES ASSUME Sequential' PROVE OnePartyAtWork' /\ GuardIsKnown'
  BY DEF GuardInv
<1>3. OnePartyAtWork /\ GuardIsKnown /\ ~met'
  BY <1>1, <1>2 DEF GuardInv, Sequential
<1>4. (Quiet)' <=> Quiet
  BY <1>1 DEF Quiet, Busy
<1>5. /\ guard \in {"null", "unlocked", "locked"}
      /\ task \in {"idle", "decide", "unlock"}
      /\ subscriber \in {"idle", "unlock"}
  BY DEF TypeOK
<1> USE <1>1, <1>3, <1>4, <1>5
    DEF OnePartyAtWork, GuardIsKnown, GuardIsLocked, TaskActive, SubscriberActive
<1>6. CASE TimerExpires
  BY <1>6 DEF TimerExpires
<1>7. CASE DoHibernateOrShutdown
  BY <1>7 DEF DoHibernateOrShutdown
<1>8. CASE UnlockAfterTask
  BY <1>8 DEF UnlockAfterTask, Unlocked, Quiet, Busy
<1>9. CASE ReceiveHibernateEvent
  BY <1>9 DEF ReceiveHibernateEvent
<1>10. CASE UnlockAfterEvent
  BY <1>10 DEF UnlockAfterEvent, Unlocked, Quiet, Busy
<1>11. CASE GuardTimesOut
  BY <1>11 DEF GuardTimesOut
<1>12. CASE ChangeDeviceMode
  BY <1>12 DEF ChangeDeviceMode
<1>13. CASE \E t \in Thread : DestroyTimer(t)
  BY <1>13 DEF DestroyTimer
<1>. QED
  BY <1>6, <1>7, <1>8, <1>9, <1>10, <1>11, <1>12, <1>13 DEF Apart, TimerStep

LEMMA GuardNext ==
  TypeOK /\ FlowInv /\ TimerInv /\ GuardInv /\ [Next]_vars => GuardInv'
<1> SUFFICES ASSUME TypeOK, FlowInv, TimerInv, GuardInv, [Next]_vars PROVE GuardInv'
  OBVIOUS
<1>1. CASE EnterHandler \/ \E t \in DumpThreads : EnterReset(t)
  <2>1. PICK t \in Thread : HdiReport(t) \/ StartReport(t) \/ DumpCommand(t)
    BY <1>1 DEF EnterHandler, EnterReset, DumpCommand, Thread
  <2>2. /\ UNCHANGED <<timer, timerExists, task, guard, subscriber>>
        /\ met' = (met \/ TaskActive \/ SubscriberActive)
    BY <1>1 DEF EnterHandler, EnterReset
  <2>3. ASSUME Sequential' PROVE OnePartyAtWork' /\ GuardIsKnown'
    <3>1. ~overlap' /\ ~met /\ ~TaskActive /\ ~SubscriberActive
      BY <2>2, <2>3 DEF Sequential
    <3>2. /\ ~overlap
          /\ \/ UNCHANGED pc
             \/ /\ Quiet
                /\ \A u \in Thread : pc'[u] \in EntryLabel \cup {"idle"}
      BY <2>1, <3>1, EnteringAlone DEF TypeOK
    <3>3. OnePartyAtWork /\ GuardIsKnown
      BY <3>1, <3>2 DEF GuardInv, Sequential
    <3>4. ~TaskActive' /\ ~SubscriberActive'
      BY <2>2, <3>1 DEF TaskActive, SubscriberActive
    <3>5. CASE UNCHANGED pc
      BY <2>2, <3>1, <3>3, <3>4, <3>5 DEF OnePartyAtWork, GuardIsKnown, GuardIsLocked
    <3>6. CASE Quiet /\ \A u \in Thread : pc'[u] \in EntryLabel \cup {"idle"}
      <4>1. \A u \in Thread : pc[u] = "idle" /\ pc'[u] \notin {"arm", "cancel", "unlock"}
        BY <3>6 DEF Quiet, Busy, EntryLabel
      <4>. QED
        BY <2>2, <3>1, <3>3, <3>4, <4>1 DEF OnePartyAtWork, GuardIsKnown, GuardIsLocked
    <3>. QED
      BY <3>2, <3>5, <3>6
  <2>. QED
    BY <2>3 DEF GuardInv
<1>2. ASSUME NEW t \in Thread, ContinueHandler(t)
      PROVE  GuardInv'
  BY <1>2, GuardContinue
<1>3. ASSUME NEW t \in Thread, HandleCapacityExt(t) PROVE GuardInv'
  BY <1>3, GuardHandle
<1>4. CASE Apart
  BY <1>4, GuardApart
<1>5. CASE (DeviceChanges /\ UNCHANGED extVars) \/ UNCHANGED vars
  <2>1. UNCHANGED <<pc, overlap, timerExists, timer, guard, task, subscriber, met>>
    BY <1>5 DEF DeviceChanges, flowVars, extVars, vars
  <2>. QED
    BY <2>1 DEF GuardInv, Sequential, OnePartyAtWork, GuardIsKnown, GuardIsLocked,
       TaskActive, SubscriberActive, Quiet, Busy
<1>. QED
  BY <1>1, <1>2, <1>3, <1>4, <1>5 DEF Next, HandlerStep, Apart

-----------------------------------------------------------------------------
(***************************************************************************)
(* What GuardInv says of an armed timer, and of nobody at work.            *)
(***************************************************************************)
LEMMA GuardInvCovers == TypeOK /\ TimerInv /\ GuardInv => GuardCoversTimer /\ GuardReleased
<1>1. TypeOK /\ GuardInv => GuardCoversTimer
  BY DEF TypeOK, GuardInv, GuardCoversTimer, GuardProtectsTimer, GuardIsKnown, GuardIsLocked
<1>2. GuardInv => GuardReleased
  BY DEF GuardInv, GuardReleased, GuardIsKnown, Quiet, Busy
<1>. QED
  BY <1>1, <1>2

(***************************************************************************)
(* The inductive invariant, which contains that the guard covers the armed *)
(* timer and is released, as long as the handler, the timer's task and the *)
(* hibernation events happen one after the other.                          *)
(***************************************************************************)
THEOREM Invariance == Spec => []IInv
<1>1. Init => IInv
  BY TypeInit, FlowStarts, TimerInit, GuardInit, GuardInvCovers DEF Init, IInv
<1>2. IInv /\ [Next]_vars => IInv'
  <2> SUFFICES ASSUME IInv, [Next]_vars PROVE IInv'
    OBVIOUS
  <2>1. TypeOK' /\ FlowInv' /\ TimerInv' /\ GuardInv'
    BY TypeNext, FlowNext, TimerNext, GuardNext DEF IInv, TypeOK
  <2>2. (GuardCoversTimer /\ GuardReleased)'
    BY <2>1, GuardInvCovers, PTL
  <2>. QED
    BY <2>1, <2>2 DEF IInv
<1>. QED
  BY <1>1, <1>2, PTL DEF Spec

(***************************************************************************)
(* CheckIfClearHibernateTask sees each recovery of the battery, though it  *)
(* compares with the previous report only, and whatever the timer's task   *)
(* and the subscriber do meanwhile: no timer is left armed unless the last *)
(* handled information is of a low, not charging battery.                  *)
(***************************************************************************)
THEOREM TimerIsOfExhaustion == Spec => []TimerOnlyWhenExhausted
<1>1. IInv => TimerOnlyWhenExhausted
  BY DEF IInv, TimerInv, TimerIsKnown, TimerOnlyWhenExhausted, Low, Quiet, Busy
<1>. QED
  BY <1>1, Invariance, PTL
=============================================================================
