------------------------- MODULE HdiLifeCycleProofs -------------------------
(***************************************************************************)
(* Theorems of HdiLifeCycle, for every set of listeners, workers and       *)
(* clients, every bound, both builds and both kinds of lock.               *)
(***************************************************************************)
EXTENDS HdiLifeCycle, SequenceTheorems, TLAPS

-----------------------------------------------------------------------------
(***************************************************************************)
(* Types.                                                                  *)
(***************************************************************************)
LEMMA GotoType ==
  ASSUME TypeOK, NEW t \in Thread, NEW from, NEW to \in Label, Goto(t, from, to)
  PROVE  pc' \in [Thread -> Label]
  BY DEF TypeOK, Goto

LEMMA CountedType ==
  ASSUME TypeOK, NEW k \in {"hdi", "manager", "start", "failure"}, Counted(k)
  PROVE  /\ DOMAIN counts' = DOMAIN Count
         /\ \A j \in DOMAIN Count : counts'[j] \in 0 .. Count[j]
         /\ counts'[k] \in 1 .. Count[k]
<1>1. DOMAIN Count = {"hdi", "manager", "start", "failure"}
  BY DEF Count
<1>2. Count[k] \in Nat
  BY BoundAssumption DEF Count
<1>. QED
  BY <1>1, <1>2 DEF TypeOK, Counted

LEMMA TellType ==
  ASSUME TypeOK, NEW listeners, NEW report \in {"START", "STOP"},
         Tell(listeners, report)
  PROVE  reports' \in [Listener -> Seq({"START", "STOP"})]
  BY DEF TypeOK, Tell

LEMMA NotifyType ==
  ASSUME TypeOK, NEW notice \in {"add", "remove"}, Notify(notice)
  PROVE  notices' \in Seq({"add", "remove"})
  BY DEF TypeOK, Notify

Histories == SUBSET {"raced", "unseen", "refused", "doubled", "stale", "late"}

LEMMA NoteType ==
  ASSUME TypeOK, NEW what \in {"raced", "unseen", "doubled", "stale", "late"},
         NEW happened, Note(what, happened)
  PROVE  history' \in Histories
  BY DEF TypeOK, Note, Histories

LEMMA TypeInit == Init => TypeOK
<1> SUFFICES ASSUME Init PROVE TypeOK
  OBVIOUS
<1>1. DOMAIN Count = {"hdi", "manager", "start", "failure"}
  BY DEF Count
<1>2. manager \in 0 .. MaxManager /\ hdi \in 0 .. MaxHdi
  BY BoundAssumption DEF Init
<1>3. /\ DOMAIN counts = DOMAIN Count
      /\ \A k \in DOMAIN Count : counts[k] \in 0 .. Count[k]
  BY <1>1, <1>2, BoundAssumption DEF Init, Count
<1>4. reports \in [Listener -> Seq({"START", "STOP"})]
  BY DEF Init
<1>5. pc \in [Thread -> Label]
  BY DEF Init, Label
<1>6. 0 \in 0 .. MaxManager /\ 0 \in 0 .. MaxHdi
  BY BoundAssumption
<1>7. notices \in Seq({"add", "remove"}) /\ tasks \in Nat /\ retries \in Nat
  BY DEF Init
<1>8. history \in Histories /\ known \subseteq Listener /\ readers \subseteq Thread
  BY DEF Init, Histories
<1>. QED
  BY <1>2, <1>3, <1>4, <1>5, <1>6, <1>7, <1>8 DEF Init, TypeOK, Histories

LEMMA TypeEnvironment == TypeOK /\ Environment => TypeOK'
<1> SUFFICES ASSUME TypeOK, Environment PROVE TypeOK'
  OBVIOUS
<1>1. CASE ManagerStarts
  <2>1. counts'["manager"] \in 1 .. MaxManager
    BY <1>1, CountedType DEF ManagerStarts, Count
  <2>2. notices' \in Seq({"add", "remove"})
    BY <1>1, NotifyType DEF ManagerStarts
  <2>. QED
    BY <1>1, <2>1, <2>2, CountedType DEF ManagerStarts, TypeOK, pointers, flags, mutex
<1>2. CASE ManagerDies
  <2>1. notices' \in Seq({"add", "remove"}) /\ history' \in Histories
    BY <1>2, NotifyType, NoteType DEF ManagerDies
  <2>2. 0 \in 0 .. MaxManager /\ 0 \in 0 .. MaxHdi
    BY BoundAssumption
  <2>. QED
    BY <1>2, <2>1, <2>2 DEF ManagerDies, TypeOK, Histories, pointers, flags, mutex
<1>3. CASE HdiStarts
  <2>1. counts'["hdi"] \in 1 .. MaxHdi
    BY <1>3, CountedType DEF HdiStarts, Count
  <2>. QED
    BY <1>3, <2>1, CountedType, TellType DEF HdiStarts, TypeOK, pointers, flags, mutex
<1>4. CASE HdiDies
  <2>1. reports' \in [Listener -> Seq({"START", "STOP"})] /\ history' \in Histories
    BY <1>4, TellType, NoteType DEF HdiDies
  <2>2. 0 \in 0 .. MaxHdi
    BY BoundAssumption
  <2>. QED
    BY <1>4, <2>1, <2>2 DEF HdiDies, TypeOK, Histories, pointers, flags, mutex
<1>. QED
  BY <1>1, <1>2, <1>3, <1>4 DEF Environment

LEMMA TypeRegister ==
  ASSUME TypeOK, NEW t \in Registrar, Register(t)
  PROVE  TypeOK'
<1>0. t \in Thread /\ AfterRegister(t) \in Label /\ "use" \in Label
  BY DEF Thread, AfterRegister, Label
<1>1. CASE GetNoManager(t)
  <2>1. pc' \in [Thread -> Label] /\ history' \in Histories
    BY <1>0, <1>1, GotoType, NoteType DEF GetNoManager
  <2>2. 0 \in 0 .. MaxManager
    BY BoundAssumption
  <2>. QED
    BY <1>1, <2>1, <2>2
    DEF GetNoManager, TypeOK, Histories, outside, flags, mutex
<1>2. CASE GetManager(t)
  <2>1. pc' \in [Thread -> Label] /\ history' \in Histories
    BY <1>0, <1>2, GotoType, NoteType DEF GetManager
  <2>. QED
    BY <1>2, <2>1 DEF GetManager, TypeOK, Histories, outside, inFlight, flags, mutex
<1>3. CASE RegisterListener(t)
  <2>1. pc' \in [Thread -> Label] /\ reports' \in [Listener -> Seq({"START", "STOP"})]
    BY <1>0, <1>3, GotoType, TellType DEF RegisterListener, TypeOK
  <2>. QED
    BY <1>3, <2>1 DEF RegisterListener, TypeOK, pointers, flags, mutex
<1>4. CASE ListenerRefused(t)
  <2>1. pc' \in [Thread -> Label]
    BY <1>0, <1>4, GotoType DEF ListenerRefused
  <2>2. /\ DOMAIN counts' = DOMAIN Count
        /\ \A j \in DOMAIN Count : counts'[j] \in 0 .. Count[j]
    BY <1>4, CountedType DEF ListenerRefused, TypeOK
  <2>. QED
    BY <1>4, <2>1, <2>2 DEF ListenerRefused, TypeOK, pointers, flags, mutex
<1>5. CASE UseNull(t, "use", hdiServiceMgr)
  BY <1>5 DEF UseNull, TypeOK, outside, inFlight, pointers, flags, mutex
<1>. QED
  BY <1>1, <1>2, <1>3, <1>4, <1>5 DEF Register

LEMMA TypeRetry == TypeOK /\ Retry => TypeOK'
<1> SUFFICES ASSUME TypeOK, Retry PROVE TypeOK'
  OBVIOUS
<1>1. pc' \in [Thread -> Label]
  BY GotoType DEF Retry, Thread, Registrar, Label
<1>. QED
  BY <1>1 DEF Retry, TypeOK, outside, pointers, flags, mutex

LEMMA TypeOnStart == TypeOK /\ OnStart => TypeOK'
<1> SUFFICES ASSUME TypeOK, OnStart PROVE TypeOK'
  OBVIOUS
<1>1. pc' \in [Thread -> Label]
  BY GotoType DEF OnStart, Thread, Registrar, Label
<1>2. /\ DOMAIN counts' = DOMAIN Count
      /\ \A j \in DOMAIN Count : counts'[j] \in 0 .. Count[j]
  BY CountedType DEF OnStart
<1>. QED
  BY <1>1, <1>2 DEF OnStart, TypeOK, inFlight, pointers, flags, mutex

LEMMA TypeOnStop == TypeOK /\ OnStop => TypeOK'
<1> SUFFICES ASSUME TypeOK, OnStop PROVE TypeOK'
  OBVIOUS
<1>1. pc' \in [Thread -> Label]
  BY GotoType DEF OnStop, Thread, Registrar, Label
<1>. QED
  BY <1>1 DEF OnStop, TypeOK, outside, inFlight, pointers, mutex

LEMMA TypeNotice == TypeOK /\ Notice => TypeOK'
<1> SUFFICES ASSUME TypeOK, Notice PROVE TypeOK'
  OBVIOUS
<1>0. "samgr" \in Thread /\ {"idle", "get"} \subseteq Label
  BY DEF Thread, Registrar, Label
<1>1. CASE OnAddSystemAbility
  <2>1. pc' \in [Thread -> Label]
    BY <1>0, <1>1, GotoType DEF OnAddSystemAbility
  <2>2. notices' \in Seq({"add", "remove"})
    BY <1>1 DEF OnAddSystemAbility, Take, TypeOK
  <2>. QED
    BY <1>1, <2>1, <2>2
    DEF OnAddSystemAbility, TypeOK, outside, pointers, flags, mutex
<1>2. CASE OnRemoveSystemAbility
  <2>1. pc' \in [Thread -> Label]
    BY <1>0, <1>2, GotoType DEF OnRemoveSystemAbility
  <2>2. notices' \in Seq({"add", "remove"})
    BY <1>2 DEF OnRemoveSystemAbility, Take, TypeOK
  <2>3. history' \in Histories
    BY <1>2, NoteType DEF OnRemoveSystemAbility, TypeOK, Histories
  <2>4. 0 \in 0 .. MaxManager /\ 0 \in 0 .. MaxHdi
    BY BoundAssumption
  <2>5. hdiServiceMgr' \in 0 .. MaxManager /\ iBatteryInterface' \in 0 .. MaxHdi
    BY <1>2, <2>4 DEF OnRemoveSystemAbility, TypeOK
  <2>6. isHdiRemove' \in BOOLEAN
    BY <1>2 DEF OnRemoveSystemAbility, TypeOK
  <2>. QED
    BY <1>2, <2>1, <2>2, <2>3, <2>5, <2>6
    DEF OnRemoveSystemAbility, TypeOK, Histories, outside, mutex
<1>3. CASE ClearHdiRemove
  <2>1. pc' \in [Thread -> Label]
    BY <1>0, <1>3, GotoType DEF ClearHdiRemove
  <2>. QED
    BY <1>3, <2>1 DEF ClearHdiRemove, TypeOK, outside, inFlight, pointers, mutex
<1>. QED
  BY <1>1, <1>2, <1>3 DEF Notice

LEMMA TypeUseNull ==
  ASSUME TypeOK, NEW t, NEW label, NEW pointer, UseNull(t, label, pointer)
  PROVE  TypeOK'
  BY DEF UseNull, TypeOK, outside, inFlight, pointers, flags, mutex

LEMMA TypeReport ==
  ASSUME TypeOK, NEW l \in Listener, Report(l)
  PROVE  TypeOK'
<1>0. l \in Thread /\ {"idle", "unregister"} \subseteq Label
  BY DEF Thread, Label
<1>a. ASSUME NEW report, Receive(l, report)
      PROVE  reports' \in [Listener -> Seq({"START", "STOP"})]
  BY <1>a DEF Receive, TypeOK
<1>1. CASE StartReport(l)
  <2>1. pc' \in [Thread -> Label] /\ reports' \in [Listener -> Seq({"START", "STOP"})]
    BY <1>0, <1>1, <1>a, GotoType DEF StartReport
  <2>. QED
    BY <1>1, <2>1 DEF StartReport, TypeOK, outside, pointers, flags
<1>2. CASE StopReport(l)
  <2>1. reports' \in [Listener -> Seq({"START", "STOP"})] /\ history' \in Histories
    BY <1>2, <1>a, NoteType DEF StopReport
  <2>2. pc' \in [Thread -> Label] /\ writer' \in Thread \cup {None}
    BY <1>0, <1>2, GotoType DEF StopReport
  <2>. QED
    BY <1>2, <2>1, <2>2 DEF StopReport, TypeOK, Histories, outside, pointers, flags
<1>3. CASE UnRegister(l)
  <2>1. pc' \in [Thread -> Label]
    BY <1>0, <1>3, GotoType DEF UnRegister
  <2>2. callback' \in BOOLEAN
    BY <1>3 DEF UnRegister, DropInterface, TypeOK
  <2>3. iBatteryInterface' \in 0 .. MaxHdi
    BY <1>3, BoundAssumption DEF UnRegister, DropInterface
  <2>. QED
    BY <1>3, <2>1, <2>2, <2>3 DEF UnRegister, TypeOK, inFlight, flags
<1>. QED
  BY <1>1, <1>2, <1>3, TypeUseNull DEF Report

LEMMA TypeTestInterface ==
  ASSUME TypeOK, NEW t \in Thread, NEW from, NEW to \in Label,
         NEW otherwise \in Label, TestInterface(t, from, to, otherwise)
  PROVE  TypeOK'
<1>1. pc' \in [Thread -> Label] /\ readers' \subseteq Thread
  BY GotoType DEF TestInterface, TypeOK
<1>. QED
  BY <1>1 DEF TestInterface, TypeOK, outside, inFlight, pointers, flags

LEMMA TypeUseInterface ==
  ASSUME TypeOK, NEW t \in Thread, NEW from, UseInterface(t, from)
  PROVE  TypeOK'
<1>1. pc' \in [Thread -> Label] /\ readers' \subseteq Thread
  BY GotoType DEF UseInterface, TypeOK, Label
<1>. QED
  BY <1>1 DEF UseInterface, TypeOK, outside, inFlight, pointers, flags

LEMMA TypeTask ==
  ASSUME TypeOK, NEW w \in Worker, StartTask(w)
  PROVE  TypeOK'
<1>0. /\ w \in Thread /\ AfterCallback \in Label
      /\ {"idle", "lock", "callback", "test", "info", "setThreshold"} \subseteq Label
  BY DEF Thread, Label, AfterCallback
<1>1. CASE RunTask(w)
  <2>1. pc' \in [Thread -> Label]
    BY <1>0, <1>1, GotoType DEF RunTask
  <2>. QED
    BY <1>1, <2>1 DEF RunTask, TypeOK, outside, pointers, flags, mutex
<1>2. CASE GetInterface(w)
  <2>1. pc' \in [Thread -> Label] /\ writer' \in Thread \cup {None}
    BY <1>0, <1>2, GotoType DEF GetInterface
  <2>2. iBatteryInterface' \in 0 .. MaxHdi
    BY <1>2 DEF GetInterface, TypeOK
  <2>. QED
    BY <1>2, <2>1, <2>2 DEF GetInterface, TypeOK, outside, inFlight, flags
<1>3. CASE RegisterCallback(w)
  <2>1. pc' \in [Thread -> Label]
    BY <1>0, <1>3, GotoType DEF RegisterCallback
  <2>2. callback' \in BOOLEAN /\ history' \in Histories
    BY <1>3 DEF RegisterCallback, TypeOK, Histories
  <2>. QED
    BY <1>3, <2>1, <2>2
    DEF RegisterCallback, TypeOK, Histories, inFlight, pointers, flags
<1>4. CASE TestThreshold(w)
  <2>1. pc' \in [Thread -> Label]
    BY <1>0, <1>4, GotoType DEF TestThreshold
  <2>. QED
    BY <1>4, <2>1 DEF TestThreshold, TypeOK, outside, inFlight, pointers, flags, mutex
<1>5. CASE SetThreshold(w)
  <2>1. pc' \in [Thread -> Label]
    BY <1>0, <1>5, GotoType DEF SetThreshold
  <2>. QED
    BY <1>5, <2>1 DEF SetThreshold, TypeOK, outside, inFlight, pointers, flags, mutex
<1>6. CASE InitBatteryInfo(w)
  BY <1>0, <1>6, TypeTestInterface, TypeUseInterface, TypeUseNull DEF InitBatteryInfo
<1>. QED
  BY <1>1, <1>2, <1>3, <1>4, <1>5, <1>6, TypeUseNull
  DEF StartTask, SetLowCapacityThreshold

LEMMA TypeClient ==
  ASSUME TypeOK, NEW c \in Client, Getter(c) \/ MockCommand(c)
  PROVE  TypeOK'
<1>0. c \in Thread /\ {"idle", "info", "convert", "convertUse"} \subseteq Label
  BY DEF Thread, Label
<1>1. CASE Getter(c)
  BY <1>0, <1>1, TypeTestInterface, TypeUseInterface, TypeUseNull DEF Getter
<1>2. CASE GetBatteryInfo(c)
  <2>1. pc' \in [Thread -> Label]
    BY <1>0, <1>2, GotoType DEF GetBatteryInfo
  <2>. QED
    BY <1>2, <2>1 DEF GetBatteryInfo, TypeOK, outside, inFlight, pointers, flags, mutex
<1>3. CASE GetChargeType(c)
  <2>1. pc' \in [Thread -> Label] /\ readers' \subseteq Thread
    BY <1>0, <1>3, GotoType DEF GetChargeType, TypeOK
  <2>. QED
    BY <1>3, <2>1 DEF GetChargeType, TypeOK, outside, inFlight, pointers, flags
<1>. QED
  BY <1>0, <1>1, <1>2, <1>3, TypeUseInterface, TypeUseNull DEF MockCommand

LEMMA TypeMain == TypeOK /\ Main => TypeOK'
<1> SUFFICES ASSUME TypeOK, Main PROVE TypeOK'
  OBVIOUS
<1>0. /\ "main" \in Thread
      /\ {"idle", "unregister", "dropManager", "dropListener"} \subseteq Label
  BY DEF Thread, Registrar, Label
<1>1. CASE AddSystemAbilityListener
  <2>1. pc' \in [Thread -> Label]
    BY <1>0, <1>1, GotoType DEF AddSystemAbilityListener
  <2>2. notices' \in Seq({"add", "remove"})
    BY <1>1 DEF AddSystemAbilityListener, TypeOK
  <2>. QED
    BY <1>1, <2>1, <2>2
    DEF AddSystemAbilityListener, TypeOK, outside, pointers, mutex
<1>2. CASE StopLock
  <2>1. pc' \in [Thread -> Label]
    BY <1>0, <1>2, GotoType DEF StopLock
  <2>. QED
    BY <1>0, <1>2, <2>1 DEF StopLock, TypeOK, outside, inFlight, pointers, flags
<1>3. CASE StopInterface
  <2>1. pc' \in [Thread -> Label]
    BY <1>0, <1>3, GotoType DEF StopInterface
  <2>2. callback' \in BOOLEAN
    BY <1>3 DEF StopInterface, DropInterface, TypeOK
  <2>3. iBatteryInterface' \in 0 .. MaxHdi
    BY <1>3, BoundAssumption DEF StopInterface, DropInterface
  <2>. QED
    BY <1>3, <2>1, <2>2, <2>3 DEF StopInterface, TypeOK, inFlight, flags, mutex
<1>4. CASE StopWithoutManager
  <2>1. pc' \in [Thread -> Label] /\ history' \in Histories
    BY <1>0, <1>4, GotoType, NoteType DEF StopWithoutManager
  <2>. QED
    BY <1>4, <2>1
    DEF StopWithoutManager, TypeOK, Histories, outside, inFlight, pointers, flags
<1>5. CASE TestManager
  <2>1. pc' \in [Thread -> Label]
    BY <1>0, <1>5, GotoType DEF TestManager
  <2>. QED
    BY <1>5, <2>1 DEF TestManager, TypeOK, outside, inFlight, pointers, flags, mutex
<1>6. CASE UnregisterListener
  <2>1. pc' \in [Thread -> Label] /\ hdiServiceMgr' \in 0 .. MaxManager
    BY <1>0, <1>6, GotoType, BoundAssumption DEF UnregisterListener
  <2>2. history' \in Histories /\ known' \subseteq Listener
    BY <1>6 DEF UnregisterListener, TypeOK, Histories
  <2>. QED
    BY <1>6, <2>1, <2>2 DEF UnregisterListener, TypeOK, Histories, inFlight, flags
<1>. QED
  BY <1>1, <1>2, <1>3, <1>4, <1>5, <1>6, TypeUseNull DEF Main, Stop

LEMMA TypeNext == TypeOK /\ [Next]_vars => TypeOK'
<1>1. ASSUME TypeOK, NEW t \in Thread, WriterWaits(t) PROVE TypeOK'
  BY <1>1 DEF WriterWaits, TypeOK, outside, inFlight, pointers, flags
<1>2. ASSUME TypeOK, UNCHANGED vars PROVE TypeOK'
  BY <1>2 DEF vars, TypeOK, outside, inFlight, pointers, flags, mutex
<1>. QED
  BY <1>1, <1>2, TypeEnvironment, TypeRegister, TypeRetry, TypeOnStart, TypeOnStop,
     TypeMain, TypeNotice, TypeReport, TypeTask, TypeClient DEF Next

(***************************************************************************)
(* Every variable of the life cycle keeps its type.                        *)
(***************************************************************************)
THEOREM TypeCorrect == Spec => []TypeOK
  BY TypeInit, TypeNext, PTL DEF Spec

-----------------------------------------------------------------------------
(***************************************************************************)
(* mutex_.                                                                 *)
(***************************************************************************)
LEMMA Labels ==
  /\ LabelsOf("main") = {"idle", "get", "use", "listen", "lock", "unregister",
                         "dropManager", "dropListener"}
  /\ LabelsOf("samgr") = {"idle", "get", "use", "listen"}
  /\ LabelsOf("queue") = {"idle", "get", "use"}
  /\ \A l \in Listener : LabelsOf(l) = {"idle", "unregister"}
  /\ \A w \in Worker :
       LabelsOf(w) = {"idle", "lock", "callback", AfterCallback, "test", "info"}
                       \cup (IF SetsThreshold THEN {"setThreshold"} ELSE {})
  /\ \A c \in Client : LabelsOf(c) = {"idle", "info", "convert", "convertUse"}
  BY ThreadAssumption DEF LabelsOf

LEMMA ThreadsDiffer ==
  /\ \A t \in Thread : t # None
  /\ \A t \in Listener \cup Worker \cup Client : t \notin Registrar
  BY ThreadAssumption DEF Thread, Registrar

(***************************************************************************)
(* The ways a step may move a thread with respect to mutex_: it moves      *)
(* outside of it or within it, it takes it and it releases it.             *)
(***************************************************************************)
LEMMA MoveWithin ==
  ASSUME TypeOK, MutexIsHeld, NEW t \in Thread, NEW from, NEW to \in LabelsOf(t),
         Goto(t, from, to), from \in Exclusive <=> to \in Exclusive,
         from \in Shared <=> to \in Shared, UNCHANGED mutex
  PROVE  MutexIsHeld'
  BY DEF TypeOK, MutexIsHeld, Goto, mutex, Exclusive, Shared

LEMMA TakeExclusive ==
  ASSUME TypeOK, MutexIsHeld, NEW t \in Thread, NEW from, NEW to \in LabelsOf(t),
         Goto(t, from, to), from \notin Shared, to \in Exclusive, MayLock(t),
         writer' = t, readers' = readers
  PROVE  MutexIsHeld'
  BY ThreadsDiffer DEF TypeOK, MutexIsHeld, Goto, MayLock, Exclusive, Shared

(***************************************************************************)
(* A thread that could lock mutex_, or holds it, leaves it free.           *)
(***************************************************************************)
LEMMA LeaveFree ==
  ASSUME TypeOK, MutexIsHeld, NEW t \in Thread, NEW from, NEW to \in LabelsOf(t),
         Goto(t, from, to), from \in Exclusive \/ MayLock(t), from \notin Shared,
         to \notin Exclusive \cup Shared, writer' = None, readers' = readers
  PROVE  MutexIsHeld'
  BY ThreadsDiffer DEF TypeOK, MutexIsHeld, Goto, MayLock, Exclusive, Shared

LEMMA TakeShared ==
  ASSUME TypeOK, MutexIsHeld, NEW t \in Thread, NEW from, NEW to \in LabelsOf(t),
         Goto(t, from, to), from \notin Exclusive, to \in Shared, MayShare,
         readers' = readers \cup {t}, writer' = writer
  PROVE  MutexIsHeld'
  BY ThreadsDiffer DEF TypeOK, MutexIsHeld, Goto, MayShare, Exclusive, Shared

LEMMA LeaveShared ==
  ASSUME TypeOK, MutexIsHeld, NEW t \in Thread, NEW from, NEW to \in LabelsOf(t),
         Goto(t, from, to), from \in Shared, to \notin Exclusive \cup Shared,
         readers' = readers \ {t}, writer' = writer
  PROVE  MutexIsHeld'
  BY ThreadsDiffer DEF TypeOK, MutexIsHeld, Goto, Exclusive, Shared

LEMMA MutexApart ==
  ASSUME MutexIsHeld, UNCHANGED <<pc, mutex>>
  PROVE  MutexIsHeld'
  BY DEF MutexIsHeld, mutex

LEMMA MutexRegistrar ==
  ASSUME TypeOK, MutexIsHeld,
         \/ \E t \in Registrar : Register(t)
         \/ Retry \/ OnStart \/ OnStop \/ Notice \/ AddSystemAbilityListener
  PROVE  MutexIsHeld'
<1> USE Labels DEF Exclusive, Shared
<1>0. {"main", "samgr", "queue"} \subseteq Thread
  BY DEF Thread, Registrar
<1>1. ASSUME NEW t \in Registrar, Register(t) PROVE MutexIsHeld'
  <2>0. t \in {"main", "samgr", "queue"} /\ AfterRegister(t) \in LabelsOf(t)
    BY DEF Registrar, AfterRegister
  <2>1. AfterRegister(t) \in {"idle", "listen"}
    BY DEF AfterRegister
  <2>2. CASE GetNoManager(t)
    BY <1>0, <2>0, <2>1, <2>2, MoveWithin DEF GetNoManager
  <2>3. CASE GetManager(t)
    BY <1>0, <2>0, <2>1, <2>3, MoveWithin DEF GetManager
  <2>4. CASE RegisterListener(t)
    BY <1>0, <2>0, <2>1, <2>4, MoveWithin DEF RegisterListener
  <2>5. CASE ListenerRefused(t)
    BY <1>0, <2>0, <2>1, <2>5, MoveWithin DEF ListenerRefused
  <2>6. CASE UseNull(t, "use", hdiServiceMgr)
    BY <2>6, MutexApart DEF UseNull
  <2>. QED
    BY <1>1, <2>2, <2>3, <2>4, <2>5, <2>6 DEF Register
<1>2. CASE Retry
  BY <1>0, <1>2, MoveWithin DEF Retry
<1>3. CASE OnStart
  BY <1>0, <1>3, MoveWithin DEF OnStart
<1>4. CASE OnStop
  BY <1>0, <1>4, MoveWithin DEF OnStop
<1>5. CASE OnAddSystemAbility
  BY <1>0, <1>5, MoveWithin DEF OnAddSystemAbility
<1>6. CASE OnRemoveSystemAbility
  BY <1>0, <1>6, MoveWithin DEF OnRemoveSystemAbility
<1>7. CASE ClearHdiRemove
  BY <1>0, <1>7, MoveWithin DEF ClearHdiRemove
<1>8. CASE AddSystemAbilityListener
  BY <1>0, <1>8, MoveWithin DEF AddSystemAbilityListener
<1>. QED
  BY <1>1, <1>2, <1>3, <1>4, <1>5, <1>6, <1>7, <1>8 DEF Notice

LEMMA MutexStop == TypeOK /\ MutexIsHeld /\ Stop => MutexIsHeld'
<1> SUFFICES ASSUME TypeOK, MutexIsHeld, Stop PROVE MutexIsHeld'
  OBVIOUS
<1> USE Labels DEF Exclusive, Shared
<1>0. "main" \in Thread
  BY DEF Thread, Registrar
<1>1. CASE StopLock
  <2>. DEFINE to == IF iBatteryInterface # 0 THEN "unregister" ELSE "dropManager"
  <2>1. to \in {"unregister", "dropManager"}
    OBVIOUS
  <2>. QED
    BY <1>0, <1>1, <2>1, TakeExclusive DEF StopLock
<1>2. CASE StopInterface
  BY <1>0, <1>2, MoveWithin DEF StopInterface
<1>3. CASE StopWithoutManager
  BY <1>0, <1>3, LeaveFree DEF StopWithoutManager
<1>4. CASE TestManager
  BY <1>0, <1>4, MoveWithin DEF TestManager
<1>5. CASE UnregisterListener
  BY <1>0, <1>5, LeaveFree DEF UnregisterListener
<1>6. CASE \/ UseNull("main", "unregister", iBatteryInterface)
           \/ UseNull("main", "dropListener", hdiServiceMgr)
  BY <1>6, MutexApart DEF UseNull
<1>. QED
  BY <1>1, <1>2, <1>3, <1>4, <1>5, <1>6 DEF Stop

LEMMA MutexReport ==
  ASSUME TypeOK, MutexIsHeld, NEW l \in Listener, Report(l)
  PROVE  MutexIsHeld'
<1> USE Labels DEF Exclusive, Shared
<1>0. l \in Thread
  BY DEF Thread
<1>1. CASE StartReport(l)
  BY <1>0, <1>1, LeaveFree DEF StartReport, Receive
<1>2. CASE StopReport(l) /\ iBatteryInterface # 0
  BY <1>0, <1>2, TakeExclusive DEF StopReport, Receive
<1>3. CASE StopReport(l) /\ iBatteryInterface = 0
  BY <1>0, <1>3, LeaveFree DEF StopReport, Receive
<1>4. CASE UnRegister(l)
  BY <1>0, <1>4, LeaveFree DEF UnRegister
<1>5. CASE UseNull(l, "unregister", iBatteryInterface)
  BY <1>5, MutexApart DEF UseNull
<1>. QED
  BY <1>1, <1>2, <1>3, <1>4, <1>5 DEF Report

LEMMA MutexTask ==
  ASSUME TypeOK, MutexIsHeld, NEW w \in Worker, StartTask(w)
  PROVE  MutexIsHeld'
<1> USE Labels DEF Exclusive, Shared
<1>0. /\ w \in Thread
      /\ AfterCallback \in LabelsOf(w) /\ AfterCallback \notin Exclusive \cup Shared
  BY DEF Thread, AfterCallback
<1>1. CASE RunTask(w)
  BY <1>0, <1>1, MoveWithin DEF RunTask
<1>2. CASE GetInterface(w) /\ iBatteryInterface' # 0
  BY <1>0, <1>2, TakeExclusive DEF GetInterface
<1>3. CASE GetInterface(w) /\ iBatteryInterface' = 0
  BY <1>0, <1>3, LeaveFree DEF GetInterface
<1>4. CASE RegisterCallback(w)
  BY <1>0, <1>4, LeaveFree DEF RegisterCallback
<1>5. CASE TestThreshold(w)
  <2>1. SetsThreshold
    BY <1>0, <1>5 DEF TestThreshold, Goto, MutexIsHeld, AfterCallback
  <2>2. LabelsOf(w) = {"idle", "lock", "callback", AfterCallback, "test", "info",
                       "setThreshold"}
    BY <2>1
  <2>. QED
    BY <1>0, <1>5, <2>2, MoveWithin DEF TestThreshold
<1>6. CASE SetThreshold(w)
  BY <1>0, <1>6, MoveWithin DEF SetThreshold
<1>7. CASE TestInterface(w, "test", "info", "idle") /\ iBatteryInterface # 0
  BY <1>0, <1>7, TakeShared DEF TestInterface
<1>8. CASE TestInterface(w, "test", "info", "idle") /\ iBatteryInterface = 0
  BY <1>0, <1>8, MoveWithin DEF TestInterface, mutex
<1>9. CASE UseInterface(w, "info")
  BY <1>0, <1>9, LeaveShared DEF UseInterface
<1>10. CASE \E label, pointer : UseNull(w, label, pointer)
  BY <1>10, MutexApart DEF UseNull
<1>. QED
  BY <1>1, <1>2, <1>3, <1>4, <1>5, <1>6, <1>7, <1>8, <1>9, <1>10
  DEF StartTask, SetLowCapacityThreshold, InitBatteryInfo

LEMMA MutexClient ==
  ASSUME TypeOK, MutexIsHeld, NEW c \in Client, Getter(c) \/ MockCommand(c)
  PROVE  MutexIsHeld'
<1> USE Labels DEF Exclusive, Shared
<1>0. c \in Thread
  BY DEF Thread
<1>1. CASE TestInterface(c, "idle", "info", "idle") /\ iBatteryInterface # 0
  BY <1>0, <1>1, TakeShared DEF TestInterface
<1>2. CASE TestInterface(c, "idle", "info", "idle") /\ iBatteryInterface = 0
  BY <1>0, <1>2, MoveWithin DEF TestInterface, mutex
<1>3. CASE UseInterface(c, "info") \/ UseInterface(c, "convertUse")
  BY <1>0, <1>3, LeaveShared DEF UseInterface
<1>4. CASE GetBatteryInfo(c)
  BY <1>0, <1>4, MoveWithin DEF GetBatteryInfo
<1>5. CASE GetChargeType(c) /\ iBatteryInterface # 0
  BY <1>0, <1>5, MoveWithin DEF GetChargeType, mutex
<1>6. CASE GetChargeType(c) /\ iBatteryInterface = 0
  BY <1>0, <1>6, LeaveShared DEF GetChargeType
<1>7. CASE \E label, pointer : UseNull(c, label, pointer)
  BY <1>7, MutexApart DEF UseNull
<1>. QED
  BY <1>1, <1>2, <1>3, <1>4, <1>5, <1>6, <1>7 DEF Getter, MockCommand

LEMMA MutexNext == TypeOK /\ MutexIsHeld /\ [Next]_vars => MutexIsHeld'
<1> SUFFICES ASSUME TypeOK, MutexIsHeld, [Next]_vars PROVE MutexIsHeld'
  OBVIOUS
<1>1. CASE Environment
  BY <1>1, MutexApart
  DEF Environment, ManagerStarts, ManagerDies, HdiStarts, HdiDies
<1>2. ASSUME NEW t \in Thread, WriterWaits(t) PROVE MutexIsHeld'
  BY <1>2, ThreadsDiffer DEF WriterWaits, MutexIsHeld
<1>3. CASE UNCHANGED vars
  BY <1>3, MutexApart DEF vars
<1>. QED
  BY <1>1, <1>2, <1>3, MutexRegistrar, MutexStop, MutexReport, MutexTask,
     MutexClient DEF Next, Main

-----------------------------------------------------------------------------
(***************************************************************************)
(* The pointers that were tested.                                          *)
(***************************************************************************)
NeedsManager == {"use", "dropListener"}
NeedsInterface == {"unregister", "callback", "info", "convertUse"}

(***************************************************************************)
(* What happens is never forgotten.                                        *)
(***************************************************************************)
LEMMA HistoryGrows == [Next]_vars => history \subseteq history'
  BY DEF Next, Environment, ManagerStarts, ManagerDies, HdiStarts, HdiDies, Register,
     GetNoManager, GetManager, RegisterListener, ListenerRefused, UseNull, Retry,
     OnStart, OnStop, Main, AddSystemAbilityListener, Stop, StopLock, StopInterface,
     StopWithoutManager, TestManager, UnregisterListener, Notice,
     OnAddSystemAbility, OnRemoveSystemAbility, ClearHdiRemove, Report, StartReport,
     StopReport, UnRegister, StartTask, RunTask, GetInterface, RegisterCallback,
     SetLowCapacityThreshold, TestThreshold, SetThreshold, InitBatteryInfo,
     TestInterface, UseInterface, Getter, MockCommand, GetBatteryInfo,
     GetChargeType, WriterWaits, Note, vars

(***************************************************************************)
(* A step that clears no pointer, and moves a thread only with the pointer *)
(* it needs next.                                                          *)
(***************************************************************************)
LEMMA TestedMove ==
  ASSUME TypeOK, TestedIsThere, history \subseteq history',
         NEW t \in Thread, NEW from, NEW to, Goto(t, from, to),
         hdiServiceMgr # 0 => hdiServiceMgr' # 0,
         iBatteryInterface # 0 => iBatteryInterface' # 0,
         to \in NeedsManager => hdiServiceMgr' # 0,
         to \in NeedsInterface => iBatteryInterface' # 0
  PROVE  TestedIsThere'
  BY DEF TypeOK, TestedIsThere, Goto, NeedsManager, NeedsInterface

(***************************************************************************)
(* A pointer is cleared while no other thread needs it, or it is noted.    *)
(***************************************************************************)
LEMMA TestedClear ==
  ASSUME TypeOK, TestedIsThere, history \subseteq history',
         NEW t \in Thread, NEW from, NEW to, Goto(t, from, to),
         to \notin NeedsManager \cup NeedsInterface,
         \/ hdiServiceMgr # 0 => hdiServiceMgr' # 0
         \/ UsesManager(t) => "raced" \in history',
         \/ iBatteryInterface # 0 => iBatteryInterface' # 0
         \/ \A u \in Thread \ {t} : pc[u] \notin NeedsInterface
         \/ UsesInterface(t) => "raced" \in history'
  PROVE  TestedIsThere'
  BY DEF TypeOK, TestedIsThere, Goto, NeedsManager, NeedsInterface,
     UsesManager, UsesInterface

LEMMA TestedApart ==
  ASSUME TestedIsThere, history \subseteq history',
         UNCHANGED <<pc, hdiServiceMgr, iBatteryInterface>>
  PROVE  TestedIsThere'
  BY DEF TestedIsThere

(***************************************************************************)
(* Who holds mutex_ exclusive is alone with the interface.                 *)
(***************************************************************************)
LEMMA HolderIsAlone ==
  ASSUME TypeOK, MutexIsHeld, NEW t \in Thread, pc[t] \in Exclusive
  PROVE  \A u \in Thread \ {t} : pc[u] \notin Exclusive \cup Shared
  BY DEF MutexIsHeld

LEMMA TestedNext == TypeOK /\ MutexIsHeld /\ TestedIsThere /\ [Next]_vars
                      => TestedIsThere'
<1> SUFFICES ASSUME TypeOK, MutexIsHeld, TestedIsThere, [Next]_vars
             PROVE  TestedIsThere'
  OBVIOUS
<1> USE HistoryGrows DEF NeedsManager, NeedsInterface
<1>0. /\ Registrar \cup Listener \cup Worker \cup Client = Thread
      /\ {"main", "samgr", "queue"} = Registrar
  BY DEF Thread, Registrar
<1>1. CASE Environment
  BY <1>1, TestedApart
  DEF Environment, ManagerStarts, ManagerDies, HdiStarts, HdiDies, pointers
<1>2. ASSUME NEW t \in Registrar, Register(t) PROVE TestedIsThere'
  <2>0. t \in Thread /\ AfterRegister(t) \in {"idle", "listen"}
    BY <1>0 DEF AfterRegister
  <2>1. CASE GetNoManager(t)
    <3>1. UsesManager(t) => "raced" \in history'
      BY <2>1 DEF GetNoManager, Note
    <3>. QED
      BY <2>0, <2>1, <3>1, TestedClear DEF GetNoManager
  <2>2. CASE GetManager(t)
    BY <2>0, <2>2, TestedMove DEF GetManager
  <2>3. CASE RegisterListener(t)
    BY <2>0, <2>3, TestedMove DEF RegisterListener, pointers
  <2>4. CASE ListenerRefused(t)
    BY <2>0, <2>4, TestedMove DEF ListenerRefused, pointers
  <2>5. CASE UseNull(t, "use", hdiServiceMgr)
    BY <2>5, TestedApart DEF UseNull, pointers
  <2>. QED
    BY <1>2, <2>1, <2>2, <2>3, <2>4, <2>5 DEF Register
<1>3. CASE Retry
  BY <1>0, <1>3, TestedMove DEF Retry, pointers
<1>4. CASE OnStart
  BY <1>0, <1>4, TestedMove DEF OnStart, pointers
<1>5. CASE OnStop
  BY <1>0, <1>5, TestedMove DEF OnStop, pointers
<1>6. CASE AddSystemAbilityListener
  BY <1>0, <1>6, TestedMove DEF AddSystemAbilityListener, pointers
<1>7. CASE Stop
  <2>1. CASE StopLock
    <3>. DEFINE to == IF iBatteryInterface # 0 THEN "unregister" ELSE "dropManager"
    <3>1. to \notin {"use", "dropListener"}
          /\ (to \in {"unregister", "callback", "info", "convertUse"}
                => iBatteryInterface # 0)
      OBVIOUS
    <3>. QED
      BY <1>0, <2>1, <3>1, TestedMove DEF StopLock, pointers
  <2>2. CASE StopInterface
    <3>1. \A u \in Thread \ {"main"} : pc[u] \notin Exclusive \cup Shared
      BY <1>0, <2>2, HolderIsAlone DEF StopInterface, Goto, Exclusive
    <3>. QED
      BY <1>0, <2>2, <3>1, TestedClear DEF StopInterface, Exclusive, Shared
  <2>3. CASE StopWithoutManager
    BY <1>0, <2>3, TestedMove DEF StopWithoutManager, pointers
  <2>4. CASE TestManager
    BY <1>0, <2>4, TestedMove DEF TestManager, pointers
  <2>5. CASE UnregisterListener
    BY <1>0, <2>5, TestedClear DEF UnregisterListener
  <2>6. CASE \/ UseNull("main", "unregister", iBatteryInterface)
             \/ UseNull("main", "dropListener", hdiServiceMgr)
    BY <2>6, TestedApart DEF UseNull, pointers
  <2>. QED
    BY <1>7, <2>1, <2>2, <2>3, <2>4, <2>5, <2>6 DEF Stop
<1>8. CASE Notice
  <2>1. CASE OnAddSystemAbility
    BY <1>0, <2>1, TestedMove DEF OnAddSystemAbility, pointers
  <2>2. CASE OnRemoveSystemAbility /\ isHdiRemove
    BY <1>0, <2>2, TestedMove DEF OnRemoveSystemAbility
  <2>3. CASE OnRemoveSystemAbility /\ ~isHdiRemove
    BY <1>0, <2>3, TestedClear DEF OnRemoveSystemAbility, Note
  <2>4. CASE ClearHdiRemove
    BY <1>0, <2>4, TestedMove DEF ClearHdiRemove, pointers
  <2>. QED
    BY <1>8, <2>1, <2>2, <2>3, <2>4 DEF Notice
<1>9. ASSUME NEW l \in Listener, Report(l) PROVE TestedIsThere'
  <2>1. CASE StartReport(l)
    BY <1>0, <2>1, TestedMove DEF StartReport, pointers
  <2>2. CASE StopReport(l)
    BY <1>0, <2>2, TestedMove DEF StopReport, pointers
  <2>3. CASE UnRegister(l)
    <3>1. \A u \in Thread \ {l} : pc[u] \notin Exclusive \cup Shared
      BY <1>0, <2>3, HolderIsAlone DEF UnRegister, Goto, Exclusive
    <3>. QED
      BY <1>0, <2>3, <3>1, TestedClear DEF UnRegister, Exclusive, Shared
  <2>4. CASE UseNull(l, "unregister", iBatteryInterface)
    BY <2>4, TestedApart DEF UseNull, pointers
  <2>. QED
    BY <1>9, <2>1, <2>2, <2>3, <2>4 DEF Report
<1>10. ASSUME NEW w \in Worker, StartTask(w) PROVE TestedIsThere'
  <2>0. w \in Thread /\ AfterCallback \in {"testThreshold", "test"}
    BY <1>0 DEF AfterCallback
  <2>1. CASE RunTask(w)
    BY <2>0, <2>1, TestedMove DEF RunTask, pointers
  <2>2. CASE GetInterface(w)
    BY <2>0, <2>2, TestedMove DEF GetInterface
  <2>3. CASE RegisterCallback(w)
    BY <2>0, <2>3, TestedMove DEF RegisterCallback, pointers
  <2>4. CASE TestThreshold(w)
    BY <2>0, <2>4, TestedMove DEF TestThreshold, pointers
  <2>5. CASE SetThreshold(w)
    BY <2>0, <2>5, TestedMove DEF SetThreshold, pointers
  <2>6. CASE TestInterface(w, "test", "info", "idle")
    BY <2>0, <2>6, TestedMove DEF TestInterface, pointers
  <2>7. CASE UseInterface(w, "info")
    BY <2>0, <2>7, TestedMove DEF UseInterface, pointers
  <2>8. CASE \E label, pointer : UseNull(w, label, pointer)
    BY <2>8, TestedApart DEF UseNull, pointers
  <2>. QED
    BY <1>10, <2>1, <2>2, <2>3, <2>4, <2>5, <2>6, <2>7, <2>8
    DEF StartTask, SetLowCapacityThreshold, InitBatteryInfo
<1>11. ASSUME NEW c \in Client, Getter(c) \/ MockCommand(c) PROVE TestedIsThere'
  <2>1. CASE TestInterface(c, "idle", "info", "idle")
    BY <1>0, <2>1, TestedMove DEF TestInterface, pointers
  <2>2. CASE UseInterface(c, "info") \/ UseInterface(c, "convertUse")
    BY <1>0, <2>2, TestedMove DEF UseInterface, pointers
  <2>3. CASE GetBatteryInfo(c)
    BY <1>0, <2>3, TestedMove DEF GetBatteryInfo, pointers
  <2>4. CASE GetChargeType(c)
    BY <1>0, <2>4, TestedMove DEF GetChargeType, pointers
  <2>5. CASE \E label, pointer : UseNull(c, label, pointer)
    BY <2>5, TestedApart DEF UseNull, pointers
  <2>. QED
    BY <1>11, <2>1, <2>2, <2>3, <2>4, <2>5 DEF Getter, MockCommand
<1>12. ASSUME NEW t \in Thread, WriterWaits(t) PROVE TestedIsThere'
  BY <1>12, TestedApart DEF WriterWaits, pointers
<1>13. CASE UNCHANGED vars
  BY <1>13, TestedApart DEF vars, pointers
<1>. QED
  BY <1>1, <1>2, <1>3, <1>4, <1>5, <1>6, <1>7, <1>8, <1>9, <1>10, <1>11, <1>12,
     <1>13 DEF Next, Main

-----------------------------------------------------------------------------
(***************************************************************************)
(* A null pointer is used only where TestedIsThere says nothing.           *)
(***************************************************************************)
LEMMA UsesWhatIsThere ==
  ASSUME TypeOK, TestedIsThere, ~SetsThreshold, MutexIsHeld, NEW t \in Thread,
         \/ UseNull(t, "use", hdiServiceMgr)
         \/ UseNull(t, "dropListener", hdiServiceMgr)
         \/ \E label \in NeedsInterface \cup {"setThreshold"} :
              UseNull(t, label, iBatteryInterface)
  PROVE  "raced" \in history
<1>1. pc[t] # "setThreshold"
  BY Labels, ThreadsDiffer
  DEF MutexIsHeld, Thread, Registrar, AfterCallback
<1>. QED
  BY <1>1 DEF UseNull, TestedIsThere, NeedsInterface

LEMMA NullNext == IInv /\ [Next]_vars => NoNullUse'
<1> SUFFICES ASSUME IInv, [Next]_vars, ~SetsThreshold, crashed'
             PROVE  "raced" \in history'
  BY DEF NoNullUse
<1>1. CASE crashed
  BY <1>1, HistoryGrows DEF IInv, NoNullUse
<1>2. CASE ~crashed
  <2>1. \E t \in Thread :
          \/ UseNull(t, "use", hdiServiceMgr)
          \/ UseNull(t, "dropListener", hdiServiceMgr)
          \/ \E label \in NeedsInterface \cup {"setThreshold"} :
               UseNull(t, label, iBatteryInterface)
    BY <1>2 DEF Next, Environment, ManagerStarts, ManagerDies, HdiStarts, HdiDies,
       Register, GetNoManager, GetManager, RegisterListener, ListenerRefused, Retry,
       OnStart, OnStop, Main, AddSystemAbilityListener, Stop, StopLock,
       StopInterface, StopWithoutManager, TestManager, UnregisterListener, Notice,
       OnAddSystemAbility, OnRemoveSystemAbility, ClearHdiRemove, Report,
       StartReport, StopReport, UnRegister, StartTask, RunTask, GetInterface,
       RegisterCallback, SetLowCapacityThreshold, TestThreshold, SetThreshold,
       InitBatteryInfo, TestInterface, UseInterface, Getter, MockCommand,
       GetBatteryInfo, GetChargeType, WriterWaits, vars, Thread, Registrar,
       NeedsInterface
  <2>. QED
    BY <2>1, HistoryGrows, UsesWhatIsThere DEF IInv
<1>. QED
  BY <1>1, <1>2

-----------------------------------------------------------------------------
(***************************************************************************)
(* Queues: what is in them and at their end when something is appended or  *)
(* taken.                                                                  *)
(***************************************************************************)
LEMMA AppendEnds ==
  ASSUME NEW S, NEW q \in Seq(S), NEW x \in S
  PROVE  /\ Append(q, x) # <<>>
         /\ \A y : EndsWith(Append(q, x), y) <=> y = x
         /\ \A y : Occurs(y, Append(q, x)) <=> Occurs(y, q) \/ y = x
<1>1. Len(Append(q, x)) = Len(q) + 1 /\ Append(q, x)[Len(q) + 1] = x
  OBVIOUS
<1>2. /\ DOMAIN Append(q, x) = 1 .. Len(q) + 1 /\ DOMAIN q = 1 .. Len(q)
      /\ \A i \in 1 .. Len(q) : Append(q, x)[i] = q[i]
  OBVIOUS
<1>3. Len(q) \in Nat
  OBVIOUS
<1>4. Append(q, x) # <<>>
  BY <1>1, <1>3
<1>5. ASSUME NEW y PROVE EndsWith(Append(q, x), y) <=> y = x
  BY <1>1, <1>4 DEF EndsWith
<1>6. ASSUME NEW y PROVE Occurs(y, Append(q, x)) <=> Occurs(y, q) \/ y = x
  BY <1>1, <1>2, <1>3 DEF Occurs
<1>. QED
  BY <1>4, <1>5, <1>6

LEMMA TailEnds ==
  ASSUME NEW S, NEW q \in Seq(S), q # <<>>
  PROVE  /\ Tail(q) \in Seq(S)
         /\ Head(q) = q[1] /\ Head(q) \in S
         /\ \A y : EndsWith(q, y) /\ Tail(q) # <<>> <=> EndsWith(Tail(q), y)
         /\ \A y : Tail(q) = <<>> => (EndsWith(q, y) <=> y = Head(q))
         /\ \A y : Occurs(y, q) <=> y = Head(q) \/ Occurs(y, Tail(q))
<1>1. /\ Len(q) \in Nat /\ Len(q) > 0 /\ DOMAIN q = 1 .. Len(q)
      /\ Tail(q) \in Seq(S) /\ Len(Tail(q)) = Len(q) - 1
      /\ DOMAIN Tail(q) = 1 .. Len(q) - 1
      /\ \A i \in 1 .. Len(q) - 1 : Tail(q)[i] = q[i + 1]
      /\ Head(q) = q[1] /\ Head(q) \in S
  OBVIOUS
<1>2. Tail(q) = <<>> <=> Len(q) = 1
  <2>1. Tail(q) # <<>> => Len(Tail(q)) # 0
    BY <1>1, EmptySeq
  <2>2. Tail(q) = <<>> => Len(Tail(q)) = 0
    BY EmptySeq
  <2>. QED
    BY <1>1, <2>1, <2>2
<1>3. ASSUME NEW y PROVE EndsWith(q, y) /\ Tail(q) # <<>> <=> EndsWith(Tail(q), y)
  BY <1>1, <1>2 DEF EndsWith
<1>4. ASSUME NEW y, Tail(q) = <<>> PROVE EndsWith(q, y) <=> y = Head(q)
  BY <1>1, <1>2, <1>4 DEF EndsWith
<1>5. ASSUME NEW y PROVE Occurs(y, q) <=> y = Head(q) \/ Occurs(y, Tail(q))
  <2>1. ASSUME NEW i \in DOMAIN q, q[i] = y, i # 1 PROVE Occurs(y, Tail(q))
    <3>1. i - 1 \in DOMAIN Tail(q) /\ Tail(q)[i - 1] = y
      BY <1>1, <2>1
    <3>. QED
      BY <3>1 DEF Occurs
  <2>2. ASSUME NEW i \in DOMAIN Tail(q), Tail(q)[i] = y PROVE Occurs(y, q)
    <3>1. i + 1 \in DOMAIN q /\ q[i + 1] = y
      BY <1>1, <2>2
    <3>. QED
      BY <3>1 DEF Occurs
  <2>. QED
    BY <1>1, <2>1, <2>2 DEF Occurs
<1>. QED
  BY <1>1, <1>3, <1>4, <1>5

-----------------------------------------------------------------------------
(***************************************************************************)
(* What a step may be, for the invariants that follow.  They are not about *)
(* mutex_ and the getters, whose steps are Inert.                          *)
(***************************************************************************)
Inert ==
  /\ UNCHANGED <<outside, inFlight, pointers, flags, history>>
  /\ \A t \in Registrar \cup Listener : pc'[t] = pc[t]
  /\ \A w \in Worker :
       \/ pc'[w] = pc[w]
       \/ pc[w] \notin {"idle", "lock", "callback"} /\ pc'[w] \notin {"lock", "callback"}

LEMMA Moves ==
  ASSUME TypeOK, NEW t \in Thread, NEW from, NEW to, Goto(t, from, to)
  PROVE  /\ pc[t] = from /\ pc'[t] = to
         /\ \A u \in Thread \ {t} : pc'[u] = pc[u]
  BY DEF TypeOK, Goto

LEMMA ThreadsOfAKind ==
  /\ Registrar \cup Listener \cup Worker \cup Client = Thread
  /\ {"main", "samgr", "queue"} = Registrar
  /\ \A l \in Listener : l \notin Registrar \cup Worker \cup Client
  /\ \A w \in Worker : w \notin Registrar \cup Listener \cup Client
  /\ \A c \in Client : c \notin Registrar \cup Listener \cup Worker
  BY ThreadAssumption DEF Thread, Registrar

LEMMA InertSteps ==
  ASSUME TypeOK,
         \/ UNCHANGED vars
         \/ \E t \in Thread : WriterWaits(t)
         \/ \E t, label, pointer : UseNull(t, label, pointer)
         \/ \E c \in Client : Getter(c) \/ MockCommand(c)
         \/ \E w \in Worker :
              TestThreshold(w) \/ SetThreshold(w) \/ InitBatteryInfo(w)
  PROVE  Inert
<1> USE ThreadsOfAKind DEF Inert
<1>1. CASE UNCHANGED vars
  BY <1>1 DEF vars
<1>2. ASSUME NEW t \in Thread, WriterWaits(t) PROVE Inert
  BY <1>2 DEF WriterWaits
<1>3. ASSUME NEW t, NEW label, NEW pointer, UseNull(t, label, pointer) PROVE Inert
  BY <1>3 DEF UseNull
<1>4. ASSUME NEW c \in Client, NEW from, NEW to, Goto(c, from, to),
             UNCHANGED <<outside, inFlight, pointers, flags, history>>
      PROVE  Inert
  BY <1>4, Moves
<1>5. ASSUME NEW c \in Client, Getter(c) \/ MockCommand(c) PROVE Inert
  <2>1. CASE TestInterface(c, "idle", "info", "idle")
    BY <1>4, <2>1 DEF TestInterface
  <2>2. CASE UseInterface(c, "info") \/ UseInterface(c, "convertUse")
    BY <1>4, <2>2 DEF UseInterface
  <2>3. CASE GetBatteryInfo(c)
    BY <1>4, <2>3 DEF GetBatteryInfo
  <2>4. CASE GetChargeType(c)
    BY <1>4, <2>4 DEF GetChargeType
  <2>. QED
    BY <1>3, <1>5, <2>1, <2>2, <2>3, <2>4 DEF Getter, MockCommand
<1>6. ASSUME NEW w \in Worker, NEW from, NEW to, Goto(w, from, to),
             from \notin {"idle", "lock", "callback"}, to \notin {"lock", "callback"},
             UNCHANGED <<outside, inFlight, pointers, flags, history>>
      PROVE  Inert
  BY <1>6, Moves
<1>7. ASSUME NEW w \in Worker, TestThreshold(w) \/ SetThreshold(w) \/ InitBatteryInfo(w)
      PROVE  Inert
  <2>1. CASE TestThreshold(w)
    BY <1>6, <2>1 DEF TestThreshold
  <2>2. CASE SetThreshold(w)
    BY <1>6, <2>2 DEF SetThreshold
  <2>3. CASE TestInterface(w, "test", "info", "idle")
    BY <1>6, <2>3 DEF TestInterface
  <2>4. CASE UseInterface(w, "info")
    BY <1>6, <2>4 DEF UseInterface
  <2>. QED
    BY <1>3, <1>7, <2>1, <2>2, <2>3, <2>4 DEF InitBatteryInfo
<1>. QED
  BY <1>1, <1>2, <1>3, <1>5, <1>7

LEMMA Steps ==
  ASSUME TypeOK, [Next]_vars
  PROVE  \/ Inert \/ Environment
         \/ \E t \in Registrar : \/ GetNoManager(t) \/ GetManager(t)
                                 \/ RegisterListener(t) \/ ListenerRefused(t)
         \/ Retry \/ OnStart \/ OnStop \/ AddSystemAbilityListener
         \/ StopLock \/ StopInterface \/ StopWithoutManager
         \/ TestManager \/ UnregisterListener
         \/ OnAddSystemAbility \/ OnRemoveSystemAbility \/ ClearHdiRemove
         \/ \E l \in Listener : StartReport(l) \/ StopReport(l) \/ UnRegister(l)
         \/ \E w \in Worker : RunTask(w) \/ GetInterface(w) \/ RegisterCallback(w)
  BY InertSteps
  DEF Next, Register, Main, Stop, Notice, Report, StartTask, SetLowCapacityThreshold

-----------------------------------------------------------------------------
(***************************************************************************)
(* MainInOrder.                                                            *)
(***************************************************************************)

(***************************************************************************)
(* Where nothing of the service is anywhere, nothing comes by itself.      *)
(***************************************************************************)
LEMMA SilentStays ==
  ASSUME TypeOK, Silent, [Next]_vars, notices = <<>> \/ ~isHdiRemove,
         ~Occurs("remove", notices)
  PROVE  \/ Silent'
         \/ RegisterListener("main") \/ ListenerRefused("main")
         \/ GetNoManager("main")
<1> SUFFICES ASSUME ~(RegisterListener("main") \/ ListenerRefused("main")
                        \/ GetNoManager("main"))
             PROVE  Silent'
  OBVIOUS
<1> USE ThreadsOfAKind DEF Silent, Busy
<1>1. CASE Inert
  BY <1>1 DEF Inert, outside, inFlight, pointers
<1>2. CASE Environment
  <2>1. ASSUME HdiStarts \/ HdiDies PROVE \A l \in Listener : reports'[l] = <<>>
    BY <2>1 DEF HdiStarts, HdiDies, Tell
  <2>2. CASE ManagerStarts
    BY <2>2 DEF ManagerStarts, pointers
  <2>3. CASE ManagerDies
    BY <2>3 DEF ManagerDies, pointers
  <2>4. CASE HdiStarts
    BY <2>1, <2>4 DEF HdiStarts, pointers
  <2>5. CASE HdiDies
    BY <2>1, <2>5 DEF HdiDies, pointers
  <2>. QED
    BY <1>2, <2>2, <2>3, <2>4, <2>5 DEF Environment
<1>3. ASSUME NEW t \in Registrar,
             \/ GetNoManager(t) \/ GetManager(t)
             \/ RegisterListener(t) \/ ListenerRefused(t)
      PROVE  Silent'
  <2>1. pc[t] \in {"get", "use"}
    BY <1>3 DEF GetNoManager, GetManager, RegisterListener, ListenerRefused, Goto
  <2>2. t = "main"
    BY <2>1
  <2>3. GetManager("main")
    BY <1>3, <2>2
  <2>. QED
    BY <2>3, Moves DEF GetManager, outside, inFlight
<1>4. CASE Retry
  BY <1>4 DEF Retry
<1>5. CASE OnStart
  BY <1>5, Moves DEF OnStart, inFlight, pointers
<1>6. CASE OnStop
  BY <1>6, Moves DEF OnStop, outside, inFlight, pointers
<1>7. CASE AddSystemAbilityListener
  BY <1>7, Moves DEF AddSystemAbilityListener, outside, pointers
<1>8. CASE StopLock
  BY <1>8, Moves DEF StopLock, outside, inFlight, pointers
<1>9. CASE StopInterface
  BY <1>9 DEF StopInterface, DropInterface
<1>10. CASE StopWithoutManager
  BY <1>10, Moves DEF StopWithoutManager, outside, inFlight, pointers
<1>11. CASE TestManager
  BY <1>11, Moves DEF TestManager, outside, inFlight, pointers
<1>12. CASE UnregisterListener
  <2>1. known' = {}
    BY <1>12 DEF UnregisterListener
  <2>. QED
    BY <1>12, <2>1, Moves DEF UnregisterListener, inFlight
<1>13. CASE OnAddSystemAbility
  <2>1. ~isHdiRemove
    BY <1>13 DEF OnAddSystemAbility, Take
  <2>. QED
    BY <1>13, <2>1, Moves DEF OnAddSystemAbility, outside, pointers
<1>14. CASE OnRemoveSystemAbility
  BY <1>14, TailEnds DEF OnRemoveSystemAbility, Take, TypeOK
<1>15. CASE ClearHdiRemove
  BY <1>15 DEF ClearHdiRemove, Goto
<1>16. ASSUME NEW l \in Listener, StartReport(l) \/ StopReport(l) \/ UnRegister(l)
       PROVE  Silent'
  BY <1>16 DEF StartReport, StopReport, UnRegister, Receive, Goto
<1>17. ASSUME NEW w \in Worker, RunTask(w) \/ GetInterface(w) \/ RegisterCallback(w)
       PROVE  Silent'
  BY <1>17 DEF RunTask, GetInterface, RegisterCallback, Goto
<1>. QED
  BY <1>1, <1>2, <1>3, <1>4, <1>5, <1>6, <1>7, <1>8, <1>9, <1>10, <1>11, <1>12,
     <1>13, <1>14, <1>15, <1>16, <1>17, Steps

(***************************************************************************)
(* The steps of the threads that run OnStart, OnStop and the callbacks.    *)
(***************************************************************************)
RegisterStep(t) ==
  GetNoManager(t) \/ GetManager(t) \/ RegisterListener(t) \/ ListenerRefused(t)

StopStep ==
  StopLock \/ StopInterface \/ StopWithoutManager \/ TestManager \/ UnregisterListener

LEMMA OthersStay ==
  ASSUME TypeOK, [Next]_vars, NEW t \in Thread, pc'[t] # pc[t]
  PROVE  /\ t \in Registrar =>
              \/ RegisterStep(t)
              \/ t = "queue" /\ Retry
              \/ t = "samgr" /\ (OnAddSystemAbility \/ ClearHdiRemove)
              \/ t = "main" /\ (OnStart \/ OnStop \/ AddSystemAbilityListener \/ StopStep)
         /\ t \in Listener => StopReport(t) \/ UnRegister(t)
         /\ t \in Worker /\ {pc[t], pc'[t]} \cap {"lock", "callback"} # {} =>
              RunTask(t) \/ GetInterface(t) \/ RegisterCallback(t)
<1> USE ThreadsOfAKind DEF RegisterStep, StopStep
<1>a. ASSUME NEW u \in Thread, NEW from, NEW to, Goto(u, from, to)
      PROVE  u = t
  BY <1>a, Moves
<1>1. CASE Inert
  BY <1>1 DEF Inert
<1>2. CASE Environment
  BY <1>2 DEF Environment, ManagerStarts, ManagerDies, HdiStarts, HdiDies
<1>3. ASSUME NEW u \in Registrar, RegisterStep(u) PROVE u = t
  BY <1>3, <1>a DEF GetNoManager, GetManager, RegisterListener, ListenerRefused
<1>4. CASE Retry
  BY <1>4, <1>a DEF Retry
<1>5. CASE \/ OnStart \/ OnStop \/ AddSystemAbilityListener \/ StopStep
  <2>1. t = "main"
    BY <1>5, <1>a DEF OnStart, OnStop, AddSystemAbilityListener, StopLock, StopInterface,
       StopWithoutManager, TestManager, UnregisterListener
  <2>. QED
    BY <1>5, <2>1
<1>6. CASE OnAddSystemAbility \/ ClearHdiRemove
  <2>1. t = "samgr"
    BY <1>6, <1>a DEF OnAddSystemAbility, ClearHdiRemove
  <2>. QED
    BY <1>6, <2>1
<1>7. ASSUME OnRemoveSystemAbility PROVE FALSE
  BY <1>7, Moves, <1>a DEF OnRemoveSystemAbility
<1>8. ASSUME NEW l \in Listener, StartReport(l) \/ StopReport(l) \/ UnRegister(l)
      PROVE  l = t /\ ~StartReport(t)
  <2>1. l = t
    BY <1>8, <1>a DEF StartReport, StopReport, UnRegister
  <2>. QED
    BY <1>8, <2>1, Moves DEF StartReport
<1>9. ASSUME NEW w \in Worker, RunTask(w) \/ GetInterface(w) \/ RegisterCallback(w)
      PROVE  w = t
  BY <1>9, <1>a DEF RunTask, GetInterface, RegisterCallback
<1>. QED
  BY <1>1, <1>2, <1>3, <1>4, <1>5, <1>6, <1>7, <1>8, <1>9, Steps

(***************************************************************************)
(* Which steps change which variable.                                      *)
(***************************************************************************)
LEMMA Changes ==
  ASSUME TypeOK, [Next]_vars
  PROVE  /\ manager' # manager \/ counts'["manager"] # counts["manager"]
              => ManagerStarts \/ ManagerDies
         /\ hdi' # hdi => ManagerDies \/ HdiStarts \/ HdiDies
         /\ known' # known => \/ ManagerDies \/ UnregisterListener
                              \/ \E t \in Registrar : RegisterListener(t)
         /\ callback' # callback =>
              \/ ManagerDies \/ HdiDies \/ StopInterface
              \/ \E l \in Listener : UnRegister(l)
              \/ \E w \in Worker : RegisterCallback(w)
         /\ reports' # reports =>
              \/ HdiStarts \/ HdiDies
              \/ \E t \in Registrar : RegisterListener(t)
              \/ \E l \in Listener : StartReport(l) \/ StopReport(l)
         /\ notices' # notices =>
              \/ ManagerStarts \/ ManagerDies \/ AddSystemAbilityListener
              \/ OnAddSystemAbility \/ OnRemoveSystemAbility
         /\ ready' # ready => AddSystemAbilityListener \/ OnStop
         /\ subscribed' # subscribed => AddSystemAbilityListener
         /\ isHdiRemove' # isHdiRemove => ClearHdiRemove \/ OnRemoveSystemAbility
         /\ hdiServiceMgr' # hdiServiceMgr =>
              \/ OnRemoveSystemAbility \/ UnregisterListener
              \/ \E t \in Registrar : GetNoManager(t) \/ GetManager(t)
         /\ hdiServStatListener' # hdiServStatListener =>
              \E t \in Registrar : GetManager(t)
         /\ iBatteryInterface' # iBatteryInterface =>
              \/ OnRemoveSystemAbility \/ StopInterface
              \/ \E l \in Listener : UnRegister(l)
              \/ \E w \in Worker : GetInterface(w)
         /\ tasks' # tasks => \/ \E l \in Listener : StartReport(l)
                              \/ \E w \in Worker : RunTask(w)
         /\ retries' # retries =>
              Retry \/ \E t \in Registrar : GetNoManager(t) \/ ListenerRefused(t)
<1>1. CASE Inert
  BY <1>1 DEF Inert, outside, inFlight, pointers, flags
<1>2. CASE Environment
  BY <1>2 DEF Environment, ManagerStarts, ManagerDies, HdiStarts, HdiDies, Counted,
     TypeOK, Count, pointers, flags
<1>3. ASSUME NEW t \in Registrar, GetNoManager(t) \/ GetManager(t)
      PROVE  UNCHANGED <<outside, reports, notices, tasks, iBatteryInterface, flags>>
             /\ (GetManager(t) => UNCHANGED retries)
             /\ (GetNoManager(t) => UNCHANGED hdiServStatListener)
  BY <1>3 DEF GetNoManager, GetManager, inFlight
<1>4. ASSUME NEW t \in Registrar, RegisterListener(t)
      PROVE  UNCHANGED <<manager, hdi, counts, callback, notices, tasks, retries,
                         pointers, flags>>
  BY <1>4 DEF RegisterListener
<1>5. ASSUME NEW t \in Registrar, ListenerRefused(t)
      PROVE  /\ UNCHANGED <<manager, hdi, known, callback, reports, notices, tasks,
                            pointers, flags>>
             /\ counts'["manager"] = counts["manager"]
  BY <1>5 DEF ListenerRefused, Counted, TypeOK, Count
<1>6. CASE Retry
  BY <1>6 DEF Retry, outside, pointers, flags
<1>7. CASE OnStart
  BY <1>7 DEF OnStart, Counted, TypeOK, Count, inFlight, pointers, flags
<1>8. CASE OnStop
  BY <1>8 DEF OnStop, outside, inFlight, pointers
<1>9. CASE AddSystemAbilityListener
  BY <1>9 DEF AddSystemAbilityListener, outside, pointers
<1>10. CASE StopLock
  BY <1>10 DEF StopLock, outside, inFlight, pointers, flags
<1>11. CASE StopInterface
  BY <1>11 DEF StopInterface, inFlight, flags
<1>12. CASE StopWithoutManager
  BY <1>12 DEF StopWithoutManager, outside, inFlight, pointers, flags
<1>13. CASE TestManager
  BY <1>13 DEF TestManager, outside, inFlight, pointers, flags
<1>14. CASE UnregisterListener
  BY <1>14 DEF UnregisterListener, inFlight, flags
<1>15. CASE OnAddSystemAbility
  BY <1>15 DEF OnAddSystemAbility, outside, pointers, flags
<1>16. CASE OnRemoveSystemAbility
  BY <1>16 DEF OnRemoveSystemAbility, outside
<1>17. CASE ClearHdiRemove
  BY <1>17 DEF ClearHdiRemove, outside, inFlight, pointers
<1>18. ASSUME NEW l \in Listener
       PROVE  /\ StartReport(l) => UNCHANGED <<outside, notices, retries, pointers, flags>>
              /\ StopReport(l) =>
                   UNCHANGED <<outside, notices, tasks, retries, pointers, flags>>
              /\ UnRegister(l) =>
                   UNCHANGED <<manager, hdi, counts, known, inFlight, hdiServiceMgr,
                               hdiServStatListener, flags>>
  BY DEF StartReport, StopReport, UnRegister
<1>19. ASSUME NEW w \in Worker
       PROVE  /\ RunTask(w) =>
                   UNCHANGED <<outside, reports, notices, retries, pointers, flags>>
              /\ GetInterface(w) =>
                   UNCHANGED <<outside, inFlight, hdiServiceMgr, hdiServStatListener,
                               flags>>
              /\ RegisterCallback(w) =>
                   UNCHANGED <<manager, hdi, counts, known, inFlight, pointers, flags>>
  BY DEF RunTask, GetInterface, RegisterCallback
<1>20. CASE \E t \in Registrar : GetNoManager(t) \/ GetManager(t)
  BY <1>3, <1>20 DEF outside, flags
<1>21. CASE \E t \in Registrar : RegisterListener(t)
  BY <1>4, <1>21 DEF pointers, flags
<1>22. CASE \E t \in Registrar : ListenerRefused(t)
  BY <1>5, <1>22 DEF pointers, flags
<1>23. CASE \E l \in Listener : StartReport(l) \/ StopReport(l) \/ UnRegister(l)
  BY <1>18, <1>23 DEF outside, inFlight, pointers, flags
<1>24. CASE \E w \in Worker : RunTask(w) \/ GetInterface(w) \/ RegisterCallback(w)
  BY <1>19, <1>24 DEF outside, inFlight, pointers, flags
<1>. QED
  BY <1>1, <1>2, <1>6, <1>7, <1>8, <1>9, <1>10, <1>11, <1>12, <1>13, <1>14, <1>15,
     <1>16, <1>17, <1>20, <1>21, <1>22, <1>23, <1>24, Steps

LEMMA MainNext == IInv /\ [Next]_vars => MainInOrder'
<1> SUFFICES ASSUME IInv, [Next]_vars PROVE MainInOrder'
  OBVIOUS
<1>0. TypeOK /\ MutexIsHeld /\ MainInOrder
  BY DEF IInv
<1>a. {"main", "samgr"} \subseteq Thread /\ {"main", "samgr"} \subseteq Registrar
  BY DEF Thread, Registrar
<1>b. pc["main"] \in LabelsOf("main") /\ (pc["main"] \in Exclusive => writer = "main")
  BY <1>0, <1>a DEF MutexIsHeld
<1>1. ready' => subscribed' /\ pc'["main"] = "idle"
  <2>1. CASE AddSystemAbilityListener
    BY <1>0, <1>a, <2>1, Moves DEF AddSystemAbilityListener
  <2>2. CASE ready /\ subscribed /\ pc["main"] = "idle" /\ ~AddSystemAbilityListener
    <3>1. subscribed' = subscribed
      BY <1>0, <2>2, Changes
    <3>2. pc'["main"] = pc["main"] \/ OnStart \/ OnStop
      BY <1>0, <1>a, <2>2, OthersStay
      DEF RegisterStep, GetNoManager, GetManager, RegisterListener, ListenerRefused,
          StopStep, StopLock, StopInterface, StopWithoutManager, TestManager,
          UnregisterListener, Goto
    <3>. QED
      BY <2>2, <3>1, <3>2 DEF OnStart, OnStop
  <2>3. CASE ~ready /\ ready' /\ ~AddSystemAbilityListener
    BY <1>0, <2>3, Changes DEF OnStop, TypeOK
  <2>. QED
    BY <1>0, <2>1, <2>2, <2>3 DEF MainInOrder, Busy
<1>2. ASSUME ~subscribed'
      PROVE  /\ notices' = <<>> /\ ~isHdiRemove' /\ pc'["samgr"] = "idle"
             /\ pc'["main"] \in {"idle", "get", "use", "listen"}
             /\ pc'["main"] # "listen" => Silent'
  <2>1. ~AddSystemAbilityListener
    BY <1>2 DEF AddSystemAbilityListener
  <2>2. ~subscribed
    BY <1>0, <1>2, <2>1, Changes
  <2>3. /\ notices = <<>> /\ ~isHdiRemove /\ pc["samgr"] = "idle" /\ ~ready
        /\ pc["main"] \in {"idle", "get", "use", "listen"}
        /\ pc["main"] # "listen" => Silent
    BY <1>0, <2>2 DEF MainInOrder, Busy
  <2>4. /\ ~OnAddSystemAbility /\ ~OnRemoveSystemAbility /\ ~ClearHdiRemove
        /\ ~OnStop /\ ~StopStep
    BY <2>3 DEF OnAddSystemAbility, OnRemoveSystemAbility, ClearHdiRemove, Take, OnStop,
       StopStep, StopLock, StopInterface, StopWithoutManager, TestManager,
       UnregisterListener, Goto
  <2>5. notices' = <<>> /\ isHdiRemove' = isHdiRemove
    <3>1. ManagerStarts \/ ManagerDies => notices' = notices
      BY <2>2 DEF ManagerStarts, ManagerDies, Notify
    <3>. QED
      BY <1>0, <2>1, <2>3, <2>4, <3>1, Changes
  <2>6. pc'["samgr"] = "idle"
    BY <1>0, <1>a, <2>3, <2>4, OthersStay
    DEF RegisterStep, GetNoManager, GetManager, RegisterListener, ListenerRefused, Goto
  <2>7. pc'["main"] = pc["main"] \/ RegisterStep("main") \/ OnStart
    BY <1>0, <1>a, <2>1, <2>4, OthersStay
  <2>8. RegisterStep("main") => pc'["main"] \in {"use", "listen"} /\ pc["main"] # "listen"
    BY <1>0, <1>a, Moves
    DEF RegisterStep, GetNoManager, GetManager, RegisterListener, ListenerRefused,
        AfterRegister, Goto
  <2>9. OnStart => pc'["main"] = "get" /\ pc["main"] # "listen"
    BY <1>0, <1>a, Moves DEF OnStart, Goto
  <2>10. ASSUME pc'["main"] # "listen" PROVE Silent'
    <3>1. Silent
      BY <2>3, <2>7, <2>8, <2>9, <2>10
    <3>2. ~Occurs("remove", notices)
      BY <2>3 DEF Occurs
    <3>3. ~(RegisterListener("main") \/ ListenerRefused("main") \/ GetNoManager("main"))
      BY <1>0, <1>a, <2>10, Moves
      DEF RegisterListener, ListenerRefused, GetNoManager, AfterRegister
    <3>. QED
      BY <1>0, <2>3, <3>1, <3>2, <3>3, SilentStays
  <2>. QED
    BY <2>3, <2>5, <2>6, <2>7, <2>8, <2>9, <2>10
<1>3. ASSUME pc'["main"] \in {"dropManager", "dropListener"} PROVE iBatteryInterface' = 0
  <2>1. CASE pc["main"] \in {"dropManager", "dropListener"}
    <3>1. iBatteryInterface = 0 /\ writer = "main"
      BY <1>0, <1>b, <2>1 DEF MainInOrder, Exclusive
    <3>2. ASSUME NEW w \in Worker PROVE ~GetInterface(w)
      BY <3>1, ThreadsOfAKind, ThreadAssumption DEF GetInterface, MayLock
    <3>3. OnRemoveSystemAbility => iBatteryInterface' = 0
      BY <3>1 DEF OnRemoveSystemAbility
    <3>. QED
      BY <1>0, <3>1, <3>2, <3>3, Changes DEF StopInterface, UnRegister, DropInterface
  <2>2. CASE pc["main"] \notin {"dropManager", "dropListener"}
    <3>1. \/ RegisterStep("main") \/ OnStart \/ OnStop
          \/ AddSystemAbilityListener \/ StopStep
      BY <1>0, <1>3, <1>a, <2>2, OthersStay
    <3>2. \/ RegisterStep("main") \/ OnStart \/ OnStop \/ AddSystemAbilityListener
            => pc'["main"] \in {"get", "use", "listen", "lock", "idle"}
      BY <1>0, <1>a, Moves
      DEF RegisterStep, GetNoManager, GetManager, RegisterListener, ListenerRefused,
          AfterRegister, OnStart, OnStop, AddSystemAbilityListener
    <3>3. StopStep
      BY <1>3, <3>1, <3>2
    <3>. QED
      BY <1>0, <1>3, <1>a, <2>2, <3>3, Moves
      DEF StopStep, StopLock, StopInterface, StopWithoutManager, TestManager,
          UnregisterListener, DropInterface, pointers, Goto
  <2>. QED
    BY <2>1, <2>2
<1>. QED
  BY <1>1, <1>2, <1>3 DEF MainInOrder, Busy

-----------------------------------------------------------------------------
(***************************************************************************)
(* NoticesInOrder.                                                         *)
(***************************************************************************)
Alternates(queue) == \A i \in DOMAIN queue : i > 1 => queue[i] # queue[i - 1]

LEMMA AppendAlternates ==
  ASSUME NEW S, NEW q \in Seq(S), NEW x \in S, Alternates(q), ~EndsWith(q, x)
  PROVE  Alternates(Append(q, x))
<1>1. /\ Len(q) \in Nat /\ DOMAIN q = 1 .. Len(q)
      /\ DOMAIN Append(q, x) = 1 .. Len(q) + 1
      /\ \A i \in 1 .. Len(q) : Append(q, x)[i] = q[i]
      /\ Append(q, x)[Len(q) + 1] = x
  OBVIOUS
<1>2. Len(q) > 0 => q[Len(q)] # x
  BY <1>1, EmptySeq DEF EndsWith
<1>. QED
  BY <1>1, <1>2 DEF Alternates

LEMMA TailAlternates ==
  ASSUME NEW S, NEW q \in Seq(S), q # <<>>, Alternates(q)
  PROVE  Alternates(Tail(q)) /\ (Tail(q) # <<>> => Tail(q)[1] # Head(q))
<1>1. /\ Len(q) \in Nat /\ Len(q) > 0 /\ DOMAIN q = 1 .. Len(q)
      /\ DOMAIN Tail(q) = 1 .. Len(q) - 1
      /\ \A i \in 1 .. Len(q) - 1 : Tail(q)[i] = q[i + 1]
      /\ Head(q) = q[1]
  OBVIOUS
<1>2. Tail(q) \in Seq(S) /\ Len(Tail(q)) = Len(q) - 1
  OBVIOUS
<1>3. Tail(q) # <<>> => Len(Tail(q)) # 0
  BY <1>2, EmptySeq
<1>4. Alternates(Tail(q))
  <2>. SUFFICES ASSUME NEW i \in 1 .. Len(q) - 1, i > 1
                PROVE  Tail(q)[i] # Tail(q)[i - 1]
    BY <1>1 DEF Alternates
  <2>1. i - 1 \in 1 .. Len(q) - 1 /\ (i - 1) + 1 = i
    BY <1>1
  <2>2. Tail(q)[i] = q[i + 1] /\ Tail(q)[i - 1] = q[i]
    BY <1>1, <2>1
  <2>3. i + 1 \in DOMAIN q /\ i + 1 > 1 /\ (i + 1) - 1 = i
    BY <1>1
  <2>4. q[i + 1] # q[(i + 1) - 1]
    BY <2>3 DEF Alternates
  <2>. QED
    BY <2>2, <2>3, <2>4
<1>5. ASSUME Tail(q) # <<>> PROVE Tail(q)[1] # Head(q)
  <2>1. Len(q) > 1
    BY <1>1, <1>2, <1>3, <1>5
  <2>2. 2 \in DOMAIN q /\ Tail(q)[1] = q[2]
    BY <1>1, <2>1
  <2>3. 2 > 1 /\ 2 - 1 = 1
    OBVIOUS
  <2>4. q[2] # q[2 - 1]
    BY <2>2, <2>3 DEF Alternates
  <2>. QED
    BY <1>1, <2>2, <2>3, <2>4
<1>. QED
  BY <1>4, <1>5

LEMMA NoticesNext == IInv /\ [Next]_vars => NoticesInOrder'
<1> SUFFICES ASSUME IInv, [Next]_vars PROVE NoticesInOrder'
  OBVIOUS
<1>0. TypeOK /\ MainInOrder /\ NoticesInOrder
  BY DEF IInv
<1>a. "samgr" \in Thread /\ "samgr" \in Registrar
  BY DEF Thread, Registrar
<1>b. /\ manager \in {0, counts["manager"]}
      /\ hdi # 0 \/ known # {} => manager # 0
      /\ Alternates(notices)
      /\ notices # <<>> => (EndsWith(notices, "add") <=> manager # 0)
      /\ isHdiRemove /\ pc["samgr"] = "idle" =>
           IF notices = <<>> THEN manager = 0 ELSE notices[1] = "add"
  BY <1>0 DEF NoticesInOrder, Alternates, Busy
<1>c. /\ notices \in Seq({"add", "remove"})
      /\ "add" \in {"add", "remove"} /\ "remove" \in {"add", "remove"}
  BY <1>0 DEF TypeOK
<1>d. SUFFICES
        /\ manager' \in {0, counts'["manager"]}
        /\ hdi' # 0 \/ known' # {} => manager' # 0
        /\ Alternates(notices')
        /\ notices' # <<>> => (EndsWith(notices', "add") <=> manager' # 0)
        /\ isHdiRemove' /\ pc'["samgr"] = "idle" =>
             IF notices' = <<>> THEN manager' = 0 ELSE notices'[1] = "add"
  BY DEF NoticesInOrder, Alternates, Busy
<1>e. ASSUME NEW x \in {"add", "remove"}, notices # <<>> => ~EndsWith(notices, x)
      PROVE  Alternates(Append(notices, x))
  BY <1>b, <1>c, <1>e, AppendAlternates DEF EndsWith
<1>f. ASSUME NEW x \in {"add", "remove"}, notices = <<>>
      PROVE  Append(notices, x)[1] = x
  BY <1>f
<1>g. ASSUME NEW x \in {"add", "remove"}, notices # <<>>
      PROVE  Append(notices, x)[1] = notices[1]
  <2>1. Len(notices) > 0
    BY <1>c, <1>g, EmptySeq
  <2>. QED
    BY <1>c, <2>1
<1>h. ASSUME NEW x \in {"add", "remove"}
      PROVE  Append(notices, x) # <<>> /\ (EndsWith(Append(notices, x), "add") <=> x = "add")
  BY <1>c, AppendEnds
<1>1. CASE ManagerStarts
  <2>1. /\ manager = 0 /\ manager' = counts'["manager"] /\ manager' # 0
        /\ notices' = notices \/ notices' = Append(notices, "add")
        /\ ~subscribed => notices' = notices
        /\ subscribed => notices' = Append(notices, "add")
        /\ UNCHANGED <<hdi, known, isHdiRemove, pc>>
    <3>1. counts'["manager"] \in 1 .. Count["manager"]
      BY <1>0, <1>1, CountedType DEF ManagerStarts
    <3>. QED
      BY <1>1, <3>1 DEF ManagerStarts, Notify, flags
  <2>2. CASE subscribed
    <3>1. Alternates(notices')
      BY <1>b, <1>e, <2>1, <2>2
    <3>2. notices' # <<>> /\ EndsWith(notices', "add")
      BY <1>h, <2>1, <2>2
    <3>3. isHdiRemove /\ pc["samgr"] = "idle" => notices'[1] = "add"
      BY <1>b, <1>f, <1>g, <2>1, <2>2
    <3>. QED
      BY <1>b, <2>1, <3>1, <3>2, <3>3
  <2>3. CASE ~subscribed
    <3>1. notices = <<>> /\ ~isHdiRemove
      BY <1>0, <2>3 DEF MainInOrder
    <3>. QED
      BY <1>b, <2>1, <2>3, <3>1
  <2>. QED
    BY <2>2, <2>3
<1>2. CASE ManagerDies
  <2>1. /\ manager # 0 /\ manager' = 0 /\ hdi' = 0 /\ known' = {}
        /\ ~subscribed => notices' = notices
        /\ subscribed => notices' = Append(notices, "remove")
        /\ UNCHANGED <<counts, isHdiRemove, pc>>
    BY <1>2 DEF ManagerDies, Notify, flags
  <2>2. CASE subscribed
    <3>1. notices # <<>> => ~EndsWith(notices, "remove")
      BY <1>b, <2>1 DEF EndsWith
    <3>2. Alternates(notices')
      BY <1>b, <1>e, <2>1, <2>2, <3>1
    <3>3. notices' # <<>> /\ ~EndsWith(notices', "add")
      BY <1>h, <2>1, <2>2
    <3>4. isHdiRemove /\ pc["samgr"] = "idle" => notices'[1] = "add"
      BY <1>b, <1>g, <2>1, <2>2
    <3>. QED
      BY <2>1, <3>2, <3>3, <3>4
  <2>3. CASE ~subscribed
    <3>1. notices = <<>> /\ ~isHdiRemove
      BY <1>0, <2>3 DEF MainInOrder
    <3>. QED
      BY <1>b, <2>1, <2>3, <3>1
  <2>. QED
    BY <2>2, <2>3
<1>3. CASE AddSystemAbilityListener
  <2>1. /\ UNCHANGED <<manager, hdi, counts, known, isHdiRemove>>
        /\ pc'["samgr"] = pc["samgr"]
        /\ notices' = IF ~subscribed /\ manager # 0 THEN Append(notices, "add")
                                                    ELSE notices
    BY <1>0, <1>3, <1>a, Moves DEF AddSystemAbilityListener, outside, Thread, Registrar
  <2>2. CASE ~subscribed /\ manager # 0
    <3>1. notices = <<>> /\ ~isHdiRemove
      BY <1>0, <2>2 DEF MainInOrder
    <3>2. notices' # <<>> /\ EndsWith(notices', "add")
      BY <1>h, <2>1, <2>2
    <3>3. Alternates(notices')
      BY <1>e, <2>1, <2>2, <3>1
    <3>. QED
      BY <1>b, <2>1, <2>2, <3>1, <3>2, <3>3
  <2>3. CASE ~(~subscribed /\ manager # 0)
    BY <1>b, <2>1, <2>3
  <2>. QED
    BY <2>2, <2>3
<1>4. CASE OnAddSystemAbility \/ OnRemoveSystemAbility
  <2>1. /\ UNCHANGED <<manager, hdi, counts, known>>
        /\ notices # <<>> /\ notices' = Tail(notices)
        /\ pc["samgr"] = "idle"
    BY <1>4 DEF OnAddSystemAbility, OnRemoveSystemAbility, Take, Goto, outside
  <2>2. /\ Alternates(notices')
        /\ notices' # <<>> => notices'[1] # Head(notices)
    BY <1>b, <1>c, <2>1, TailAlternates
  <2>3. /\ notices' \in Seq({"add", "remove"})
        /\ Head(notices) = notices[1]
        /\ notices' # <<>> => (EndsWith(notices', "add") <=> EndsWith(notices, "add"))
        /\ notices' = <<>> => (EndsWith(notices, "add") <=> "add" = Head(notices))
        /\ notices' # <<>> => notices'[1] \in {"add", "remove"}
    <3>1. notices' \in Seq({"add", "remove"})
      BY <1>c, <2>1, TailEnds
    <3>2. notices' # <<>> => Head(notices') = notices'[1] /\ Head(notices') \in {"add", "remove"}
      BY <3>1, TailEnds
    <3>. QED
      BY <1>c, <2>1, <3>1, <3>2, TailEnds
  <2>4. CASE OnAddSystemAbility
    <3>1. /\ isHdiRemove' = isHdiRemove
          /\ isHdiRemove => pc'["samgr"] = "get"
      BY <1>0, <1>a, <2>4, Moves DEF OnAddSystemAbility, flags
    <3>. QED
      BY <1>b, <2>1, <2>2, <2>3, <3>1
  <2>5. CASE OnRemoveSystemAbility
    <3>1. Head(notices) = "remove"
      BY <2>5 DEF OnRemoveSystemAbility, Take
    <3>2. notices' # <<>> => notices'[1] = "add"
      BY <2>2, <2>3, <3>1
    <3>3. notices' = <<>> => manager = 0
      BY <1>b, <2>1, <2>3, <3>1
    <3>. QED
      BY <1>b, <2>1, <2>2, <2>3, <3>2, <3>3
  <2>. QED
    BY <1>4, <2>4, <2>5
<1>5. CASE /\ ~ManagerStarts /\ ~ManagerDies /\ ~AddSystemAbilityListener
           /\ ~OnAddSystemAbility /\ ~OnRemoveSystemAbility
  <2>1. /\ manager' = manager /\ counts'["manager"] = counts["manager"]
        /\ notices' = notices
        /\ isHdiRemove' # isHdiRemove => ClearHdiRemove
    BY <1>0, <1>5, Changes
  <2>2. hdi' # 0 => manager # 0
    BY <1>0, <1>5, <1>b, Changes DEF HdiStarts, HdiDies
  <2>3. known' # {} => manager # 0
    BY <1>0, <1>5, <1>b, Changes DEF UnregisterListener, RegisterListener
  <2>4. ASSUME isHdiRemove', pc'["samgr"] = "idle"
        PROVE  isHdiRemove /\ pc["samgr"] = "idle"
    <3>1. ~ClearHdiRemove
      BY <2>4 DEF ClearHdiRemove
    <3>2. ~RegisterStep("samgr")
      BY <1>0, <1>a, <2>4, Moves
      DEF RegisterStep, GetNoManager, GetManager, RegisterListener, ListenerRefused,
          AfterRegister
    <3>. QED
      BY <1>0, <1>5, <1>a, <2>1, <2>4, <3>1, <3>2, OthersStay
  <2>. QED
    BY <1>b, <2>1, <2>2, <2>3, <2>4
<1>. QED
  BY <1>1, <1>2, <1>3, <1>4, <1>5

-----------------------------------------------------------------------------
(***************************************************************************)
(* ReportsInOrder.                                                         *)
(***************************************************************************)
LEMMA ReportsMove ==
  ASSUME TypeOK, [Next]_vars, NEW l \in Listener
  PROVE  \/ reports'[l] = reports[l] /\ ~StartReport(l) /\ ~StopReport(l)
            /\ ~(HdiStarts /\ l \in known)
            /\ ~(hdi # 0 /\ l = hdiServStatListener /\ l \notin known
                   /\ \E t \in Registrar : RegisterListener(t))
         \/ /\ reports'[l] = Append(reports[l], "START")
            /\ ~StartReport(l) /\ ~StopReport(l)
            /\ \/ HdiStarts /\ l \in known
               \/ l = hdiServStatListener /\ \E t \in Registrar : RegisterListener(t)
         \/ /\ reports'[l] = Append(reports[l], "STOP")
            /\ ~StartReport(l) /\ ~StopReport(l)
            /\ HdiDies /\ ~HdiStarts /\ l \in known
         \/ /\ StartReport(l) /\ ~StopReport(l) /\ ~HdiStarts
            /\ reports[l] # <<>> /\ Head(reports[l]) = "START"
            /\ reports'[l] = Tail(reports[l])
         \/ /\ StopReport(l) /\ ~StartReport(l) /\ ~HdiStarts
            /\ reports[l] # <<>> /\ Head(reports[l]) = "STOP"
            /\ reports'[l] = Tail(reports[l])
<1>0. reports \in [Listener -> Seq({"START", "STOP"})]
  BY DEF TypeOK
<1>h. (HdiStarts => hdi = 0) /\ (HdiDies => hdi # 0)
  BY DEF HdiStarts, HdiDies
<1>t. ASSUME NEW t \in Registrar, RegisterListener(t)
      PROVE  tasks' = tasks /\ pc'[t] # pc[t]
  BY <1>t, Moves, ThreadsOfAKind DEF RegisterListener, AfterRegister
<1>k. HdiStarts \/ HdiDies => tasks' = tasks /\ pc' = pc /\ hdi' # hdi
  <2>1. HdiStarts => hdi' # hdi
    <3>1. HdiStarts => counts'["hdi"] \in 1 .. Count["hdi"]
      BY CountedType DEF HdiStarts
    <3>. QED
      BY <3>1 DEF HdiStarts
  <2>. QED
    BY <2>1 DEF HdiStarts, HdiDies
<1>r. ASSUME NEW k \in Listener, NEW report, Receive(k, report)
      PROVE  /\ reports[k] # <<>> /\ Head(reports[k]) = report
             /\ reports'[k] = Tail(reports[k])
             /\ \A m \in Listener \ {k} : reports'[m] = reports[m]
  BY <1>0, <1>r DEF Receive
<1>s. ASSUME NEW k \in Listener, StartReport(k) \/ StopReport(k)
      PROVE  /\ hdi' = hdi
             /\ \A t \in Registrar : pc'[t] = pc[t]
             /\ Head(reports[k]) = IF StartReport(k) THEN "START" ELSE "STOP"
             /\ StartReport(k) => ~StopReport(k)
  BY <1>r, <1>s, Moves, ThreadsOfAKind DEF StartReport, StopReport, outside
<1>u. ASSUME NEW k \in Listener, StartReport(k) \/ StopReport(k)
      PROVE  reports' # reports
  <2>1. reports[k] \in Seq({"START", "STOP"}) /\ reports[k] # <<>>
    BY <1>0, <1>r, <1>u DEF StartReport, StopReport
  <2>2. Len(Tail(reports[k])) # Len(reports[k])
    BY <2>1
  <2>. QED
    BY <1>r, <1>u, <2>2 DEF StartReport, StopReport
<1>1. CASE HdiStarts
  <2>1. ~StartReport(l) /\ ~StopReport(l) /\ ~HdiDies
    BY <1>1, <1>h, <1>k, <1>s
  <2>2. reports'[l] = IF l \in known THEN Append(reports[l], "START") ELSE reports[l]
    BY <1>1 DEF HdiStarts, Tell
  <2>. QED
    BY <1>1, <1>h, <2>1, <2>2
<1>2. CASE HdiDies
  <2>1. ~StartReport(l) /\ ~StopReport(l) /\ ~HdiStarts
    BY <1>2, <1>h, <1>k, <1>s
  <2>2. reports'[l] = IF l \in known THEN Append(reports[l], "STOP") ELSE reports[l]
    BY <1>2 DEF HdiDies, Tell
  <2>3. ~\E t \in Registrar : RegisterListener(t)
    BY <1>2, <1>k, <1>t
  <2>. QED
    BY <1>2, <2>1, <2>2, <2>3
<1>3. CASE \E t \in Registrar : RegisterListener(t)
  <2>1. ~StartReport(l) /\ ~StopReport(l) /\ ~HdiStarts
    BY <1>3, <1>k, <1>s, <1>t
  <2>2. reports'[l] = IF hdi # 0 /\ l = hdiServStatListener /\ l \notin known
                      THEN Append(reports[l], "START") ELSE reports[l]
    BY <1>3 DEF RegisterListener, Tell
  <2>. QED
    BY <1>3, <2>1, <2>2
<1>4. CASE \E k \in Listener : StartReport(k) \/ StopReport(k)
  <2>1. PICK k \in Listener : StartReport(k) \/ StopReport(k)
    BY <1>4
  <2>2. ~HdiStarts /\ ~\E t \in Registrar : RegisterListener(t)
    BY <1>k, <1>s, <1>t, <2>1
  <2>3. CASE k = l
    BY <1>r, <1>s, <2>1, <2>2, <2>3 DEF StartReport, StopReport
  <2>4. CASE k # l
    <3>1. reports'[l] = reports[l]
      BY <1>r, <2>1, <2>4 DEF StartReport, StopReport
    <3>2. ~StartReport(l) /\ ~StopReport(l)
      <4>1. reports[l] \in Seq({"START", "STOP"})
        BY <1>0
      <4>2. StartReport(l) \/ StopReport(l) => reports[l] # <<>> /\ reports'[l] = Tail(reports[l])
        BY <1>r DEF StartReport, StopReport
      <4>3. reports[l] # <<>> => Len(Tail(reports[l])) # Len(reports[l])
        BY <4>1
      <4>. QED
        BY <3>1, <4>2, <4>3
    <3>. QED
      BY <2>2, <3>1, <3>2
  <2>. QED
    BY <2>3, <2>4
<1>5. CASE reports' = reports /\ ~HdiStarts /\ ~HdiDies
           /\ ~\E t \in Registrar : RegisterListener(t)
  BY <1>5, <1>u
<1>. QED
  BY <1>1, <1>2, <1>3, <1>4, <1>5, Changes

(***************************************************************************)
(* While main is on its way through OnStart or OnStop it stays active, or  *)
(* inactive.                                                               *)
(***************************************************************************)
LEMMA ActiveOnce ==
  ASSUME TypeOK, MainInOrder, [Next]_vars, Active', ~Active
  PROVE  OnStart /\ pc'["main"] = "get"
<1>0. "main" \in Thread /\ "main" \in Registrar
  BY DEF Thread, Registrar
<1>1. ~ready /\ pc["main"] \notin {"get", "use", "listen"}
  BY DEF Active
<1>2. ~ready'
  BY <1>1, Changes DEF AddSystemAbilityListener, OnStop, Goto
<1>3. pc'["main"] \in {"get", "use", "listen"}
  BY <1>2 DEF Active
<1>4. RegisterStep("main") \/ OnStart \/ OnStop \/ AddSystemAbilityListener \/ StopStep
  BY <1>0, <1>1, <1>3, OthersStay
<1>5. ASSUME NEW from, NEW to, Goto("main", from, to)
      PROVE  pc["main"] = from /\ pc'["main"] = to
  BY <1>0, <1>5, Moves
<1>6. ~RegisterStep("main") /\ ~AddSystemAbilityListener
  BY <1>1, <1>5 DEF RegisterStep, GetNoManager, GetManager, RegisterListener,
                    ListenerRefused, AddSystemAbilityListener
<1>7. ~OnStop /\ ~StopStep
  BY <1>3, <1>5 DEF OnStop, StopStep, StopLock, StopInterface, StopWithoutManager,
                    TestManager, UnregisterListener
<1>. QED
  BY <1>4, <1>5, <1>6, <1>7 DEF OnStart

LEMMA ReportsKeep ==
  ASSUME TypeOK, [Next]_vars, NEW l \in Listener
  PROVE  /\ EndsWith(reports[l], "START") =>
              \/ EndsWith(reports'[l], "START") \/ HdiDies
              \/ StartReport(l) /\ reports'[l] = <<>>
         /\ Occurs("STOP", reports[l]) => Occurs("STOP", reports'[l]) \/ StopReport(l)
         /\ Occurs("STOP", reports'[l]) => Occurs("STOP", reports[l]) \/ HdiDies
         /\ HdiStarts /\ l \in known => EndsWith(reports'[l], "START")
         /\ (hdi # 0 /\ l = hdiServStatListener /\ l \notin known
               /\ \E t \in Registrar : RegisterListener(t))
              => EndsWith(reports'[l], "START")
         /\ HdiDies /\ l \in known => Occurs("STOP", reports'[l])
         /\ StopReport(l) => Occurs("STOP", reports[l])
         /\ reports'[l] # <<>> =>
              \/ reports[l] # <<>> \/ l \in known
              \/ l = hdiServStatListener /\ \E t \in Registrar : RegisterListener(t)
<1>0. reports[l] \in Seq({"START", "STOP"})
  BY DEF TypeOK
<1>1. ASSUME NEW x \in {"START", "STOP"}
      PROVE  /\ EndsWith(Append(reports[l], x), "START") <=> x = "START"
             /\ Occurs("STOP", Append(reports[l], x))
                  <=> Occurs("STOP", reports[l]) \/ x = "STOP"
  BY <1>0, AppendEnds
<1>2. ASSUME reports[l] # <<>>
      PROVE  /\ EndsWith(reports[l], "START") /\ Tail(reports[l]) # <<>>
                  <=> EndsWith(Tail(reports[l]), "START")
             /\ Tail(reports[l]) = <<>> =>
                  (EndsWith(reports[l], "START") <=> "START" = Head(reports[l]))
             /\ Occurs("STOP", reports[l])
                  <=> "STOP" = Head(reports[l]) \/ Occurs("STOP", Tail(reports[l]))
  BY <1>0, <1>2, TailEnds
<1>3. ASSUME HdiDies PROVE ~\E t \in Registrar : RegisterListener(t)
  BY <1>3, Moves, ThreadsOfAKind DEF HdiDies, RegisterListener, AfterRegister
<1>4. HdiDies => ~HdiStarts
  BY DEF HdiDies, HdiStarts
<1>5. HdiDies /\ l \in known => reports'[l] = Append(reports[l], "STOP")
  BY DEF HdiDies, Tell
<1>6. CASE reports'[l] = reports[l] /\ ~StartReport(l) /\ ~StopReport(l)
           /\ ~(HdiStarts /\ l \in known)
           /\ ~(hdi # 0 /\ l = hdiServStatListener /\ l \notin known
                   /\ \E t \in Registrar : RegisterListener(t))
  <2>1. HdiDies /\ l \in known => Occurs("STOP", reports'[l])
    BY <1>1, <1>5
  <2>. QED
    BY <1>6, <2>1
<1>7. CASE /\ reports'[l] = Append(reports[l], "START")
           /\ ~StartReport(l) /\ ~StopReport(l)
           /\ \/ HdiStarts /\ l \in known
              \/ l = hdiServStatListener /\ \E t \in Registrar : RegisterListener(t)
  <2>1. ~HdiDies
    BY <1>3, <1>4, <1>7
  <2>. QED
    BY <1>1, <1>7, <2>1
<1>8. CASE /\ reports'[l] = Append(reports[l], "STOP")
           /\ ~StartReport(l) /\ ~StopReport(l)
           /\ HdiDies /\ ~HdiStarts /\ l \in known
  BY <1>1, <1>3, <1>8
<1>9. ASSUME StartReport(l) \/ StopReport(l) PROVE ~HdiDies /\ ~\E t \in Registrar : RegisterListener(t)
  BY <1>9, Moves, ThreadsOfAKind
  DEF StartReport, StopReport, RegisterListener, AfterRegister, HdiDies, Goto, outside
<1>10. CASE /\ StartReport(l) /\ ~StopReport(l) /\ ~HdiStarts
            /\ reports[l] # <<>> /\ Head(reports[l]) = "START"
            /\ reports'[l] = Tail(reports[l])
  <2>1. EndsWith(reports[l], "START") => EndsWith(reports'[l], "START") \/ reports'[l] = <<>>
    BY <1>2, <1>10
  <2>2. Occurs("STOP", reports[l]) <=> Occurs("STOP", reports'[l])
    BY <1>2, <1>10
  <2>. QED
    BY <1>9, <1>10, <2>1, <2>2
<1>11. CASE /\ StopReport(l) /\ ~StartReport(l) /\ ~HdiStarts
            /\ reports[l] # <<>> /\ Head(reports[l]) = "STOP"
            /\ reports'[l] = Tail(reports[l])
  <2>1. EndsWith(reports[l], "START") => EndsWith(reports'[l], "START")
    BY <1>2, <1>11
  <2>2. Occurs("STOP", reports[l])
    BY <1>2, <1>11
  <2>. QED
    BY <1>2, <1>9, <1>11, <2>1, <2>2
<1>. QED
  BY <1>6, <1>7, <1>8, <1>10, <1>11, ReportsMove

LEMMA ReportsNext == IInv /\ [Next]_vars => ReportsInOrder'
<1> SUFFICES ASSUME IInv, [Next]_vars PROVE ReportsInOrder'
  OBVIOUS
<1>0. TypeOK /\ MainInOrder /\ NoticesInOrder /\ ReportsInOrder
  BY DEF IInv
<1>a. "main" \in Thread /\ "main" \in Registrar
  BY DEF Thread, Registrar
<1>1. ASSUME hdi' # 0, NEW l \in known',
             pc'[l] = "unregister" \/ Occurs("STOP", reports'[l])
      PROVE  EndsWith(reports'[l], "START")
  <2>0. l \in Listener /\ l \in Thread
    BY <1>0, <1>1, TypeNext, ThreadsOfAKind DEF TypeOK
  <2>1. ~HdiDies /\ ~ManagerDies
    BY <1>1 DEF HdiDies, ManagerDies
  <2>2. CASE HdiStarts
    <3>1. known' = known
      BY <2>2 DEF HdiStarts
    <3>. QED
      BY <1>0, <1>1, <2>0, <2>2, <3>1, ReportsKeep
  <2>3. CASE ~HdiStarts
    <3>1. hdi' = hdi
      BY <1>0, <2>1, <2>3, Changes
    <3>2. CASE l \in known
      <4>1. pc[l] = "unregister" \/ Occurs("STOP", reports[l])
        <5>1. pc'[l] = "unregister" => pc[l] = "unregister" \/ StopReport(l)
          BY <1>0, <2>0, Moves, OthersStay DEF UnRegister
        <5>. QED
          BY <1>0, <1>1, <2>0, <2>1, <5>1, ReportsKeep
      <4>2. EndsWith(reports[l], "START")
        BY <1>0, <1>1, <3>1, <3>2, <4>1 DEF ReportsInOrder
      <4>3. ASSUME StartReport(l) PROVE reports'[l] # <<>>
        <5>1. pc'[l] = "idle"
          BY <1>0, <2>0, <4>3, Moves DEF StartReport
        <5>2. Occurs("STOP", reports'[l])
          BY <1>1, <5>1
        <5>. QED
          BY <5>2 DEF Occurs
      <4>. QED
        BY <1>0, <2>0, <2>1, <4>2, <4>3, ReportsKeep
    <3>3. CASE l \notin known
      <4>1. PICK t \in Registrar : RegisterListener(t)
        BY <1>0, <1>1, <2>1, <3>3, Changes DEF UnregisterListener
      <4>2. l = hdiServStatListener
        BY <1>1, <3>3, <4>1 DEF RegisterListener
      <4>. QED
        BY <1>0, <1>1, <2>0, <3>1, <3>3, <4>1, <4>2, ReportsKeep
    <3>. QED
      BY <3>2, <3>3
  <2>. QED
    BY <2>2, <2>3
<1>2. ASSUME NEW l \in Listener \ known', l = hdiServStatListener', reports'[l] # <<>>
      PROVE  known' = {} \/ ~Active' \/ pc'["main"] = "get"
  <2>0. SUFFICES ASSUME known' # {}, Active', pc'["main"] # "get"
                 PROVE  FALSE
    OBVIOUS
  <2>1. ~ManagerDies
    BY <2>0 DEF ManagerDies
  <2>2. ~UnregisterListener
    <3>1. UnregisterListener => ~ready /\ ready' = ready /\ pc'["main"] = "idle"
      BY <1>0, <1>a, Moves DEF UnregisterListener, MainInOrder, Goto, Busy, flags
    <3>. QED
      BY <2>0, <3>1 DEF Active
  <2>3. ASSUME NEW t \in Registrar, GetManager(t) PROVE FALSE
    <3>1. reports' = reports /\ Unused(l)
      BY <1>2, <2>3 DEF GetManager, inFlight
    <3>. QED
      BY <1>2, <3>1 DEF Unused
  <2>4. hdiServStatListener' = hdiServStatListener
    BY <1>0, <2>3, Changes
  <2>5. ASSUME NEW t \in Registrar, RegisterListener(t) PROVE FALSE
    BY <1>2, <2>4, <2>5 DEF RegisterListener
  <2>6. known' = known
    BY <1>0, <2>1, <2>2, <2>5, Changes
  <2>7. reports[l] # <<>>
    BY <1>0, <1>2, <2>5, <2>6, ReportsKeep
  <2>8. ~Active \/ pc["main"] = "get"
    BY <1>0, <1>2, <2>0, <2>4, <2>6, <2>7 DEF ReportsInOrder
  <2>9. CASE pc["main"] = "get"
    <3>1. RegisterStep("main")
      BY <1>0, <1>a, <2>0, <2>9, OthersStay
      DEF OnStart, OnStop, AddSystemAbilityListener, StopStep, StopLock, StopInterface,
          StopWithoutManager, TestManager, UnregisterListener, Goto
    <3>2. GetNoManager("main")
      BY <1>a, <2>3, <2>9, <3>1 DEF RegisterStep, RegisterListener, ListenerRefused, Goto
    <3>3. known = {}
      BY <1>0, <3>2 DEF GetNoManager, NoticesInOrder
    <3>. QED
      BY <2>0, <2>6, <3>3
  <2>10. CASE ~Active /\ pc["main"] # "get"
    BY <1>0, <2>0, <2>10, ActiveOnce
  <2>. QED
    BY <2>8, <2>9, <2>10
<1>. QED
  BY <1>1, <1>2 DEF ReportsInOrder

-----------------------------------------------------------------------------
(***************************************************************************)
(* ServiceIsDue.                                                           *)
(***************************************************************************)

(***************************************************************************)
(* A registration that is due stays so until it is done.                   *)
(***************************************************************************)
LEMMA DueStays ==
  ASSUME TypeOK, NoticesInOrder, [Next]_vars, Registering \/ WillRegister
  PROVE  \/ Registering' \/ WillRegister'
         \/ hdiServStatListener \notin known /\ \E t \in Registrar : RegisterListener(t)
<1>0. SUFFICES
        ASSUME ~(hdiServStatListener \notin known /\ \E t \in Registrar : RegisterListener(t))
        PROVE  Registering' \/ WillRegister'
  OBVIOUS
<1>a. /\ {"main", "samgr", "queue"} \subseteq Thread
      /\ {"main", "samgr", "queue"} = Registrar
  BY DEF Thread, Registrar
<1>b. retries \in Nat
  BY DEF TypeOK
<1>c. ASSUME NEW t \in Registrar, GetNoManager(t) \/ ListenerRefused(t)
      PROVE  Registering'
  BY <1>b, <1>c DEF GetNoManager, ListenerRefused, Registering
<1>d. ASSUME NEW t \in Registrar, GetManager(t)
      PROVE  Registering'
  <2>1. pc'[t] = "use" /\ hdiServStatListener' \notin known'
    BY <1>a, <1>d, Moves DEF GetManager, Unused, outside
  <2>. QED
    BY <2>1 DEF Registering
<1>e. OnRemoveSystemAbility => WillRegister'
  <2>1. OnRemoveSystemAbility => isHdiRemove' /\ pc'["samgr"] = "idle"
    BY <1>a, Moves DEF OnRemoveSystemAbility
  <2>. QED
    BY <2>1 DEF WillRegister
<1>1. CASE retries > 0
  <2>1. Retry => pc'["queue"] = "get"
    BY <1>a, Moves DEF Retry
  <2>2. Retry => Registering'
    BY <1>a, <2>1 DEF Registering
  <2>3. retries' = retries => Registering'
    BY <1>1 DEF Registering
  <2>. QED
    BY <1>c, <2>2, <2>3, Changes
<1>2. ASSUME NEW u \in Registrar, pc[u] = "get"
      PROVE  Registering'
  <2>1. pc'[u] = "get" => Registering'
    BY DEF Registering
  <2>2. pc'[u] = pc[u] \/ RegisterStep(u)
    BY <1>2, <1>a, OthersStay
    DEF Retry, OnAddSystemAbility, ClearHdiRemove, OnStart, OnStop,
        AddSystemAbilityListener, StopStep, StopLock, StopInterface, StopWithoutManager,
        TestManager, UnregisterListener, Goto
  <2>3. ~RegisterListener(u)
    BY <1>2 DEF RegisterListener, Goto
  <2>. QED
    BY <1>2, <1>c, <1>d, <2>1, <2>2, <2>3 DEF RegisterStep
<1>3. ASSUME NEW u \in Registrar, pc[u] = "use",
             hdiServStatListener \in known => hdiServiceMgr # manager
      PROVE  Registering' \/ WillRegister'
  <2>0. SUFFICES ASSUME /\ \A t \in Registrar : /\ ~GetNoManager(t) /\ ~ListenerRefused(t)
                                                 /\ ~GetManager(t)
                        /\ ~OnRemoveSystemAbility
                 PROVE  Registering'
    BY <1>c, <1>d, <1>e
  <2>1. ASSUME NEW t \in Registrar, RegisterListener(t) PROVE FALSE
    <3>1. hdiServiceMgr = manager /\ hdiServStatListener \in known
      BY <1>0, <2>1 DEF RegisterListener
    <3>. QED
      BY <1>3, <3>1
  <2>2. pc'[u] = "use"
    BY <1>3, <1>a, <2>0, <2>1, OthersStay
    DEF RegisterStep, Retry, OnAddSystemAbility, ClearHdiRemove, OnStart, OnStop,
        AddSystemAbilityListener, StopStep, StopLock, StopInterface, StopWithoutManager,
        TestManager, UnregisterListener, Goto
  <2>3. hdiServStatListener' = hdiServStatListener
    BY <2>0, Changes
  <2>4. hdiServStatListener' \in known' => hdiServiceMgr' # manager'
    <3>1. CASE ManagerStarts
      <4>1. known' = {}
        BY <3>1 DEF ManagerStarts, NoticesInOrder
      <4>. QED
        BY <4>1
    <3>2. CASE ManagerDies
      BY <3>2 DEF ManagerDies
    <3>3. CASE UnregisterListener
      <4>1. hdiServiceMgr' = 0 /\ manager' = manager /\ known' \subseteq known
        BY <3>3 DEF UnregisterListener
      <4>2. known' # {} => manager # 0
        BY <4>1 DEF NoticesInOrder
      <4>. QED
        BY <4>1, <4>2
    <3>4. CASE ~ManagerStarts /\ ~ManagerDies /\ ~UnregisterListener
      <4>1. manager' = manager /\ known' = known /\ hdiServiceMgr' = hdiServiceMgr
        BY <2>0, <2>1, <3>4, Changes
      <4>. QED
        BY <1>3, <2>3, <4>1
    <3>. QED
      BY <3>1, <3>2, <3>3, <3>4
  <2>. QED
    BY <2>2, <2>4 DEF Registering
<1>4. CASE Occurs("remove", notices)
  <2>0. notices \in Seq({"add", "remove"})
    BY DEF TypeOK
  <2>1. ASSUME NEW x \in {"add", "remove"} PROVE Occurs("remove", Append(notices, x))
    BY <1>4, <2>0, AppendEnds
  <2>2. CASE OnAddSystemAbility
    <3>1. notices # <<>> /\ Head(notices) = "add" /\ notices' = Tail(notices)
      BY <2>2 DEF OnAddSystemAbility, Take
    <3>2. Occurs("remove", notices')
      BY <1>4, <2>0, <3>1, TailEnds
    <3>. QED
      BY <3>2 DEF WillRegister
  <2>3. ASSUME ManagerStarts \/ ManagerDies \/ AddSystemAbilityListener
        PROVE  Occurs("remove", notices')
    <3>1. \/ notices' = notices \/ notices' = Append(notices, "add")
          \/ notices' = Append(notices, "remove")
      BY <2>3 DEF ManagerStarts, ManagerDies, AddSystemAbilityListener, Notify
    <3>. QED
      BY <1>4, <2>1, <3>1
  <2>4. notices' = notices => Occurs("remove", notices')
    BY <1>4
  <2>. QED
    BY <1>e, <2>2, <2>3, <2>4, Changes DEF WillRegister
<1>5. CASE isHdiRemove /\ pc["samgr"] = "idle"
  <2>1. CASE OnAddSystemAbility
    <3>1. pc'["samgr"] = "get"
      BY <1>5, <1>a, <2>1, Moves DEF OnAddSystemAbility
    <3>. QED
      BY <1>a, <3>1 DEF Registering
  <2>2. CASE ~OnAddSystemAbility /\ ~OnRemoveSystemAbility
    <3>1. ~ClearHdiRemove
      BY <1>5 DEF ClearHdiRemove, Goto
    <3>2. isHdiRemove'
      BY <1>5, <2>2, <3>1, Changes
    <3>3. pc'["samgr"] = "idle"
      BY <1>5, <1>a, <2>2, <3>1, OthersStay
      DEF RegisterStep, GetNoManager, GetManager, RegisterListener, ListenerRefused, Goto
    <3>. QED
      BY <3>2, <3>3 DEF WillRegister
  <2>. QED
    BY <1>e, <2>1, <2>2
<1>. QED
  BY <1>1, <1>2, <1>3, <1>4, <1>5 DEF Registering, WillRegister

LEMMA StartStays ==
  ASSUME TypeOK, NoticesInOrder, [Next]_vars, StartIsDue, hdi # 0, hdi' # 0
  PROVE  StartIsDue' \/ \E l \in Listener : StartReport(l)
<1>0. hdiServStatListener \in Listener
        \/ ~\E t \in Registrar : RegisterListener(t)
  BY DEF TypeOK, RegisterListener
<1>1. CASE Registering \/ WillRegister
  <2>1. CASE hdiServStatListener \notin known /\ \E t \in Registrar : RegisterListener(t)
    <3>1. EndsWith(reports'[hdiServStatListener], "START")
      BY <1>0, <2>1, ReportsKeep
    <3>2. \E l \in Listener : EndsWith(reports'[l], "START")
      BY <1>0, <2>1, <3>1
    <3>. QED
      BY <3>2 DEF StartIsDue
  <2>2. CASE Registering' \/ WillRegister'
    BY <2>2 DEF StartIsDue
  <2>. QED
    BY <1>1, <2>1, <2>2, DueStays
<1>2. ASSUME NEW l \in Listener, EndsWith(reports[l], "START")
      PROVE  StartIsDue' \/ StartReport(l)
  <2>1. ~HdiDies
    BY DEF HdiDies
  <2>2. EndsWith(reports'[l], "START") \/ StartReport(l)
    BY <1>2, <2>1, ReportsKeep
  <2>. QED
    BY <2>2 DEF StartIsDue
<1>. QED
  BY <1>1, <1>2 DEF StartIsDue

LEMMA StopIsInactive ==
  ASSUME TypeOK, MainInOrder, [Next]_vars,
         OnStop \/ StopLock \/ StopInterface \/ StopWithoutManager \/ TestManager
           \/ UnregisterListener
  PROVE  ~Active'
<1>0. "main" \in Thread
  BY DEF Thread, Registrar
<1>1. CASE OnStop
  BY <1>0, <1>1, Moves DEF OnStop, Active
<1>2. CASE StopStep
  <2>1. ~ready
    BY <1>2 DEF StopStep, StopLock, StopInterface, StopWithoutManager, TestManager,
       UnregisterListener, Goto, MainInOrder, Busy
  <2>2. ready' = ready
    BY <1>2 DEF StopStep, StopLock, StopInterface, StopWithoutManager, TestManager,
       UnregisterListener, flags
  <2>3. pc'["main"] \in {"idle", "unregister", "dropManager", "dropListener"}
    BY <1>0, <1>2, Moves DEF StopStep, StopLock, StopInterface, StopWithoutManager,
       TestManager, UnregisterListener
  <2>. QED
    BY <2>1, <2>2, <2>3 DEF Active
<1>. QED
  BY <1>1, <1>2 DEF StopStep

LEMMA StaleNext ==
  ASSUME IInv, [Next]_vars, history' \cap Excluded = {}
  PROVE  StaleIsDropped'
<1>0. /\ TypeOK /\ MutexIsHeld /\ MainInOrder /\ NoticesInOrder
      /\ history \cap Excluded = {} /\ StaleIsDropped
  BY HistoryGrows DEF IInv, ServiceIsDue
<1>a. "main" \in Thread /\ "samgr" \in Thread
  BY DEF Thread, Registrar
<1> SUFFICES ASSUME iBatteryInterface' \notin {0, hdi'}
             PROVE  \/ Occurs("remove", notices')
                    \/ \E l \in Listener : pc'[l] = "unregister"
                    \/ \E l \in known' : Occurs("STOP", reports'[l])
  BY DEF StaleIsDropped
<1>c. ~OnRemoveSystemAbility
  <2>1. ASSUME OnRemoveSystemAbility PROVE FALSE
    <3>1. notices # <<>> /\ Head(notices) = "remove" /\ pc["samgr"] = "idle"
      BY <2>1 DEF OnRemoveSystemAbility, Take, Goto
    <3>2. isHdiRemove
      BY <2>1 DEF OnRemoveSystemAbility
    <3>3. notices[1] = "add"
      BY <1>0, <3>1, <3>2 DEF NoticesInOrder, Busy
    <3>. QED
      BY <1>0, <3>1, <3>3, TailEnds DEF TypeOK
  <2>. QED
    BY <2>1
<1>d. ~StopInterface /\ \A l \in Listener : ~UnRegister(l)
  BY DEF StopInterface, UnRegister, DropInterface
<1>1. CASE ManagerDies
  <2>1. CASE subscribed
    <3>1. notices' = Append(notices, "remove")
      BY <1>1, <2>1 DEF ManagerDies, Notify
    <3>. QED
      BY <1>0, <3>1, AppendEnds DEF TypeOK
  <2>2. CASE ~subscribed
    <3>1. pc["main"] # "listen"
      BY <1>1, <2>2 DEF ManagerDies, Note, Excluded
    <3>2. iBatteryInterface = 0
      BY <1>0, <2>2, <3>1 DEF MainInOrder, Silent
    <3>. QED
      BY <1>1, <3>2 DEF ManagerDies, pointers
  <2>. QED
    BY <2>1, <2>2
<1>2. CASE HdiDies /\ iBatteryInterface = hdi
  <2>1. known # {} /\ known' = known
    BY <1>2 DEF HdiDies, Note, Excluded
  <2>2. PICK l \in known : TRUE
    BY <2>1
  <2>3. Occurs("STOP", reports'[l])
    BY <1>0, <1>2, <2>2, ReportsKeep DEF TypeOK
  <2>. QED
    BY <2>1, <2>2, <2>3
<1>3. CASE ~ManagerDies /\ ~(HdiDies /\ iBatteryInterface = hdi)
  <2>1. iBatteryInterface \notin {0, hdi}
    <3>1. CASE \E w \in Worker : GetInterface(w)
      BY <3>1 DEF GetInterface, outside
    <3>2. CASE ~\E w \in Worker : GetInterface(w)
      <4>1. iBatteryInterface' = iBatteryInterface
        BY <1>0, <1>c, <1>d, <3>2, Changes
      <4>2. HdiStarts => hdi = 0
        BY DEF HdiStarts
      <4>. QED
        BY <1>0, <1>3, <4>1, <4>2, Changes
    <3>. QED
      BY <3>1, <3>2
  <2>2. CASE Occurs("remove", notices)
    <3>1. notices \in Seq({"add", "remove"})
      BY <1>0 DEF TypeOK
    <3>2. \/ notices' = notices \/ notices' = Append(notices, "add")
          \/ notices # <<>> /\ Head(notices) = "add" /\ notices' = Tail(notices)
      BY <1>0, <1>3, <1>c, Changes
      DEF ManagerStarts, AddSystemAbilityListener, Notify, OnAddSystemAbility, Take
    <3>3. Occurs("remove", Append(notices, "add"))
      BY <2>2, <3>1, AppendEnds
    <3>4. notices # <<>> /\ Head(notices) = "add" => Occurs("remove", Tail(notices))
      BY <2>2, <3>1, TailEnds
    <3>. QED
      BY <2>2, <3>2, <3>3, <3>4
  <2>3. ASSUME NEW l \in Listener, pc[l] = "unregister"
        PROVE  pc'[l] = "unregister"
    BY <1>0, <1>d, <2>3, OthersStay, ThreadsOfAKind DEF StopReport, Goto
  <2>4. ASSUME NEW l \in known, Occurs("STOP", reports[l])
        PROVE  (l \in known' /\ Occurs("STOP", reports'[l])) \/ pc'[l] = "unregister"
    <3>1. l \in Listener /\ l \in Thread
      BY <1>0, ThreadsOfAKind DEF TypeOK
    <3>2. StopReport(l) => pc'[l] = "unregister"
      BY <1>0, <2>1, <3>1, Moves DEF StopReport
    <3>3. l \in known'
      <4>1. ~UnregisterListener
        BY <1>0, <2>1 DEF UnregisterListener, MainInOrder, Goto
      <4>. QED
        BY <1>0, <1>3, <4>1, Changes DEF RegisterListener
    <3>. QED
      BY <1>0, <2>4, <3>1, <3>2, <3>3, ReportsKeep
  <2>. QED
    BY <1>0, <2>1, <2>2, <2>3, <2>4 DEF StaleIsDropped, TypeOK
<1>. QED
  BY <1>1, <1>2, <1>3

LEMMA RegistrationNext ==
  ASSUME IInv, [Next]_vars, history' \cap Excluded = {}
  PROVE  RegistrationIsDue'
<1>0. /\ TypeOK /\ MainInOrder /\ NoticesInOrder
      /\ history \cap Excluded = {} /\ RegistrationIsDue
  BY HistoryGrows DEF IInv, ServiceIsDue
<1>a. "main" \in Thread /\ "main" \in Registrar
  BY DEF Thread, Registrar
<1> SUFFICES ASSUME Active', known' = {} PROVE Registering' \/ WillRegister'
  BY DEF RegistrationIsDue
<1>r. ASSUME NEW t \in Registrar, RegisterListener(t) PROVE FALSE
  BY <1>r DEF RegisterListener
<1>1. CASE ManagerDies
  <2>1. CASE subscribed
    <3>1. notices' = Append(notices, "remove")
      BY <1>1, <2>1 DEF ManagerDies, Notify
    <3>2. Occurs("remove", notices')
      BY <1>0, <3>1, AppendEnds DEF TypeOK
    <3>. QED
      BY <3>2 DEF WillRegister
  <2>2. CASE ~subscribed
    <3>1. pc["main"] # "listen" /\ ~ready /\ ready' = ready /\ pc' = pc
      BY <1>0, <1>1, <2>2 DEF ManagerDies, Note, Excluded, MainInOrder, flags
    <3>2. pc'["main"] \in {"get", "use"}
      BY <3>1 DEF Active
    <3>. QED
      BY <1>a, <3>2 DEF Registering
  <2>. QED
    BY <2>1, <2>2
<1>2. CASE ~Active
  <2>1. pc'["main"] = "get"
    BY <1>0, <1>2, ActiveOnce
  <2>. QED
    BY <1>a, <2>1 DEF Registering
<1>3. CASE Active /\ ~ManagerDies
  <2>1. ~UnregisterListener
    BY <1>0, StopIsInactive
  <2>2. known = {}
    BY <1>0, <1>3, <1>r, <2>1, Changes
  <2>3. Registering \/ WillRegister
    BY <1>0, <1>3, <2>2 DEF RegistrationIsDue
  <2>. QED
    BY <1>0, <1>r, <2>3, DueStays
<1>. QED
  BY <1>1, <1>2, <1>3

(***************************************************************************)
(* A STOP report that takes effect, or the interface of an HDI that died,  *)
(* is followed by a START.                                                 *)
(***************************************************************************)
LEMMA StopIsFollowed ==
  ASSUME IInv, Active, hdi # 0, RegistrationIsDue, NEW l \in Listener,
         Occurs("STOP", reports[l]), l \in known \/ l = hdiServStatListener
  PROVE  StartIsDue
<1>0. ReportsInOrder /\ "main" \in Registrar
  BY DEF IInv, Registrar
<1>1. CASE l \in known
  <2>1. EndsWith(reports[l], "START")
    BY <1>0, <1>1 DEF ReportsInOrder
  <2>. QED
    BY <2>1 DEF StartIsDue
<1>2. CASE l \notin known
  <2>1. reports[l] # <<>>
    BY DEF Occurs
  <2>2. known = {} \/ pc["main"] = "get"
    BY <1>0, <1>2, <2>1 DEF ReportsInOrder
  <2>3. Registering \/ WillRegister
    BY <1>0, <2>2 DEF RegistrationIsDue, Registering
  <2>. QED
    BY <2>3 DEF StartIsDue
<1>. QED
  BY <1>1, <1>2

LEMMA StaleIsFollowed ==
  ASSUME IInv, Active, hdi # 0, RegistrationIsDue, ConnectionIsDue, StaleIsDropped,
         iBatteryInterface \notin {0, hdi}
  PROVE  StartIsDue
<1>1. CASE Occurs("remove", notices)
  BY <1>1 DEF StartIsDue, WillRegister
<1>2. CASE \E l \in Listener : pc[l] = "unregister"
  BY <1>2 DEF ConnectionIsDue
<1>3. ASSUME NEW l \in known, Occurs("STOP", reports[l]) PROVE StartIsDue
  BY <1>3, StopIsFollowed DEF IInv, TypeOK
<1>. QED
  BY <1>1, <1>2, <1>3 DEF StaleIsDropped

LEMMA ConnectionNext ==
  ASSUME IInv, [Next]_vars, history' \cap Excluded = {}
  PROVE  ConnectionIsDue'
<1>0. /\ TypeOK /\ MutexIsHeld /\ MainInOrder /\ NoticesInOrder
      /\ history \cap Excluded = {}
      /\ StaleIsDropped /\ RegistrationIsDue /\ ConnectionIsDue
  BY HistoryGrows DEF IInv, ServiceIsDue
<1>a. {"main", "samgr"} \subseteq Thread /\ {"main", "samgr"} \subseteq Registrar
  BY DEF Thread, Registrar
<1> SUFFICES ASSUME Active', hdi' # 0
             PROVE  /\ (\E l \in Listener : pc'[l] = "unregister") => StartIsDue'
                    /\ \/ StartIsDue' \/ tasks' > 0
                       \/ \E w \in Worker : pc'[w] = "lock"
                       \/ \E w \in Worker :
                            pc'[w] = "callback" /\ iBatteryInterface' = hdi'
                       \/ Connected'
  BY DEF ConnectionIsDue
<1>m. ASSUME NEW t \in Thread, NEW u \in Thread, pc[t] \in Exclusive, MayLock(u)
      PROVE  t = u
  BY <1>0, <1>m, ThreadsDiffer DEF MutexIsHeld, MayLock
<1>n. ASSUME NEW t \in Thread, NEW u \in Thread, pc[t] \in Exclusive, pc[u] \in Exclusive
      PROVE  t = u
  BY <1>0, <1>n DEF MutexIsHeld
<1>o. {"unregister", "callback"} \subseteq Exclusive
  BY DEF Exclusive
<1>1. CASE ~Active
  <2>1. pc'["main"] = "get"
    BY <1>0, <1>1, ActiveOnce
  <2>. QED
    BY <1>a, <2>1 DEF StartIsDue, Registering
<1>2. CASE Active /\ hdi = 0
  <2>1. HdiStarts
    BY <1>0, <1>2, Changes DEF ManagerDies, HdiDies
  <2>2. StartIsDue'
    <3>1. CASE known = {}
      <4>1. Registering \/ WillRegister
        BY <1>0, <1>2, <3>1 DEF RegistrationIsDue
      <4>2. \A t \in Registrar : ~RegisterListener(t)
        BY <2>1, ThreadsOfAKind, Moves DEF HdiStarts, RegisterListener, AfterRegister
      <4>. QED
        BY <1>0, <4>1, <4>2, DueStays DEF StartIsDue
    <3>2. CASE known # {}
      <4>1. PICK l \in known : TRUE
        BY <3>2
      <4>2. l \in Listener
        BY <1>0 DEF TypeOK
      <4>3. EndsWith(reports'[l], "START")
        BY <1>0, <2>1, <4>2, ReportsKeep
      <4>. QED
        BY <4>2, <4>3 DEF StartIsDue
    <3>. QED
      BY <3>1, <3>2
  <2>. QED
    BY <2>2
<1>3. CASE Active /\ hdi # 0
  <2>0. /\ hdi' = hdi /\ ~HdiDies /\ ~ManagerDies
    BY <1>0, <1>3, Changes DEF ManagerDies, HdiDies, HdiStarts
  <2>s. ASSUME NEW l \in Listener, StartReport(l)
        PROVE  tasks' > 0 /\ \A k \in Listener : pc'[k] # "unregister"
    <3>1. tasks' > 0
      BY <1>0, <2>s DEF StartReport, TypeOK
    <3>2. l \in Thread /\ MayLock(l) /\ pc[l] = "idle" /\ pc'[l] = "idle"
      BY <1>0, <2>s, Moves, ThreadsOfAKind DEF StartReport, Receive
    <3>3. \A k \in Listener : k \in Thread /\ (k # l => pc'[k] = pc[k])
      BY <1>0, <2>s, <3>2, Moves, ThreadsOfAKind DEF StartReport
    <3>. QED
      BY <1>m, <1>o, <3>1, <3>2, <3>3
  <2>d. ASSUME StartIsDue
        PROVE  /\ (\E l \in Listener : pc'[l] = "unregister") => StartIsDue'
               /\ StartIsDue' \/ tasks' > 0
    BY <1>0, <1>3, <2>0, <2>d, <2>s, StartStays
  <2>e. ASSUME NEW l \in Listener, pc'[l] = "unregister" PROVE StartIsDue'
    <3>1. CASE pc[l] = "unregister"
      BY <1>0, <1>3, <2>d, <2>e, <3>1 DEF ConnectionIsDue
    <3>2. CASE pc[l] # "unregister"
      <4>1. StopReport(l)
        BY <1>0, <2>e, <3>2, OthersStay, ThreadsOfAKind DEF UnRegister, Goto
      <4>2. l = hdiServStatListener
        <5>1. iBatteryInterface # 0
          BY <1>0, <2>e, <4>1, Moves, ThreadsOfAKind DEF StopReport
        <5>. QED
          BY <4>1, <5>1 DEF StopReport, Note, Excluded
      <4>3. StartIsDue
        BY <1>0, <1>3, <4>1, <4>2, ReportsKeep, StopIsFollowed
      <4>. QED
        BY <2>d, <2>e, <4>3
    <3>. QED
      BY <3>1, <3>2
  <2>w. OnRemoveSystemAbility => StartIsDue'
    <3>1. OnRemoveSystemAbility => isHdiRemove' /\ pc'["samgr"] = "idle"
      BY <1>0, <1>a, Moves DEF OnRemoveSystemAbility
    <3>. QED
      BY <3>1 DEF StartIsDue, WillRegister
  <2>x. ~StopInterface
    BY <1>0, StopIsInactive
  <2>u. ASSUME NEW l \in Listener, UnRegister(l) PROVE StartIsDue' \/ tasks' > 0
    BY <1>0, <1>3, <2>d, <2>u DEF UnRegister, Goto, ConnectionIsDue
  <2>2. ASSUME tasks > 0 PROVE tasks' > 0 \/ \E w \in Worker : pc'[w] = "lock"
    <3>1. ASSUME NEW w \in Worker, RunTask(w) PROVE pc'[w] = "lock"
      BY <1>0, <3>1, Moves, ThreadsOfAKind DEF RunTask
    <3>. QED
      BY <1>0, <2>2, <2>s, <3>1, Changes
  <2>3. ASSUME NEW w \in Worker, pc[w] = "lock"
        PROVE  \/ StartIsDue' \/ tasks' > 0 \/ pc'[w] = "lock"
               \/ pc'[w] = "callback" /\ iBatteryInterface' = hdi'
    <3>1. CASE GetInterface(w)
      <4>1. CASE iBatteryInterface \in {0, hdi}
        <5>1. iBatteryInterface' = hdi
          BY <3>1, <4>1 DEF GetInterface
        <5>2. Goto(w, "lock", "callback")
          BY <1>3, <3>1, <5>1 DEF GetInterface
        <5>3. pc'[w] = "callback"
          BY <1>0, <5>2, Moves, ThreadsOfAKind
        <5>. QED
          BY <2>0, <5>1, <5>3
      <4>2. CASE iBatteryInterface \notin {0, hdi}
        BY <1>0, <1>3, <2>d, <4>2, StaleIsFollowed
      <4>. QED
        BY <4>1, <4>2
    <3>2. CASE ~GetInterface(w)
      BY <1>0, <2>3, <3>2, OthersStay, ThreadsOfAKind DEF RunTask, RegisterCallback, Goto
    <3>. QED
      BY <3>1, <3>2
  <2>4. ASSUME NEW w \in Worker, pc[w] = "callback", iBatteryInterface = hdi
        PROVE  \/ StartIsDue' \/ tasks' > 0 \/ Connected'
               \/ pc'[w] = "callback" /\ iBatteryInterface' = hdi'
    <3>0. w \in Thread
      BY ThreadsOfAKind
    <3>1. CASE RegisterCallback(w)
      BY <2>0, <2>4, <3>1 DEF RegisterCallback, Connected, Excluded, pointers
    <3>2. CASE ~RegisterCallback(w)
      <4>1. pc'[w] = "callback"
        BY <1>0, <2>4, <3>0, <3>2, OthersStay DEF RunTask, GetInterface, Goto
      <4>2. ASSUME NEW v \in Worker, GetInterface(v)
            PROVE  iBatteryInterface' = iBatteryInterface
        BY <1>3, <2>4, <4>2 DEF GetInterface
      <4>. QED
        BY <1>0, <2>0, <2>4, <2>u, <2>w, <2>x, <4>1, <4>2, Changes
    <3>. QED
      BY <3>1, <3>2
  <2>5. ASSUME Connected PROVE StartIsDue' \/ tasks' > 0 \/ Connected'
    <3>1. ASSUME NEW v \in Worker, GetInterface(v)
          PROVE  iBatteryInterface' = iBatteryInterface
      BY <1>3, <2>5, <3>1 DEF GetInterface, Connected
    <3>2. ASSUME NEW v \in Worker, RegisterCallback(v)
          PROVE  callback'
      BY <2>5, <3>2 DEF RegisterCallback, Connected
    <3>3. \/ StartIsDue' \/ tasks' > 0 \/ iBatteryInterface' = iBatteryInterface
      BY <1>0, <2>u, <2>w, <2>x, <3>1, Changes
    <3>4. \/ StartIsDue' \/ tasks' > 0 \/ callback'
      BY <1>0, <2>0, <2>5, <2>u, <2>x, <3>2, Changes DEF Connected
    <3>. QED
      BY <2>0, <2>5, <3>3, <3>4 DEF Connected
  <2>. QED
    BY <1>0, <1>3, <2>2, <2>3, <2>4, <2>5, <2>d, <2>e DEF ConnectionIsDue
<1>. QED
  BY <1>1, <1>2, <1>3

LEMMA ServiceNext == IInv /\ [Next]_vars => ServiceIsDue'
  BY StaleNext, RegistrationNext, ConnectionNext DEF ServiceIsDue, Excluded

-----------------------------------------------------------------------------
(***************************************************************************)
(* StopFindsAll.                                                           *)
(***************************************************************************)
LEMMA StopNext == IInv /\ [Next]_vars => StopFindsAll'
<1> SUFFICES ASSUME IInv, [Next]_vars,
                    manager' = counts'["manager"], manager' < 2,
                    history' \cap {"late", "doubled"} = {}
             PROVE  /\ ~isHdiRemove' /\ pc'["samgr"] = "idle" /\ ~Occurs("remove", notices')
                    /\ hdiServiceMgr' \in {0, manager'}
                    /\ known' \subseteq {hdiServStatListener'}
                    /\ known' # {} => hdiServiceMgr' # 0
                    /\ callback' => iBatteryInterface' = hdi' /\ hdi' # 0
                    /\ ~ready' /\ pc'["main"] = "idle" => Silent'
  BY DEF StopFindsAll, Busy
<1>0. /\ TypeOK /\ MutexIsHeld /\ MainInOrder /\ NoticesInOrder
      /\ history \subseteq history' /\ TypeOK'
  BY HistoryGrows, TypeNext DEF IInv
<1>a. {"main", "samgr"} \subseteq Thread /\ {"main", "samgr"} \subseteq Registrar
  BY DEF Thread, Registrar
<1>b. counts["manager"] \in Nat /\ manager \in {0, counts["manager"]}
  BY <1>0, BoundAssumption DEF TypeOK, Count, NoticesInOrder
<1>1. ~ManagerDies
  <2>1. ASSUME ManagerDies PROVE FALSE
    <3>1. manager # 0 /\ manager' = 0 /\ counts' = counts
      BY <2>1 DEF ManagerDies
    <3>. QED
      BY <1>b, <3>1
  <2>. QED
    BY <2>1
<1>2. manager = counts["manager"] /\ manager < 2
  <2>1. CASE ManagerStarts
    <3>1. manager = 0 /\ manager' = counts'["manager"]
          /\ counts'["manager"] = counts["manager"] + 1
      BY <1>0, <2>1 DEF ManagerStarts, Counted, TypeOK, Count
    <3>. QED
      BY <1>b, <3>1
  <2>2. CASE ~ManagerStarts
    BY <1>0, <1>1, <2>2, Changes
  <2>. QED
    BY <2>1, <2>2
<1>3. history \cap {"late", "doubled"} = {}
  BY <1>0
<1>4. /\ ~isHdiRemove /\ pc["samgr"] = "idle" /\ ~Occurs("remove", notices)
      /\ hdiServiceMgr \in {0, manager}
      /\ known \subseteq {hdiServStatListener}
      /\ known # {} => hdiServiceMgr # 0
      /\ callback => iBatteryInterface = hdi /\ hdi # 0
      /\ ~ready /\ pc["main"] = "idle" => Silent
  BY <1>2, <1>3 DEF IInv, StopFindsAll, Busy
<1>5. ~OnRemoveSystemAbility
  <2>1. OnRemoveSystemAbility => notices # <<>> /\ Head(notices) = "remove"
    BY DEF OnRemoveSystemAbility, Take
  <2>. QED
    BY <1>0, <1>4, <2>1, TailEnds DEF TypeOK
<1>6. ~isHdiRemove' /\ pc'["samgr"] = "idle" /\ ~Occurs("remove", notices')
  <2>1. ~ClearHdiRemove
    BY <1>4 DEF ClearHdiRemove, Goto
  <2>2. isHdiRemove' = isHdiRemove
    BY <1>0, <1>5, <2>1, Changes
  <2>3. ~RegisterStep("samgr")
    BY <1>4 DEF RegisterStep, GetNoManager, GetManager, RegisterListener,
       ListenerRefused, Goto
  <2>4. OnAddSystemAbility => pc'["samgr"] = "idle"
    BY <1>0, <1>4, <1>a, Moves DEF OnAddSystemAbility
  <2>5. pc'["samgr"] = "idle"
    BY <1>0, <1>4, <1>a, <2>1, <2>3, <2>4, OthersStay
  <2>6. notices \in Seq({"add", "remove"})
    BY <1>0 DEF TypeOK
  <2>7. \/ notices' = notices \/ notices' = Append(notices, "add")
        \/ notices # <<>> /\ notices' = Tail(notices)
    BY <1>0, <1>1, <1>5, Changes
    DEF ManagerStarts, AddSystemAbilityListener, Notify, OnAddSystemAbility, Take
  <2>8. ~Occurs("remove", Append(notices, "add"))
    BY <1>4, <2>6, AppendEnds
  <2>9. notices # <<>> => ~Occurs("remove", Tail(notices))
    BY <1>4, <2>6, TailEnds
  <2>. QED
    BY <1>4, <2>2, <2>5, <2>7, <2>8, <2>9
<1>7. hdiServiceMgr' \in {0, manager'}
  <2>1. ASSUME NEW t \in Registrar, GetNoManager(t) \/ GetManager(t)
        PROVE  hdiServiceMgr' \in {0, manager} /\ manager' = manager
    BY <2>1 DEF GetNoManager, GetManager, outside
  <2>2. UnregisterListener => hdiServiceMgr' = 0
    BY DEF UnregisterListener
  <2>3. ManagerStarts => hdiServiceMgr' = hdiServiceMgr /\ manager = 0
    BY DEF ManagerStarts, pointers
  <2>. QED
    BY <1>0, <1>1, <1>4, <1>5, <2>1, <2>2, <2>3, Changes
<1>8. known' \subseteq {hdiServStatListener'} /\ (known' # {} => hdiServiceMgr' # 0)
  <2>1. ASSUME NEW t \in Registrar, GetManager(t)
        PROVE  known' = {}
    BY <2>1 DEF GetManager, Note, outside
  <2>2. ASSUME NEW t \in Registrar, GetNoManager(t)
        PROVE  known' = {}
    BY <1>0, <2>2 DEF GetNoManager, NoticesInOrder, outside
  <2>3. CASE UnregisterListener
    <3>1. hdiServiceMgr = manager
      BY <1>4, <2>3 DEF UnregisterListener
    <3>2. known' = {}
      BY <1>4, <2>3, <3>1 DEF UnregisterListener
    <3>. QED
      BY <3>2
  <2>4. CASE \E t \in Registrar : RegisterListener(t)
    BY <1>4, <2>4 DEF RegisterListener, pointers
  <2>5. CASE /\ ~UnregisterListener
             /\ \A t \in Registrar : ~GetManager(t) /\ ~GetNoManager(t) /\ ~RegisterListener(t)
    <3>1. UNCHANGED <<known, hdiServiceMgr, hdiServStatListener>>
      BY <1>0, <1>1, <1>5, <2>5, Changes
    <3>. QED
      BY <1>4, <3>1
  <2>. QED
    BY <2>1, <2>2, <2>3, <2>4, <2>5
<1>9. ASSUME callback'
      PROVE  iBatteryInterface' = hdi' /\ hdi' # 0
  <2>1. CASE \E w \in Worker : RegisterCallback(w)
    BY <1>4, <1>9, <2>1 DEF RegisterCallback, pointers
  <2>2. CASE ~\E w \in Worker : RegisterCallback(w)
    <3>1. ~HdiDies
      BY <1>9 DEF HdiDies
    <3>2. callback
      BY <1>0, <1>1, <1>9, <2>2, <3>1, Changes
      DEF StopInterface, UnRegister, DropInterface
    <3>3. ~HdiStarts
      BY <1>4, <3>2 DEF HdiStarts
    <3>4. ~StopInterface /\ \A l \in Listener : ~UnRegister(l)
      BY <1>4, <1>9, <3>2 DEF StopInterface, UnRegister, DropInterface
    <3>5. ASSUME NEW w \in Worker, GetInterface(w)
          PROVE  iBatteryInterface' = iBatteryInterface
      BY <1>4, <3>2, <3>5 DEF GetInterface
    <3>6. UNCHANGED <<hdi, iBatteryInterface>>
      BY <1>0, <1>1, <1>5, <3>1, <3>3, <3>4, <3>5, Changes
    <3>. QED
      BY <1>4, <3>2, <3>6
  <2>. QED
    BY <2>1, <2>2
<1>10. ASSUME ~ready', pc'["main"] = "idle"
       PROVE  Silent'
  <2>1. CASE StopWithoutManager \/ UnregisterListener
    <3>1. ~UnderWay
      BY <1>3, <2>1 DEF StopWithoutManager, UnregisterListener, Note
    <3>2. /\ pc["main"] \in {"dropManager", "dropListener"}
          /\ UNCHANGED <<callback, reports, tasks, retries, iBatteryInterface>>
      BY <2>1 DEF StopWithoutManager, UnregisterListener, Goto, outside, inFlight, pointers
    <3>3. \A t \in Thread \ {"main"} : pc'[t] = pc[t]
      BY <1>0, <1>a, <2>1, Moves DEF StopWithoutManager, UnregisterListener
    <3>4. known' = {}
      BY <1>4, <2>1 DEF StopWithoutManager, UnregisterListener, outside
    <3>5. iBatteryInterface = 0 /\ ~callback
      BY <1>0, <1>4, <3>2 DEF MainInOrder
    <3>6. tasks = 0 /\ retries = 0
      BY <1>0, <3>1 DEF UnderWay, TypeOK
    <3>7. \A l \in Listener : reports[l] = <<>>
      BY <3>1 DEF UnderWay
    <3>8. \A t \in Thread \ ({"main"} \cup Client) : pc'[t] = "idle"
      BY <3>1, <3>3 DEF UnderWay, Busy
    <3>. QED
      BY <3>2, <3>4, <3>5, <3>6, <3>7, <3>8 DEF Silent, Busy
  <2>2. CASE ~StopWithoutManager /\ ~UnregisterListener
    <3>1. ~AddSystemAbilityListener /\ ~OnStop
      BY <1>0, <1>10, <1>a, Moves DEF AddSystemAbilityListener, OnStop
    <3>2. ~ready
      BY <1>0, <1>10, <3>1, Changes
    <3>3. ~RegisterStep("main") /\ ~OnStart /\ ~StopLock /\ ~StopInterface /\ ~TestManager
      BY <1>0, <1>10, <1>a, Moves
      DEF RegisterStep, GetNoManager, GetManager, RegisterListener, ListenerRefused,
          AfterRegister, OnStart, StopLock, StopInterface, TestManager
    <3>4. pc["main"] = "idle"
      BY <1>0, <1>10, <1>a, <2>2, <3>1, <3>3, OthersStay DEF StopStep
    <3>5. Silent
      BY <1>4, <3>2, <3>4
    <3>. QED
      BY <1>0, <1>4, <3>3, <3>5, SilentStays DEF RegisterStep
  <2>. QED
    BY <2>1, <2>2
<1>. QED
  BY <1>6, <1>7, <1>8, <1>9, <1>10

-----------------------------------------------------------------------------
(***************************************************************************)
(* The inductive invariant: mutex_ is held where the code says, what a     *)
(* thread has tested is there when it is used, unless it was assigned      *)
(* without mutex_, notices and reports come in order, what a running       *)
(* service needs is due, and OnStop finds all that is there.               *)
(***************************************************************************)
LEMMA InitIInv == Init => IInv
<1> SUFFICES ASSUME Init PROVE IInv
  OBVIOUS
<1>0. TypeOK
  BY TypeInit
<1>1. MutexIsHeld /\ TestedIsThere /\ NoNullUse
  BY Labels DEF Init, MutexIsHeld, TestedIsThere, NoNullUse, Exclusive, Shared,
     Thread, Registrar
<1>2. \A t \in Thread : pc[t] = "idle"
  BY DEF Init
<1>3. Silent
  BY <1>2 DEF Init, Silent, Busy
<1>4. pc["main"] = "idle" /\ pc["samgr"] = "idle"
  BY <1>2 DEF Thread, Registrar
<1>5. MainInOrder
  BY <1>3, <1>4 DEF Init, MainInOrder, Busy
<1>6. NoticesInOrder
  BY DEF Init, NoticesInOrder
<1>7. ReportsInOrder
  BY DEF Init, ReportsInOrder
<1>8. ServiceIsDue
  BY <1>4 DEF Init, ServiceIsDue, StaleIsDropped, RegistrationIsDue, ConnectionIsDue,
     Active
<1>9. StopFindsAll
  BY <1>3, <1>4 DEF Init, StopFindsAll, Occurs, Busy
<1>. QED
  BY <1>0, <1>1, <1>5, <1>6, <1>7, <1>8, <1>9 DEF IInv

THEOREM Invariance == Spec => []IInv
<1>1. IInv /\ [Next]_vars => IInv'
  BY TypeNext, MutexNext, TestedNext, NullNext, MainNext, NoticesNext, ReportsNext,
     ServiceNext, StopNext DEF IInv
<1>. QED
  BY InitIInv, <1>1, PTL DEF Spec

(***************************************************************************)
(* In the default build no thread uses a null pointer that nobody assigned *)
(* without mutex_ behind its test.                                         *)
(***************************************************************************)
THEOREM NullIsNeverUsed == Spec => []NoNullUse
<1>1. IInv => NoNullUse
  BY DEF IInv
<1>. QED
  BY <1>1, Invariance, PTL

(***************************************************************************)
(* Once nothing is on its way, nothing is due: a running service is        *)
(* connected to the HDI that is there.                                     *)
(***************************************************************************)
THEOREM RunningIsConnected == Spec => []RunningServiceIsConnected
<1>1. IInv => RunningServiceIsConnected
  <2> SUFFICES ASSUME IInv, ready, Settled, hdi # 0, history \cap Excluded = {}
               PROVE  Connected
    BY DEF RunningServiceIsConnected, Excluded
  <2>0. TypeOK /\ MainInOrder /\ NoticesInOrder /\ ConnectionIsDue /\ Active
    BY DEF IInv, ServiceIsDue, Active
  <2>1. /\ tasks = 0 /\ retries = 0 /\ notices = <<>>
        /\ \A l \in Listener : reports[l] = <<>>
    BY <2>0 DEF Settled, UnderWay, TypeOK
  <2>2. \A t \in Thread : pc[t] = "idle"
    BY DEF Settled, Busy
  <2>3. ~Registering
    BY <2>1, <2>2, ThreadsOfAKind DEF Registering
  <2>4. ~WillRegister
    <3>1. isHdiRemove /\ pc["samgr"] = "idle" => manager = 0
      BY <2>0, <2>1 DEF NoticesInOrder, Busy
    <3>2. manager # 0
      BY <2>0 DEF NoticesInOrder
    <3>. QED
      BY <2>1, <3>1, <3>2 DEF WillRegister, Occurs
  <2>5. ~StartIsDue
    BY <2>1, <2>3, <2>4 DEF StartIsDue, EndsWith
  <2>. QED
    BY <2>0, <2>1, <2>2, <2>5, ThreadsOfAKind DEF ConnectionIsDue
<1>. QED
  BY <1>1, Invariance, PTL

(***************************************************************************)
(* OnStop has left nothing behind at the only DSM there ever was, nor at   *)
(* its HDI.                                                                *)
(***************************************************************************)
THEOREM StoppedIsSilent == Spec => []StoppedServiceIsSilent
<1>1. IInv => StoppedServiceIsSilent
  <2> SUFFICES ASSUME IInv, ~ready, Settled, manager = 1,
                      history \cap {"late", "doubled"} = {}
               PROVE  known = {} /\ ~callback /\ iBatteryInterface = 0
    BY DEF StoppedServiceIsSilent
  <2>1. manager = counts["manager"] /\ manager < 2
    BY DEF IInv, NoticesInOrder
  <2>2. ~Busy("main")
    BY DEF Settled, Thread, Registrar
  <2>. QED
    BY <2>1, <2>2 DEF IInv, StopFindsAll, Silent
<1>. QED
  BY <1>1, Invariance, PTL
=============================================================================
