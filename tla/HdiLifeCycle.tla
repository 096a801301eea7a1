---------------------------- MODULE HdiLifeCycle ----------------------------
(***************************************************************************)
(* How the service finds the battery HDI and loses it again                *)
(* (services/native/src/battery_service.cpp): the status listener that it  *)
(* registers with the device service manager (DSM), the START and STOP     *)
(* reports of that listener, the callback that it registers with the HDI,  *)
(* and the members hdiServiceMgr_ and iBatteryInterface_ that all of these *)
(* and every getter share.                                                 *)
(*                                                                         *)
(* mutex_, a std::shared_mutex, protects iBatteryInterface_ in the getters *)
(* (shared) and in the status callback, the START task and OnStop          *)
(* (exclusive); OnRemoveSystemAbility assigns it without.  Nothing         *)
(* protects hdiServiceMgr_.  A Dump command holds mutex_ shared and takes  *)
(* it shared again in the getters it calls, which the C++ standard leaves  *)
(* undefined: it succeeds, or waits for a writer that itself waits.        *)
(*                                                                         *)
(* External, as the code uses them: the DSM tells a new listener of an HDI *)
(* that is already there, reports reach one listener in order, and the HDI *)
(* dies with the DSM.                                                      *)
(***************************************************************************)
EXTENDS Integers, Sequences, FiniteSets

CONSTANTS
  Listener,      \* the status listeners that can exist at the same time
  Worker,        \* the FFRT workers that run the tasks of START reports
  Client,        \* the binder threads of getters and of Dump
  SetsThreshold, \* BATTERY_MANAGER_SET_LOW_CAPACITY_THRESHOLD of the build
  WriterFirst,   \* a waiting writer keeps new readers out of mutex_
  MaxHdi,        \* bound: how often the HDI may start
  MaxManager,    \* bound: how often the DSM may start
  MaxStart,      \* bound: how often the service may be started
  MaxFailure,    \* bound: how often the DSM may refuse a listener
  None

ASSUME SwitchAssumption == {SetsThreshold, WriterFirst} \subseteq BOOLEAN
ASSUME BoundAssumption ==
  /\ {MaxHdi, MaxManager} \subseteq Nat \ {0}
  /\ {MaxStart, MaxFailure} \subseteq Nat
ASSUME ThreadAssumption ==
  /\ Listener \cap Worker = {} /\ Listener \cap Client = {}
  /\ Worker \cap Client = {}
  /\ {"main", "samgr", "queue", None} \cap (Listener \cup Worker \cup Client) = {}
  /\ None \notin {"main", "samgr", "queue"}

VARIABLES
  manager, hdi,         \* the incarnation of the DSM and of the HDI, 0: down
  counts,               \* how often what is bounded has happened
  known,                \* the listeners the DSM knows
  callback,             \* the HDI knows the service's callback
  reports,              \* the reports on their way to each listener
  notices,              \* what OnAdd-, OnRemoveSystemAbility will be told
  ready,                \* ready_
  subscribed,           \* AddSystemAbilityListener was called for the DSM
  hdiServiceMgr,        \* hdiServiceMgr_, 0: nullptr
  hdiServStatListener,  \* hdiServStatListener_
  isHdiRemove,          \* isHdiRemove_
  iBatteryInterface,    \* iBatteryInterface_, 0: nullptr
  tasks, retries,       \* submitted tasks that have not begun
  pc,                   \* the next step of each thread
  writer,               \* the thread that waits for or holds mutex_ exclusive
  readers,              \* the threads that hold mutex_ shared
  crashed,              \* a null pointer was used
  history               \* history: what happened that the properties exclude

outside == <<manager, hdi, counts, known, callback>>
inFlight == <<reports, notices, tasks, retries>>
pointers == <<hdiServiceMgr, hdiServStatListener, iBatteryInterface>>
flags == <<ready, subscribed, isHdiRemove>>
mutex == <<writer, readers>>
vars == <<outside, inFlight, pointers, flags, pc, mutex, crashed, history>>

(***************************************************************************)
(* main runs OnStart and OnStop, samgr the callbacks about the DSM, queue  *)
(* the retries; a listener is the binder thread that brings its reports.   *)
(***************************************************************************)
Registrar == {"main", "samgr", "queue"}
Thread == Registrar \cup Listener \cup Worker \cup Client

Label ==
  {"idle", "get", "use", "listen", "lock", "unregister", "dropManager",
   "dropListener", "callback", "testThreshold", "setThreshold", "test",
   "info", "convert", "convertUse"}

Count == [hdi |-> MaxHdi, manager |-> MaxManager, start |-> MaxStart,
          failure |-> MaxFailure]

(***************************************************************************)
(* What history may tell: "raced", a pointer became null between a test    *)
(* and a use of another thread; "unseen", a death nobody was told of;      *)
(* "refused", the HDI did not take the callback; "doubled", a listener was *)
(* replaced while the DSM knew it; "stale", a STOP report of such a        *)
(* listener took effect; "late", something was under way in OnStop.        *)
(***************************************************************************)
TypeOK ==
  /\ manager \in 0 .. MaxManager
  /\ hdi \in 0 .. MaxHdi
  /\ DOMAIN counts = DOMAIN Count
  /\ \A k \in DOMAIN Count : counts[k] \in 0 .. Count[k]
  /\ known \subseteq Listener
  /\ reports \in [Listener -> Seq({"START", "STOP"})]
  /\ notices \in Seq({"add", "remove"})
  /\ callback \in BOOLEAN /\ crashed \in BOOLEAN
  /\ ready \in BOOLEAN /\ subscribed \in BOOLEAN /\ isHdiRemove \in BOOLEAN
  /\ hdiServiceMgr \in 0 .. MaxManager
  /\ hdiServStatListener \in Listener \cup {None}
  /\ hdiServiceMgr # 0 => hdiServStatListener \in Listener
  /\ iBatteryInterface \in 0 .. MaxHdi
  /\ tasks \in Nat /\ retries \in Nat
  /\ pc \in [Thread -> Label]
  /\ writer \in Thread \cup {None}
  /\ readers \subseteq Thread
  /\ history \subseteq {"raced", "unseen", "refused", "doubled", "stale",
                    "late"}

(***************************************************************************)
(* The process has started; the DSM may be there already, with the HDI.    *)
(***************************************************************************)
Init ==
  /\ manager \in {0, 1}
  /\ hdi \in {0, manager}
  /\ counts = [hdi |-> hdi, manager |-> manager, start |-> 0, failure |-> 0]
  /\ known = {}
  /\ callback = FALSE
  /\ reports = [l \in Listener |-> <<>>]
  /\ notices = <<>>
  /\ ready = FALSE /\ subscribed = FALSE /\ isHdiRemove = FALSE
  /\ hdiServiceMgr = 0
  /\ hdiServStatListener = None
  /\ iBatteryInterface = 0
  /\ tasks = 0 /\ retries = 0
  /\ pc = [t \in Thread |-> "idle"]
  /\ writer = None
  /\ readers = {}
  /\ crashed = FALSE
  /\ history = {}

Busy(t) == pc[t] # "idle"

(***************************************************************************)
(* Another thread stands between the test and the use of hdiServiceMgr_,   *)
(* of iBatteryInterface_.                                                  *)
(***************************************************************************)
UsesManager(t) == \E u \in Thread \ {t} : pc[u] \in {"use", "dropListener"}

UsesInterface(t) ==
  \E u \in Thread \ {t} :
    pc[u] \in {"unregister", "callback", "setThreshold", "info", "convertUse"}

Goto(t, from, to) ==
  /\ ~crashed
  /\ pc[t] = from
  /\ pc' = [pc EXCEPT ![t] = to]

Note(what, happened) ==
  history' = IF happened THEN history \cup {what} ELSE history

Counted(k) ==
  /\ counts[k] < Count[k]
  /\ counts' = [counts EXCEPT ![k] = @ + 1]

(***************************************************************************)
(* A thread that has tested a pointer uses it; it may be null by now.      *)
(***************************************************************************)
UseNull(t, label, pointer) ==
  /\ ~crashed
  /\ pc[t] = label
  /\ pointer = 0
  /\ crashed' = TRUE
  /\ UNCHANGED <<outside, inFlight, pointers, flags, pc, mutex, history>>

-----------------------------------------------------------------------------
(***************************************************************************)
(* mutex_.  A writer that waits may keep new readers out.                  *)
(***************************************************************************)
MayShare == writer = None
MayLock(t) == readers = {} /\ writer \in {None, t}

WantsLock(t) ==
  \/ t \in Listener /\ reports[t] # <<>> /\ ~Busy(t)
  \/ t \in Worker /\ pc[t] = "lock"
  \/ t = "main" /\ pc[t] = "lock"

WriterWaits(t) ==
  /\ ~crashed
  /\ WriterFirst
  /\ WantsLock(t)
  /\ writer = None /\ readers # {}
  /\ writer' = t
  /\ UNCHANGED <<outside, inFlight, pointers, flags, pc, readers, crashed,
                 history>>

-----------------------------------------------------------------------------
(***************************************************************************)
(* The DSM and the HDI start and die, and tell those they know.            *)
(***************************************************************************)
Tell(listeners, report) ==
  reports' = [l \in Listener |-> IF l \in listeners
                                 THEN Append(reports[l], report)
                                 ELSE reports[l]]

Notify(notice) ==
  notices' = IF subscribed THEN Append(notices, notice) ELSE notices

ManagerStarts ==
  /\ manager = 0
  /\ Counted("manager")
  /\ manager' = counts'["manager"]
  /\ Notify("add")
  /\ UNCHANGED <<hdi, known, callback, reports, tasks, retries, pointers,
                 flags, pc, mutex, crashed, history>>

ManagerDies ==
  /\ manager # 0
  /\ manager' = 0 /\ hdi' = 0
  /\ known' = {}
  /\ callback' = FALSE
  /\ Notify("remove")
  /\ Note("unseen", ~subscribed /\ pc["main"] = "listen")
  /\ UNCHANGED <<counts, reports, tasks, retries, pointers, flags, pc, mutex,
                 crashed>>

HdiStarts ==
  /\ manager # 0 /\ hdi = 0
  /\ Counted("hdi")
  /\ hdi' = counts'["hdi"]
  /\ Tell(known, "START")
  /\ UNCHANGED <<manager, known, callback, notices, tasks, retries, pointers,
                 flags, pc, mutex, crashed, history>>

HdiDies ==
  /\ hdi # 0
  /\ hdi' = 0
  /\ callback' = FALSE
  /\ Tell(known, "STOP")
  /\ Note("unseen", known = {} /\ iBatteryInterface = hdi)
  /\ UNCHANGED <<manager, counts, known, notices, tasks, retries, pointers,
                 flags, pc, mutex, crashed>>

-----------------------------------------------------------------------------
(***************************************************************************)
(* RegisterHdiStatusListener, which OnStart, OnAddSystemAbility and the    *)
(* retries run: get the DSM, make a listener, register it.  Without a DSM, *)
(* and when it refuses the listener, a retry is submitted.                 *)
(***************************************************************************)
AfterRegister(t) == IF t = "queue" THEN "idle" ELSE "listen"

Unused(l) == l \notin known /\ reports[l] = <<>> /\ ~Busy(l)

GetNoManager(t) ==
  /\ Goto(t, "get", AfterRegister(t))
  /\ manager = 0
  /\ hdiServiceMgr' = 0
  /\ retries' = retries + 1
  /\ Note("raced", UsesManager(t))
  /\ UNCHANGED <<outside, reports, notices, tasks, hdiServStatListener,
                 iBatteryInterface, flags, mutex, crashed>>

GetManager(t) ==
  /\ Goto(t, "get", "use")
  /\ manager # 0
  /\ hdiServiceMgr' = manager
  /\ hdiServStatListener' \in {l \in Listener : Unused(l)}
  /\ Note("doubled", known # {})
  /\ UNCHANGED <<outside, inFlight, iBatteryInterface, flags, mutex, crashed>>

RegisterListener(t) ==
  /\ Goto(t, "use", AfterRegister(t))
  /\ hdiServiceMgr # 0 /\ hdiServiceMgr = manager
  /\ known' = known \cup {hdiServStatListener}
  /\ IF hdi # 0 THEN Tell({hdiServStatListener} \ known, "START")
                ELSE UNCHANGED reports
  /\ UNCHANGED <<manager, hdi, counts, callback, notices, tasks, retries,
                 pointers, flags, mutex, crashed, history>>

(***************************************************************************)
(* With a bug: a listener that was refused is not tried again.             *)
(***************************************************************************)
RefusedForGood(t) ==
  /\ Goto(t, "use", AfterRegister(t))
  /\ hdiServiceMgr # 0
  /\ IF hdiServiceMgr = manager THEN Counted("failure") ELSE UNCHANGED counts
  /\ UNCHANGED <<manager, hdi, known, callback, inFlight, pointers, flags,
                 mutex, crashed, history>>

ListenerRefused(t) ==
  /\ Goto(t, "use", AfterRegister(t))
  /\ hdiServiceMgr # 0
  /\ IF hdiServiceMgr = manager THEN Counted("failure") ELSE UNCHANGED counts
  /\ retries' = retries + 1
  /\ UNCHANGED <<manager, hdi, known, callback, reports, notices, tasks,
                 pointers, flags, mutex, crashed, history>>

Retry ==
  /\ retries > 0
  /\ Goto("queue", "idle", "get")
  /\ retries' = retries - 1
  /\ UNCHANGED <<outside, reports, notices, tasks, pointers, flags, mutex,
                 crashed, history>>

Register(t) ==
  \/ GetNoManager(t)
  \/ GetManager(t)
  \/ RegisterListener(t)
  \/ ListenerRefused(t)
  \/ UseNull(t, "use", hdiServiceMgr)

-----------------------------------------------------------------------------
(***************************************************************************)
(* OnStart.  It asks for notices about the DSM after it has registered the *)
(* listener, and is told at once of a DSM that is there.                   *)
(***************************************************************************)
OnStart ==
  /\ ~ready
  /\ Counted("start")
  /\ Goto("main", "idle", "get")
  /\ UNCHANGED <<manager, hdi, known, callback, inFlight, pointers, flags,
                 mutex, crashed, history>>

AddSystemAbilityListener ==
  /\ Goto("main", "listen", "idle")
  /\ subscribed' = TRUE
  /\ notices' = IF ~subscribed /\ manager # 0 THEN Append(notices, "add")
                                              ELSE notices
  /\ ready' = TRUE
  /\ UNCHANGED <<outside, reports, tasks, retries, pointers, isHdiRemove,
                 mutex, crashed, history>>

(***************************************************************************)
(* OnAddSystemAbility and OnRemoveSystemAbility, for the DSM.              *)
(***************************************************************************)
Take(notice) == notices # <<>> /\ Head(notices) = notice
                  /\ notices' = Tail(notices)

OnAddSystemAbility ==
  /\ Take("add")
  /\ Goto("samgr", "idle", IF isHdiRemove THEN "get" ELSE "idle")
  /\ UNCHANGED <<outside, reports, tasks, retries, pointers, flags, mutex,
                 crashed, history>>

(***************************************************************************)
(* With a bug: the removal is remembered for ever.                         *)
(***************************************************************************)
RemoveStays ==
  /\ Goto("samgr", "listen", "idle")
  /\ UNCHANGED <<outside, inFlight, pointers, flags, mutex, crashed, history>>

ClearHdiRemove ==
  /\ Goto("samgr", "listen", "idle")
  /\ isHdiRemove' = FALSE
  /\ UNCHANGED <<outside, inFlight, pointers, ready, subscribed, mutex,
                 crashed, history>>

(***************************************************************************)
(* With a bug: the removal is not remembered.                              *)
(***************************************************************************)
OnRemoveForgotten ==
  /\ Take("remove")
  /\ Goto("samgr", "idle", "idle")
  /\ IF isHdiRemove
     THEN UNCHANGED <<hdiServiceMgr, iBatteryInterface, history>>
     ELSE /\ hdiServiceMgr' = 0
          /\ iBatteryInterface' = 0
          /\ Note("raced", UsesManager("samgr") \/ UsesInterface("samgr"))
  /\ UNCHANGED <<outside, reports, tasks, retries, hdiServStatListener, flags,
                 mutex, crashed>>

OnRemoveSystemAbility ==
  /\ Take("remove")
  /\ Goto("samgr", "idle", "idle")
  /\ IF isHdiRemove
     THEN UNCHANGED <<hdiServiceMgr, iBatteryInterface, isHdiRemove, history>>
     ELSE /\ hdiServiceMgr' = 0
          /\ iBatteryInterface' = 0
          /\ isHdiRemove' = TRUE
          /\ Note("raced", UsesManager("samgr") \/ UsesInterface("samgr"))
  /\ UNCHANGED <<outside, reports, tasks, retries, hdiServStatListener, ready,
                 subscribed, mutex, crashed>>

-----------------------------------------------------------------------------
(***************************************************************************)
(* With a bug: the status callback does not lock mutex_.                   *)
(***************************************************************************)
ReceiveUnlocked(l, report) ==
  /\ reports[l] # <<>> /\ Head(reports[l]) = report
  /\ reports' = [reports EXCEPT ![l] = Tail(@)]

(***************************************************************************)
(* The status callback.  START submits a task; STOP drops the interface.   *)
(***************************************************************************)
Receive(l, report) ==
  /\ reports[l] # <<>> /\ Head(reports[l]) = report
  /\ reports' = [reports EXCEPT ![l] = Tail(@)]
  /\ MayLock(l)

StartReport(l) ==
  /\ Receive(l, "START")
  /\ Goto(l, "idle", "idle")
  /\ tasks' = tasks + 1
  /\ writer' = None
  /\ UNCHANGED <<outside, notices, retries, pointers, flags, readers, crashed,
                 history>>

StopReport(l) ==
  /\ Receive(l, "STOP")
  /\ IF iBatteryInterface # 0
     THEN Goto(l, "idle", "unregister") /\ writer' = l
     ELSE Goto(l, "idle", "idle") /\ writer' = None
  /\ Note("stale", iBatteryInterface # 0 /\ l # hdiServStatListener)
  /\ UNCHANGED <<outside, notices, tasks, retries, pointers, flags, readers,
                 crashed>>

(***************************************************************************)
(* With a bug: the interface is dropped without UnRegister.                *)
(***************************************************************************)
DropWithoutUnRegister ==
  /\ iBatteryInterface # 0
  /\ iBatteryInterface' = 0
  /\ UNCHANGED callback

(***************************************************************************)
(* UnRegister, of the HDI that the interface belongs to.                   *)
(***************************************************************************)
DropInterface ==
  /\ iBatteryInterface # 0
  /\ callback' = (callback /\ iBatteryInterface # hdi)
  /\ iBatteryInterface' = 0

UnRegister(l) ==
  /\ Goto(l, "unregister", "idle")
  /\ DropInterface
  /\ writer' = None
  /\ UNCHANGED <<manager, hdi, counts, known, inFlight, hdiServiceMgr,
                 hdiServStatListener, flags, readers, crashed, history>>

(***************************************************************************)
(* The task of a START report: RegisterBatteryHdiCallback, and the getters *)
(* of InitBatteryInfo, of which one stands for all.                        *)
(***************************************************************************)
RunTask(w) ==
  /\ tasks > 0
  /\ Goto(w, "idle", "lock")
  /\ tasks' = tasks - 1
  /\ UNCHANGED <<outside, reports, notices, retries, pointers, flags, mutex,
                 crashed, history>>

AfterCallback == IF SetsThreshold THEN "testThreshold" ELSE "test"

GetInterface(w) ==
  /\ MayLock(w)
  /\ iBatteryInterface' = IF iBatteryInterface = 0 THEN hdi
                                                  ELSE iBatteryInterface
  /\ IF iBatteryInterface' = 0
     THEN Goto(w, "lock", AfterCallback) /\ writer' = None
     ELSE Goto(w, "lock", "callback") /\ writer' = w
  /\ UNCHANGED <<outside, inFlight, hdiServiceMgr, hdiServStatListener, flags,
                 readers, crashed, history>>

RegisterCallback(w) ==
  /\ Goto(w, "callback", AfterCallback)
  /\ iBatteryInterface # 0
  /\ IF iBatteryInterface # hdi
     THEN UNCHANGED <<callback, history>>
     ELSE \/ callback' = TRUE /\ UNCHANGED history
          \/ history' = history \cup {"refused"} /\ UNCHANGED callback
  /\ writer' = None
  /\ UNCHANGED <<manager, hdi, counts, known, inFlight, pointers, flags,
                 readers, crashed>>

(***************************************************************************)
(* SetLowCapacityThreshold tests and uses the interface without mutex_.    *)
(***************************************************************************)
TestThreshold(w) ==
  /\ Goto(w, "testThreshold", IF iBatteryInterface # 0 THEN "setThreshold"
                                                      ELSE "test")
  /\ UNCHANGED <<outside, inFlight, pointers, flags, mutex, crashed, history>>

SetThreshold(w) ==
  /\ Goto(w, "setThreshold", "test")
  /\ iBatteryInterface # 0
  /\ UNCHANGED <<outside, inFlight, pointers, flags, mutex, crashed, history>>

SetLowCapacityThreshold(w) ==
  \/ TestThreshold(w)
  \/ SetThreshold(w)
  \/ UseNull(w, "setThreshold", iBatteryInterface)

(***************************************************************************)
(* A getter: test the interface, use it, under the shared lock.            *)
(***************************************************************************)
TestInterface(t, from, to, otherwise) ==
  /\ MayShare
  /\ IF iBatteryInterface # 0
     THEN Goto(t, from, to) /\ readers' = readers \cup {t}
     ELSE Goto(t, from, otherwise) /\ UNCHANGED readers
  /\ UNCHANGED <<outside, inFlight, pointers, flags, writer, crashed, history>>

UseInterface(t, from) ==
  /\ Goto(t, from, "idle")
  /\ iBatteryInterface # 0
  /\ readers' = readers \ {t}
  /\ UNCHANGED <<outside, inFlight, pointers, flags, writer, crashed, history>>

InitBatteryInfo(w) ==
  \/ TestInterface(w, "test", "info", "idle")
  \/ UseInterface(w, "info")
  \/ UseNull(w, "info", iBatteryInterface)

(***************************************************************************)
(* A client's getter does the same.  A mock command or Reset goes on, in   *)
(* GetChargeType, and takes mutex_ shared a second time.                   *)
(***************************************************************************)
GetBatteryInfo(c) ==
  /\ Goto(c, "info", "convert")
  /\ iBatteryInterface # 0
  /\ UNCHANGED <<outside, inFlight, pointers, flags, mutex, crashed, history>>

(***************************************************************************)
(* With a bug: GetChargeType takes mutex_ exclusive.                       *)
(***************************************************************************)
GetChargeTypeExclusive(c) ==
  /\ MayLock(c)
  /\ IF iBatteryInterface # 0
     THEN Goto(c, "convert", "convertUse") /\ UNCHANGED readers
     ELSE Goto(c, "convert", "idle") /\ readers' = readers \ {c}
  /\ UNCHANGED <<outside, inFlight, pointers, flags, writer, crashed, history>>

GetChargeType(c) ==
  /\ MayShare
  /\ IF iBatteryInterface # 0
     THEN Goto(c, "convert", "convertUse") /\ UNCHANGED readers
     ELSE Goto(c, "convert", "idle") /\ readers' = readers \ {c}
  /\ UNCHANGED <<outside, inFlight, pointers, flags, writer, crashed, history>>

Getter(c) ==
  \/ TestInterface(c, "idle", "info", "idle")
  \/ UseInterface(c, "info")
  \/ UseNull(c, "info", iBatteryInterface)

MockCommand(c) ==
  \/ GetBatteryInfo(c)
  \/ GetChargeType(c)
  \/ UseInterface(c, "convertUse")
  \/ UseNull(c, "convertUse", iBatteryInterface)

-----------------------------------------------------------------------------
(***************************************************************************)
(* OnStop.  It unregisters the last listener that was made.                *)
(***************************************************************************)
OnStop ==
  /\ ready
  /\ Goto("main", "idle", "lock")
  /\ ready' = FALSE
  /\ UNCHANGED <<outside, inFlight, pointers, subscribed, isHdiRemove, mutex,
                 crashed, history>>

StopLock ==
  /\ MayLock("main")
  /\ Goto("main", "lock",
          IF iBatteryInterface # 0 THEN "unregister" ELSE "dropManager")
  /\ writer' = "main"
  /\ UNCHANGED <<outside, inFlight, pointers, flags, readers, crashed,
                 history>>

StopInterface ==
  /\ Goto("main", "unregister", "dropManager")
  /\ DropInterface
  /\ UNCHANGED <<manager, hdi, counts, known, inFlight, hdiServiceMgr,
                 hdiServStatListener, flags, mutex, crashed, history>>

(***************************************************************************)
(* Something was under way that goes on after the service has stopped.     *)
(***************************************************************************)
UnderWay ==
  \/ tasks + retries > 0 \/ notices # <<>>
  \/ \E l \in Listener : reports[l] # <<>>
  \/ \E t \in Thread \ ({"main"} \cup Client) : Busy(t)

StopWithoutManager ==
  /\ Goto("main", "dropManager", "idle")
  /\ hdiServiceMgr = 0
  /\ writer' = None
  /\ Note("late", UnderWay)
  /\ UNCHANGED <<outside, inFlight, pointers, flags, readers, crashed>>

TestManager ==
  /\ Goto("main", "dropManager", "dropListener")
  /\ hdiServiceMgr # 0
  /\ UNCHANGED <<outside, inFlight, pointers, flags, mutex, crashed, history>>

UnregisterListener ==
  /\ Goto("main", "dropListener", "idle")
  /\ hdiServiceMgr # 0
  /\ known' = IF hdiServiceMgr = manager
              THEN known \ {hdiServStatListener} ELSE known
  /\ hdiServiceMgr' = 0
  /\ writer' = None
  /\ history' = history \cup (IF UnderWay THEN {"late"} ELSE {})
                       \cup (IF UsesManager("main") THEN {"raced"} ELSE {})
  /\ UNCHANGED <<manager, hdi, counts, callback, inFlight,
                 hdiServStatListener, iBatteryInterface, flags, readers,
                 crashed>>

Stop ==
  \/ StopLock
  \/ StopInterface
  \/ UseNull("main", "unregister", iBatteryInterface)
  \/ StopWithoutManager
  \/ TestManager
  \/ UnregisterListener
  \/ UseNull("main", "dropListener", hdiServiceMgr)

-----------------------------------------------------------------------------
Environment == ManagerStarts \/ ManagerDies \/ HdiStarts \/ HdiDies

Report(l) ==
  \/ StartReport(l)
  \/ StopReport(l)
  \/ UnRegister(l)
  \/ UseNull(l, "unregister", iBatteryInterface)

StartTask(w) ==
  \/ RunTask(w)
  \/ GetInterface(w)
  \/ RegisterCallback(w)
  \/ UseNull(w, "callback", iBatteryInterface)
  \/ SetLowCapacityThreshold(w)
  \/ InitBatteryInfo(w)

Notice == OnAddSystemAbility \/ OnRemoveSystemAbility \/ ClearHdiRemove

Main == AddSystemAbilityListener \/ Stop

Next ==
  \/ Environment
  \/ \E t \in Registrar : Register(t)
  \/ Retry
  \/ OnStart
  \/ OnStop
  \/ Main
  \/ Notice
  \/ \E l \in Listener : Report(l)
  \/ \E w \in Worker : StartTask(w)
  \/ \E c \in Client : Getter(c) \/ MockCommand(c)
  \/ \E t \in Thread : WriterWaits(t)

Spec == Init /\ [][Next]_vars

(***************************************************************************)
(* Every thread goes on, what was submitted or sent arrives; nothing       *)
(* obliges the DSM, the HDI, the shell or a client to do anything.         *)
(***************************************************************************)
Fairness ==
  /\ \A t \in Registrar : WF_vars(Register(t))
  /\ WF_vars(Retry) /\ WF_vars(Main) /\ WF_vars(Notice)
  /\ \A l \in Listener : SF_vars(Report(l))
  /\ \A w \in Worker : SF_vars(StartTask(w))
  /\ \A c \in Client : WF_vars(Busy(c) /\ (Getter(c) \/ MockCommand(c)))

FairSpec == Spec /\ Fairness

-----------------------------------------------------------------------------
(***************************************************************************)
(* Where each kind of thread may stand.                                    *)
(***************************************************************************)
LabelsOf(t) ==
  CASE t = "main"    -> {"idle", "get", "use", "listen", "lock", "unregister",
                         "dropManager", "dropListener"}
    [] t = "samgr"   -> {"idle", "get", "use", "listen"}
    [] t = "queue"   -> {"idle", "get", "use"}
    [] t \in Listener -> {"idle", "unregister"}
    [] t \in Worker -> {"idle", "lock", "callback", AfterCallback, "test",
                        "info"}
                        \cup (IF SetsThreshold THEN {"setThreshold"} ELSE {})
    [] OTHER         -> {"idle", "info", "convert", "convertUse"}

Exclusive == {"unregister", "callback", "dropManager", "dropListener"}
Shared == {"info", "convert", "convertUse"}

(***************************************************************************)
(* mutex_ is held, exclusive or shared, exactly where the code holds it.   *)
(***************************************************************************)
MutexIsHeld ==
  \A t \in Thread :
    /\ pc[t] \in LabelsOf(t)
    /\ pc[t] \in Exclusive => writer = t /\ readers = {}
    /\ t \in readers <=> pc[t] \in Shared

(***************************************************************************)
(* A thread that is about to use a pointer has tested it, and it still is  *)
(* what was tested, unless it was assigned without mutex_.                 *)
(***************************************************************************)
TestedIsThere ==
  "raced" \notin history =>
    \A t \in Thread :
      /\ pc[t] \in {"use", "dropListener"} => hdiServiceMgr # 0
      /\ pc[t] \in {"unregister", "callback", "info", "convertUse"}
           => iBatteryInterface # 0

-----------------------------------------------------------------------------
(***************************************************************************)
(* What is due while the service runs, or is about to.                     *)
(***************************************************************************)
Connected == iBatteryInterface = hdi /\ callback
Active == ready \/ pc["main"] \in {"get", "use", "listen"}
Excluded == {"refused", "unseen", "stale"}

Occurs(report, queue) == \E i \in DOMAIN queue : queue[i] = report
EndsWith(queue, report) == queue # <<>> /\ queue[Len(queue)] = report

(***************************************************************************)
(* A registration of a listener is under way, or a notice that leads to    *)
(* one: OnAddSystemAbility registers after OnRemoveSystemAbility.          *)
(***************************************************************************)
Registering ==
  \/ retries > 0
  \/ \E t \in Registrar :
       \/ pc[t] = "get"
       \/ pc[t] = "use" /\ (hdiServStatListener \in known => hdiServiceMgr # manager)

WillRegister ==
  Occurs("remove", notices) \/ (isHdiRemove /\ pc["samgr"] = "idle")

StartIsDue ==
  \/ Registering
  \/ WillRegister
  \/ \E l \in Listener : EndsWith(reports[l], "START")

(***************************************************************************)
(* Nothing of the service is at the DSM and the HDI, or will be.           *)
(***************************************************************************)
Silent ==
  /\ known = {} /\ ~callback /\ iBatteryInterface = 0
  /\ tasks = 0 /\ retries = 0
  /\ \A l \in Listener : reports[l] = <<>>
  /\ \A t \in Thread \ ({"main"} \cup Client) : ~Busy(t)

(***************************************************************************)
(* Where main is in OnStart and OnStop.  Before its first registration     *)
(* there is nothing; once OnStop has dropped the interface, nobody gets it *)
(* again while OnStop holds mutex_.                                        *)
(***************************************************************************)
MainInOrder ==
  /\ ready => subscribed /\ ~Busy("main")
  /\ ~subscribed =>
       /\ notices = <<>> /\ ~isHdiRemove /\ ~Busy("samgr")
       /\ pc["main"] \in {"idle", "get", "use", "listen"}
       /\ pc["main"] # "listen" => Silent
  /\ pc["main"] \in {"dropManager", "dropListener"} => iBatteryInterface = 0

(***************************************************************************)
(* samgr tells the comings and goings of the DSM in turn.                  *)
(***************************************************************************)
NoticesInOrder ==
  /\ manager \in {0, counts["manager"]}
  /\ hdi # 0 \/ known # {} => manager # 0
  /\ \A i \in DOMAIN notices : i > 1 => notices[i] # notices[i - 1]
  /\ notices # <<>> => (EndsWith(notices, "add") <=> manager # 0)
  /\ isHdiRemove /\ ~Busy("samgr") =>
       IF notices = <<>> THEN manager = 0 ELSE notices[1] = "add"

(***************************************************************************)
(* A STOP report for a listener that the DSM still knows is followed by    *)
(* the START of the HDI that came after.  Only the death of the DSM, or    *)
(* OnStop, leaves reports to a listener that is not known.                 *)
(***************************************************************************)
ReportsInOrder ==
  /\ hdi # 0 =>
       \A l \in known :
         pc[l] = "unregister" \/ Occurs("STOP", reports[l])
           => EndsWith(reports[l], "START")
  /\ \A l \in Listener \ known :
       l = hdiServStatListener /\ reports[l] # <<>>
         => known = {} \/ ~Active \/ pc["main"] = "get"

(***************************************************************************)
(* The interface of an HDI that died is dropped before it can be taken     *)
(* for that of the next one.                                               *)
(***************************************************************************)
StaleIsDropped ==
  iBatteryInterface \notin {0, hdi} =>
    \/ Occurs("remove", notices)
    \/ \E l \in Listener : pc[l] = "unregister"
    \/ \E l \in known : Occurs("STOP", reports[l])

RegistrationIsDue ==
  Active /\ known = {} => Registering \/ WillRegister

ConnectionIsDue ==
  Active /\ hdi # 0 =>
    /\ (\E l \in Listener : pc[l] = "unregister") => StartIsDue
    /\ \/ StartIsDue
       \/ tasks > 0
       \/ \E w \in Worker : pc[w] = "lock"
       \/ \E w \in Worker : pc[w] = "callback" /\ iBatteryInterface = hdi
       \/ Connected

ServiceIsDue ==
  history \cap Excluded = {} =>
    StaleIsDropped /\ RegistrationIsDue /\ ConnectionIsDue

(***************************************************************************)
(* As long as the first DSM lives and one listener at most is known, what  *)
(* OnStop unregisters is all there is.                                     *)
(***************************************************************************)
StopFindsAll ==
  (manager = counts["manager"] /\ manager < 2
     /\ history \cap {"late", "doubled"} = {}) =>
    /\ ~isHdiRemove /\ ~Busy("samgr") /\ ~Occurs("remove", notices)
    /\ hdiServiceMgr \in {0, manager}
    /\ known \subseteq {hdiServStatListener}
    /\ known # {} => hdiServiceMgr # 0
    /\ callback => iBatteryInterface = hdi /\ hdi # 0
    /\ ~ready /\ ~Busy("main") => Silent

Settled ==
  /\ ~UnderWay
  /\ \A t \in Thread : ~Busy(t)

(***************************************************************************)
(* In the default build mutex_ keeps the interface that a thread has       *)
(* tested until it was used, against STOP reports, START tasks and OnStop; *)
(* only what is assigned without mutex_ in the middle of something, by the *)
(* removal of the DSM or by another registration, makes the service use a  *)
(* null pointer.  (The other build does so in SetLowCapacityThreshold.)    *)
(***************************************************************************)
NoNullUse == ~SetsThreshold /\ crashed => "raced" \in history

IInv ==
  /\ TypeOK /\ MutexIsHeld /\ TestedIsThere /\ NoNullUse
  /\ MainInOrder /\ NoticesInOrder /\ ReportsInOrder
  /\ ServiceIsDue /\ StopFindsAll

(***************************************************************************)
(* A service that is running, once everything on its way has arrived, has  *)
(* the interface of the HDI that is there, and its callback is registered, *)
(* however restarts of the HDI and the DSM interleave with the tasks, the  *)
(* retries and the notices.  Excluded, for nobody tries again: an HDI that *)
(* refused the callback; a death nobody was told of, of the DSM before     *)
(* OnStart has asked for its notices or of the HDI before the listener was *)
(* registered; and a STOP report of a listener that was replaced.          *)
(***************************************************************************)
RunningServiceIsConnected ==
  (ready /\ Settled /\ ~crashed /\ hdi # 0
     /\ history \cap {"refused", "unseen", "stale"} = {})
    => Connected

(***************************************************************************)
(* After OnStop nothing of the service is left at the DSM and the HDI, if  *)
(* no task, retry or report was under way that goes on behind it, no other *)
(* listener was replaced while the DSM knew it, and the DSM never died: a  *)
(* new DSM gets a new listener, though the service has stopped.            *)
(***************************************************************************)
StoppedServiceIsSilent ==
  (~ready /\ Settled /\ manager = 1 /\ history \cap {"late", "doubled"} = {})
    => known = {} /\ ~callback /\ iBatteryInterface = 0

(***************************************************************************)
(* An HDI that stays while the service is running gets connected for good. *)
(***************************************************************************)
GetsConnected ==
  <>[](ready /\ hdi # 0)
    => \/ <>[]Connected
       \/ <>(crashed \/ history \cap {"refused", "unseen", "stale"} # {})

(***************************************************************************)
(* Each getter and each Dump command returns, as the tests of Dump expect. *)
(* They do where a thread that holds a std::shared_mutex shared gets it    *)
(* shared a second time, even while a writer waits for it.                 *)
(***************************************************************************)
CommandReturns == \A c \in Client : Busy(c) ~> ~Busy(c) \/ crashed
=============================================================================
