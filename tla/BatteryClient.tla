---------------------------- MODULE BatteryClient ----------------------------
(***************************************************************************)
(* BatterySrvClient, the process-wide client of the battery service, and   *)
(* the bindings that call it.  The threads of one process share proxy_ and *)
(* deathRecipient_ under mutex_; the service may die and come back between *)
(* any two of their steps, and its death notice arrives when it arrives.   *)
(*                                                                         *)
(* The service answers from the battery interface of its HDI, which it may *)
(* lack (HdiLifeCycle models how it gets and loses it).  A value is        *)
(* abstracted to where it comes from: "READ" is a proper value that the    *)
(* HDI said, or that was mocked in its place, "RECORDED" the last one the  *)
(* service knows.                                                          *)
(***************************************************************************)
EXTENDS Naturals, Sequences, FiniteSets

CONSTANTS
    Thread,       \* the threads of the process that make calls
    Entry,        \* the entry points they call: records [binding, apis]
    Grants,       \* the sets of permissions the process may have
    MaxStarts,    \* bound: how often the service starts
    MaxFaults     \* bound: how often the system refuses a connection

Getters == {"GetCapacity", "GetChargingStatus", "GetHealthStatus", "GetPluggedType",
            "GetVoltage", "GetPresent", "GetTechnology", "GetBatteryTemperature",
            "GetNowCurrent", "GetRemainEnergy", "GetTotalEnergy", "GetCapacityLevel",
            "GetRemainingChargeTime"}

ConfigCalls == {"SetBatteryConfig", "GetBatteryConfig", "IsBatteryConfigSupported"}

Apis == Getters \cup ConfigCalls \cup {"HandleNotification"}

Bindings == {"native", "napi", "taihe", "cj", "capi", "status"}

Permissions == {"system", "POWER_OPTIMIZATION", "POWER_MANAGER"}

\* The two calls of GetBatteryInfo of the system battery module, in order.
StatusCalls == <<"GetCapacity", "GetChargingStatus">>

ASSUME ClientAssumption ==
    /\ Entry \subseteq [binding : Bindings, apis : Seq(Apis) \ {<<>>}]
    /\ \A e \in Entry : e.binding = "status" => e.apis = StatusCalls
    /\ Grants \subseteq SUBSET Permissions
    /\ MaxStarts \in Nat \ {0}
    /\ MaxFaults \in Nat

StateGetters == {"GetChargingStatus", "GetHealthStatus", "GetPluggedType"}

\* What a value is, or the error code of a call.
Values == {"READ", "INVALID", "INVALID_TEMP", "INVALID_STRING", "BUTT", "TRUE", "FALSE",
           "EMPTY", "NONE", "FULL", "NO_INIT", "RECORDED", "OK", "FAILURE",
           "CONNECTION_FAIL", "SYSTEM_API_DENIED", "PERMISSION_DENIED",
           "NOTIFICATION_FAIL"}

\* What a getter of the client returns when the call fails: INVALID_BATT_BOOL_VALUE
\* is true, INVALID_BATT_TEMP_VALUE a temperature, the technology is "Invalid".
FailedGetter(a) ==
    IF a \in StateGetters THEN "BUTT"
    ELSE IF a = "GetPresent" THEN "TRUE"
    ELSE IF a = "GetTechnology" THEN "INVALID_STRING"
    ELSE IF a = "GetBatteryTemperature" THEN "INVALID_TEMP"
    ELSE IF a = "GetCapacityLevel" THEN "NONE"
    ELSE "INVALID"

\* With a bug: a config call that got no answer reports the failure of the HDI.
FailedCallAsFailure(a) == IF a \in Getters THEN FailedGetter(a) ELSE "FAILURE"

FailedCall(a) == IF a \in Getters THEN FailedGetter(a) ELSE "CONNECTION_FAIL"

\* What a call returns when there is no proxy: the technology is empty then.
FailedConnect(a) == IF a = "GetTechnology" THEN "EMPTY" ELSE FailedCall(a)

\* What the service answers while it has no battery interface: a full battery,
\* states of value 0, and what it recorded last.
NoInterface(a) ==
    IF a \in {"GetCapacity", "GetCapacityLevel"} THEN "FULL"
    ELSE IF a \in StateGetters THEN "NONE"
    ELSE IF a = "GetVoltage" THEN "NO_INIT"
    ELSE IF a = "GetPresent" THEN "FALSE"
    ELSE IF a = "GetTechnology" THEN "EMPTY"
    ELSE "RECORDED"

\* What is left in the result of a getter whose HDI call fails.
Unread(a) ==
    IF a \in {"GetCapacity", "GetCapacityLevel"} THEN "FULL"
    ELSE IF a \in StateGetters THEN "NONE"
    ELSE IF a = "GetPresent" THEN "FALSE"
    ELSE IF a = "GetTechnology" THEN "EMPTY"
    ELSE "INVALID"

\* What the HDI may report that a getter shows as it shows a failure: a state
\* RESERVED, which has the value of BUTT, and a capacity of -1.
Unknown(a) ==
    IF a \in StateGetters THEN {"BUTT"} ELSE IF a = "GetCapacity" THEN {"INVALID"} ELSE {}

\* The getters whose values Dump mocks, whether the HDI is there or not.
Mockable == {"GetCapacity", "GetCapacityLevel", "GetChargingStatus", "GetPluggedType"}

\* What a getter of the service may answer to a caller with permissions ps.
GetterAnswers(a, ps, connected) ==
    IF a \in {"GetTotalEnergy", "GetRemainEnergy", "GetRemainingChargeTime"} /\ "system" \notin ps
    THEN {"INVALID"}
    ELSE IF a = "GetRemainingChargeTime" THEN {"RECORDED"}
    ELSE IF connected THEN {"READ", Unread(a)} \cup Unknown(a)
    ELSE {NoInterface(a)} \cup (IF a \in Mockable THEN {"READ"} ELSE {})

\* What a config call of the service may answer, and what HandleNotification may.
ConfigAnswers(a, ps, connected) ==
    IF "system" \notin ps \/ (a = "SetBatteryConfig" /\ "POWER_OPTIMIZATION" \notin ps)
    THEN {"SYSTEM_API_DENIED"}
    ELSE IF connected THEN {"OK", "FAILURE"} ELSE {"FAILURE"}

NotificationAnswers(ps) ==
    IF "system" \notin ps THEN {"SYSTEM_API_DENIED"}
    ELSE IF "POWER_MANAGER" \notin ps THEN {"PERMISSION_DENIED"}
    ELSE {"OK", "NOTIFICATION_FAIL"}

Answers(a, ps, connected) ==
    IF a \in Getters THEN GetterAnswers(a, ps, connected)
    ELSE IF a \in ConfigCalls THEN ConfigAnswers(a, ps, connected)
    ELSE NotificationAnswers(ps)

------------------------------------------------------------------------------
VARIABLES
    running,      \* the instance of the service that runs, 0 if none
    started,      \* how many instances were started
    table,        \* the instance in the table of the system ability manager
    connected,    \* the running instance has its battery interface
    permissions,  \* what the process may do
    faults,       \* how many connections the system refused
    proxy,        \* proxy_: the instance it talks to, 0 for nullptr
    watched,      \* the instances with a death recipient of this process
    notices,      \* the instances whose death notice is under way
    holder,       \* who holds mutex_ across steps: a set of at most one thread
    pc,           \* where each thread is
    entry,        \* the entry point each thread is in
    remote,       \* the instance the current call of each thread goes to
    answers,      \* the answers each thread got: [value, by], by = 0 if none
    disturbed     \* history: the service was not there for the whole call

serviceVars == <<running, started, table, connected>>
clientVars == <<proxy, watched, notices, holder, faults>>
callVars == <<pc, entry, remote, answers, disturbed>>
vars == <<serviceVars, clientVars, callVars, permissions>>

Instance == 1..MaxStarts
Labels == {"idle", "posted", "connect", "found", "watching", "call", "served", "done"}
NoEntry == [binding |-> "native", apis |-> <<>>]

Answer == [value : Values, by : 0..MaxStarts]

TypeOK ==
    /\ running \in 0..MaxStarts /\ started \in 0..MaxStarts /\ table \in 0..MaxStarts
    /\ connected \in BOOLEAN
    /\ permissions \in Grants
    /\ faults \in 0..MaxFaults
    /\ proxy \in 0..MaxStarts
    /\ watched \subseteq Instance /\ notices \subseteq Instance
    /\ holder \subseteq Thread
    /\ pc \in [Thread -> Labels]
    /\ entry \in [Thread -> Entry \cup {NoEntry}]
    /\ remote \in [Thread -> 0..MaxStarts]
    /\ answers \in [Thread -> Seq(Answer)]
    /\ disturbed \in [Thread -> BOOLEAN]

\* The service was published before the process made its first call.
Init ==
    /\ running = 1 /\ started = 1 /\ table = 1
    /\ connected = FALSE
    /\ permissions \in Grants
    /\ faults = 0
    /\ proxy = 0 /\ watched = {} /\ notices = {} /\ holder = {}
    /\ pc = [t \in Thread |-> "idle"]
    /\ entry = [t \in Thread |-> NoEntry]
    /\ remote = [t \in Thread |-> 0]
    /\ answers = [t \in Thread |-> <<>>]
    /\ disturbed = [t \in Thread |-> FALSE]

------------------------------------------------------------------------------
\* The service and the system ability manager.

Disturb == disturbed' = [t \in Thread |-> TRUE]

\* The service starts and is published.
Start ==
    /\ running = 0 /\ started < MaxStarts
    /\ started' = started + 1 /\ running' = started' /\ table' = started'
    /\ connected' = FALSE
    /\ UNCHANGED <<clientVars, callVars, permissions>>

\* It dies: its death recipients are told, some time later.
Die ==
    /\ running # 0
    /\ running' = 0 /\ connected' = FALSE
    /\ notices' = notices \cup ({running} \cap watched)
    /\ Disturb
    /\ UNCHANGED <<started, table, permissions, proxy, watched, holder, faults,
                   pc, entry, remote, answers>>

\* The system ability manager is told as well and forgets it.
Forget ==
    /\ table # running
    /\ table' = 0
    /\ UNCHANGED <<running, started, connected, clientVars, callVars, permissions>>

\* The service gets or loses its battery interface.
ChangeInterface ==
    /\ running # 0
    /\ connected' = ~connected
    /\ UNCHANGED <<running, started, table, clientVars, callVars, permissions>>

------------------------------------------------------------------------------
\* BatterySrvClient.

\* The thread gets the answer v of instance i to its current call (i = 0: the
\* call failed) and goes on with the next call of its entry point.
Receive(t, v, i) ==
    /\ answers' = [answers EXCEPT ![t] = Append(@, [value |-> v, by |-> i])]
    /\ pc' = [pc EXCEPT ![t] =
                IF Len(answers'[t]) = Len(entry[t].apis) THEN "done" ELSE "connect"]
    /\ remote' = [remote EXCEPT ![t] = 0]

Api(t) == entry[t].apis[Len(answers[t]) + 1]

Goto(t, l) == pc' = [pc EXCEPT ![t] = l]

\* With a bug: a call that failed is tried again until it succeeds.
FailAndRetry(t) ==
    /\ Goto(t, "connect")
    /\ remote' = [remote EXCEPT ![t] = 0]
    /\ UNCHANGED answers

\* The call ends without an answer: Connect returned nullptr, or the call failed.
FailConnect(t) == Receive(t, FailedConnect(Api(t)), 0)
FailCall(t) == Receive(t, FailedCall(Api(t)), 0)

\* Connect takes mutex_ and finds a proxy.
UseProxy(t) ==
    /\ pc[t] = "connect" /\ holder = {} /\ proxy # 0
    /\ remote' = [remote EXCEPT ![t] = proxy]
    /\ Goto(t, "call")
    /\ UNCHANGED <<serviceVars, clientVars, permissions, entry, answers, disturbed>>

\* With a bug: Connect does not take mutex_.
CheckWithoutMutex(t) ==
    /\ pc[t] = "connect" /\ proxy = 0
    /\ IF table = 0
         THEN FailConnect(t) /\ UNCHANGED holder
         ELSE /\ holder' = holder \cup {t}
              /\ remote' = [remote EXCEPT ![t] = table]
              /\ Goto(t, "found") /\ UNCHANGED answers
    /\ UNCHANGED <<serviceVars, permissions, proxy, watched, notices, faults, entry, disturbed>>

\* With a bug: the result of CheckSystemAbility is not tested for nullptr.
CheckWithoutTest(t) ==
    /\ pc[t] = "connect" /\ holder = {} /\ proxy = 0
    /\ holder' = {t}
    /\ remote' = [remote EXCEPT ![t] = table]
    /\ Goto(t, "found")
    /\ UNCHANGED <<serviceVars, permissions, proxy, watched, notices, faults, entry,
                   answers, disturbed>>

\* Connect takes mutex_, has no proxy and asks for the service: CheckSystemAbility
\* returns what the table holds, be it dead.
CheckSystemAbility(t) ==
    /\ pc[t] = "connect" /\ holder = {} /\ proxy = 0
    /\ IF table = 0
         THEN FailConnect(t) /\ UNCHANGED holder
         ELSE /\ holder' = {t}
              /\ remote' = [remote EXCEPT ![t] = table]
              /\ Goto(t, "found") /\ UNCHANGED answers
    /\ UNCHANGED <<serviceVars, permissions, proxy, watched, notices, faults, entry, disturbed>>

\* The system refuses: no system ability manager, or no death recipient.
Refuse(t) ==
    /\ faults < MaxFaults
    /\ faults' = faults + 1
    /\ \/ pc[t] = "connect" /\ holder = {} /\ proxy = 0
       \/ pc[t] = "found"
    /\ disturbed' = [disturbed EXCEPT ![t] = TRUE]
    /\ holder' = holder \ {t}
    /\ FailConnect(t)
    /\ UNCHANGED <<serviceVars, permissions, proxy, watched, notices, entry>>

\* AddDeathRecipient.  On an instance that is dead it fails, or it succeeds and
\* the notice is under way at once.
AddDeathRecipient(t) ==
    /\ pc[t] = "found"
    /\ \/ /\ remote[t] # running
          /\ holder' = {}
          /\ FailConnect(t)
          /\ UNCHANGED <<watched, notices>>
       \/ /\ watched' = watched \cup {remote[t]}
          /\ notices' = IF remote[t] = running THEN notices ELSE notices \cup {remote[t]}
          /\ Goto(t, "watching")
          /\ UNCHANGED <<holder, remote, answers>>
    /\ UNCHANGED <<serviceVars, permissions, proxy, faults, entry, disturbed>>

\* Connect stores proxy_ and deathRecipient_ and releases mutex_.
StoreProxy(t) ==
    /\ pc[t] = "watching"
    /\ proxy' = remote[t] /\ holder' = {}
    /\ Goto(t, "call")
    /\ UNCHANGED <<serviceVars, permissions, watched, notices, faults, entry, remote,
                   answers, disturbed>>

\* With a bug: ResetProxy does not take mutex_.
ResetWithoutMutex(i) ==
    /\ i \in notices
    /\ notices' = notices \ {i}
    /\ IF proxy = i
         THEN proxy' = 0 /\ watched' = watched \ {i}
         ELSE UNCHANGED <<proxy, watched>>
    /\ UNCHANGED <<serviceVars, permissions, holder, faults, callVars>>

\* With a bug: ResetProxy removes the death recipient and keeps proxy_.
ResetKeepsProxy(i) ==
    /\ i \in notices /\ holder = {}
    /\ notices' = notices \ {i}
    /\ watched' = watched \ {i}
    /\ UNCHANGED <<serviceVars, permissions, proxy, holder, faults, callVars>>

\* OnRemoteDied runs ResetProxy on a thread of the binder.  Nobody but mutex_
\* orders it with the calls.
OnRemoteDied(i) ==
    /\ i \in notices /\ holder = {}
    /\ notices' = notices \ {i}
    /\ IF proxy = i
         THEN proxy' = 0 /\ watched' = watched \ {i}
         ELSE UNCHANGED <<proxy, watched>>
    /\ UNCHANGED <<serviceVars, permissions, holder, faults, callVars>>

\* The request reaches the instance, or it is dead and the call fails.
Serve(t) ==
    /\ pc[t] = "call"
    /\ IF remote[t] = running
         THEN Goto(t, "served") /\ UNCHANGED <<remote, answers>>
         ELSE FailCall(t)
    /\ UNCHANGED <<serviceVars, permissions, clientVars, entry, disturbed>>

\* The service answers, or it died and the reply is lost.
Reply(t) ==
    /\ pc[t] = "served"
    /\ IF remote[t] = running
         THEN \E v \in Answers(Api(t), permissions, connected) : Receive(t, v, running)
         ELSE FailCall(t)
    /\ UNCHANGED <<serviceVars, permissions, clientVars, entry, disturbed>>

------------------------------------------------------------------------------
\* The bindings.

\* The service is there and no thread holds on to an instance that is not.
Settled ==
    /\ running # 0 /\ notices = {}
    /\ \A t \in Thread : pc[t] \in {"found", "watching"} => remote[t] = running

\* An application calls an entry point.  getStatus of the system battery module
\* only posts a task to its JS thread; the others connect at once.
Call(t, e) ==
    /\ pc[t] = "idle"
    /\ entry' = [entry EXCEPT ![t] = e]
    /\ Goto(t, IF e.binding = "status" THEN "posted" ELSE "connect")
    /\ disturbed' = [disturbed EXCEPT ![t] = ~Settled]
    /\ UNCHANGED <<serviceVars, permissions, clientVars, remote, answers>>

\* napi_send_event runs the task, or refuses it and nobody is called back.
RunTask(t) ==
    /\ pc[t] = "posted"
    /\ Goto(t, "connect")
    /\ UNCHANGED <<serviceVars, permissions, clientVars, entry, remote, answers, disturbed>>

RefuseTask(t) ==
    /\ pc[t] = "posted" /\ faults < MaxFaults
    /\ faults' = faults + 1
    /\ Goto(t, "idle")
    /\ entry' = [entry EXCEPT ![t] = NoEntry]
    /\ UNCHANGED <<serviceVars, permissions, proxy, watched, notices, holder, remote,
                   answers, disturbed>>

\* The entry point returns to the application.
Return(t) ==
    /\ pc[t] = "done"
    /\ Goto(t, "idle")
    /\ entry' = [entry EXCEPT ![t] = NoEntry]
    /\ answers' = [answers EXCEPT ![t] = <<>>]
    /\ UNCHANGED <<serviceVars, permissions, clientVars, remote, disturbed>>

\* GetBatteryInfo of the system battery module: both readings are valid.
GotBatteryInfo(as) == as[1].value # "INVALID" /\ as[2].value # "BUTT"

\* The callbacks that GetBatteryStats calls, in order, of those it was given.
Callbacks(as) == <<IF GotBatteryInfo(as) THEN "success" ELSE "fail", "complete">>

\* What a config call throws at a JS application: nothing, an error of the
\* table with its code, or undefined for a code that IsError does not count.
IsError(code) == code \notin {"OK", "FAILURE"}

NapiThrows(code) ==
    IF code = "OK" THEN "nothing" ELSE IF IsError(code) THEN code ELSE "undefined"

TaiheThrows(code) == IF code \notin {"OK", "FAILURE"} THEN code ELSE "nothing"

Throws(binding, code) == IF binding = "napi" THEN NapiThrows(code) ELSE TaiheThrows(code)

\* The value of a getter an application sees.  NAPI passes the number on as it
\* is, Cangjie makes an empty technology a null pointer, and Taihe maps a state
\* that it does not know to its own default.  The C API knows no default but BUTT.
NapiShown(v) == v

CjShown(v) == IF v = "EMPTY" THEN "nullptr" ELSE v

CapiShown(v) == v

TaiheShown(a, v) ==
    IF v # "BUTT" THEN v ELSE IF a = "GetHealthStatus" THEN "UNKNOWN" ELSE "NONE"

Shown(binding, a, v) ==
    CASE binding = "napi" -> NapiShown(v)
      [] binding = "cj" -> CjShown(v)
      [] binding = "capi" -> CapiShown(v)
      [] binding = "taihe" -> TaiheShown(a, v)
      [] OTHER -> v

------------------------------------------------------------------------------
Next ==
    \/ Start
    \/ Die
    \/ Forget
    \/ ChangeInterface
    \/ \E i \in notices : OnRemoteDied(i)
    \/ \E t \in Thread :
        \/ \E e \in Entry : Call(t, e)
        \/ RunTask(t)
        \/ RefuseTask(t)
        \/ UseProxy(t)
        \/ CheckSystemAbility(t)
        \/ Refuse(t)
        \/ AddDeathRecipient(t)
        \/ StoreProxy(t)
        \/ Serve(t)
        \/ Reply(t)
        \/ Return(t)

Spec == Init /\ [][Next]_vars

------------------------------------------------------------------------------
\* The threads of the process and of the binder run, the system ability manager
\* clears its table.  Nothing makes the service start again.
Step(t) ==
    \/ RunTask(t)
    \/ UseProxy(t)
    \/ CheckSystemAbility(t)
    \/ AddDeathRecipient(t)
    \/ StoreProxy(t)
    \/ Serve(t)
    \/ Reply(t)
    \/ Return(t)

Fairness ==
    /\ \A t \in Thread : WF_vars(Step(t))
    /\ \A i \in Instance : WF_vars(OnRemoteDied(i))
    /\ WF_vars(Forget)

FairSpec == Spec /\ Fairness

------------------------------------------------------------------------------
\* A cached proxy of a dead service has its death notice under way: without it
\* nothing would ever reset proxy_, and every later call would fail.
DeadProxyHasNotice == proxy # 0 /\ proxy # running => proxy \in notices

\* mutex_ is held across steps exactly by the one thread that is connecting, and
\* only while there is no proxy.
Connecting == {"found", "watching"}

MutexIsHeld ==
    /\ \A t \in Thread : t \in holder <=> pc[t] \in Connecting
    /\ \A t, u \in holder : t = u
    /\ holder # {} => proxy = 0
    /\ \A t \in Thread : pc[t] \in Connecting \cup {"call", "served"} <=> remote[t] # 0

\* Nobody refers to an instance that was not started yet.
NothingFromTheFuture ==
    /\ running \in {0, started}
    /\ running # 0 => table = running
    /\ table <= started /\ proxy <= started
    /\ watched \subseteq 1..started /\ notices \subseteq 1..started
    /\ \A t \in Thread : remote[t] <= started

\* A death recipient that is to be noticed is noticed: for the cached proxy and
\* for the one that a thread in Connect is about to cache.
DeathIsNoticed ==
    /\ running \notin notices
    /\ proxy # 0 => proxy \in watched
    /\ DeadProxyHasNotice
    /\ \A t \in Thread : pc[t] = "watching" =>
          remote[t] \in watched /\ (remote[t] # running => remote[t] \in notices)

\* A thread in a call has at least one call of its entry point to go.
CallsAreLeft ==
    \A t \in Thread :
        /\ pc[t] \in {"idle", "posted"} => answers[t] = <<>>
        /\ pc[t] \notin {"idle", "done"} =>
              entry[t] \in Entry /\ Len(answers[t]) < Len(entry[t].apis)

\* The answer r to the call a of a process with permissions ps is a value of the
\* client for a failed call, or one that the service gives to that caller.
Fits(r, a, ps) ==
    IF r.by = 0 THEN r.value \in {FailedConnect(a), FailedCall(a)}
    ELSE \E c \in BOOLEAN : r.value \in Answers(a, ps, c)

\* The answers a thread got are those to the calls of its entry point, in their
\* order, and when it is done there is one to each.
AnswersFit ==
    \A t \in Thread :
        /\ \A n \in 1..Len(answers[t]) : Fits(answers[t][n], entry[t].apis[n], permissions)
        /\ pc[t] = "done" => entry[t] \in Entry /\ Len(answers[t]) = Len(entry[t].apis)

IInv ==
    /\ TypeOK /\ CallsAreLeft /\ AnswersFit
    /\ MutexIsHeld /\ NothingFromTheFuture /\ DeathIsNoticed

\* A connection that works is never dropped or replaced: a late notice of an
\* earlier instance, or a second thread in Connect, leaves it alone.
LivingProxyIsKept == [][proxy # 0 /\ proxy' # proxy => proxy # running]_vars

\* A call fails only if the service died, was not there or was not yet known to
\* be dead at some time of the call, or the system refused the connection.
FailsOnlyWhenDisturbed ==
    \A t \in Thread : \A n \in 1..Len(answers[t]) : answers[t][n].by = 0 => disturbed[t]

\* While a call is not disturbed everybody agrees on the instance that runs.
UndisturbedIsSettled ==
    \A t \in Thread :
        pc[t] # "idle" /\ ~disturbed[t] =>
            Settled /\ remote[t] \in {0, running}

\* The values by which an application tells that a getter failed, where it can.
FailureShows(binding, a) ==
    CASE a = "GetCapacity" -> TRUE
      [] a \in {"GetChargingStatus", "GetHealthStatus", "GetPluggedType"} -> binding # "taihe"
      [] OTHER -> FALSE

\* What the entry point tells the application.  getStatus calls success only if
\* both of its calls got an answer, and never fails because the service lacks
\* its battery interface: both answered, it fails only for a state or a capacity
\* that the HDI itself does not know.  A config call throws the connection error
\* exactly if it got no answer, and it is silent only if the service served it for
\* a caller that may ask.  A proper capacity or state shown comes from the service.
FailureIsTold ==
    \A t \in Thread : pc[t] = "done" =>
        LET b == entry[t].binding
            a == entry[t].apis[1]
            as == answers[t]
        IN  /\ b = "status" =>
                /\ Callbacks(as)[1] = "success" => \A n \in 1..2 : as[n].by # 0
                /\ Callbacks(as)[1] = "fail" => \E n \in 1..2 :
                        as[n].by = 0 \/ as[n].value \in Unknown(StatusCalls[n])
            /\ a \in ConfigCalls /\ b \in {"napi", "taihe"} =>
                /\ Throws(b, as[1].value) = "CONNECTION_FAIL" <=> as[1].by = 0
                /\ Throws(b, as[1].value) = "nothing" =>
                        as[1].by # 0 /\ "system" \in permissions
            /\ b # "status" /\ FailureShows(b, a) =>
                (as[1].by = 0 => Shown(b, a, as[1].value) \in {"INVALID", "BUTT"})

\* Once the service stays and the system no longer refuses, calls stop failing.
CallsRecover ==
    (<>[](running # 0) /\ <>[][faults' = faults]_vars)
        => <>[][\A t \in Thread : answers'[t] # answers[t] /\ answers'[t] # <<>>
                    => answers'[t][Len(answers'[t])].by # 0]_vars

\* A posted getStatus ends in its callbacks, or its task was refused.
StatusCompletes ==
    \A t \in Thread : pc[t] = "posted" ~> pc[t] \in {"done", "idle"}
==============================================================================
