------------------------- MODULE BatteryClientProofs -------------------------
(***************************************************************************)
(* The cached proxy of BatteryClient, for all threads, entry points and    *)
(* numbers of restarts and refusals.                                       *)
(***************************************************************************)
EXTENDS BatteryClient, TLAPS

(***************************************************************************)
(* A call that ends without an answer.                                     *)
(***************************************************************************)
Fail(t) == FailConnect(t) \/ FailCall(t)

(***************************************************************************)
(* Every answer is one of the values.                                      *)
(***************************************************************************)
LEMMA AnswersAreValues ==
  ASSUME NEW a \in Apis, NEW ps, NEW c
  PROVE  /\ FailedConnect(a) \in Values /\ FailedCall(a) \in Values
         /\ Answers(a, ps, c) \subseteq Values
<1>1. FailedGetter(a) \in Values
  BY DEF FailedGetter, Values
<1>2. Unread(a) \in Values /\ NoInterface(a) \in Values
  BY DEF Unread, NoInterface, Values
<1>3. FailedConnect(a) \in Values /\ FailedCall(a) \in Values
  BY <1>1 DEF FailedConnect, FailedCall, Values
<1>4. GetterAnswers(a, ps, c) \subseteq Values
  BY <1>2 DEF GetterAnswers, Unknown, Values
<1>5. ConfigAnswers(a, ps, c) \subseteq Values /\ NotificationAnswers(ps) \subseteq Values
  BY DEF Values, ConfigAnswers, NotificationAnswers
<1>. QED
  BY <1>3, <1>4, <1>5 DEF Answers

(***************************************************************************)
(* The call a thread is in is one of its entry point.                      *)
(***************************************************************************)
LEMMA ApiIsCall ==
  ASSUME TypeOK, CallsAreLeft, NEW t \in Thread, pc[t] \notin {"idle", "done"}
  PROVE  Api(t) \in Apis /\ entry[t].apis \in Seq(Apis)
<1>1. entry[t].apis \in Seq(Apis)
  BY ClientAssumption DEF CallsAreLeft
<1>2. Len(answers[t]) \in Nat
  BY DEF TypeOK
<1>3. Len(answers[t]) < Len(entry[t].apis)
  BY DEF CallsAreLeft
<1>. QED
  BY <1>1, <1>2, <1>3 DEF Api

(***************************************************************************)
(* Receiving an answer moves one thread on and leaves the others alone.    *)
(***************************************************************************)
LEMMA ReceiveIsLocal ==
  ASSUME TypeOK, CallsAreLeft, NEW t \in Thread, pc[t] \notin {"idle", "posted", "done"},
         NEW v \in Values, NEW i \in 0..MaxStarts, Receive(t, v, i)
  PROVE  /\ pc' \in [Thread -> Labels]
         /\ pc'[t] \in {"connect", "done"}
         /\ \A u \in Thread \ {t} : pc'[u] = pc[u] /\ remote'[u] = remote[u]
                                     /\ answers'[u] = answers[u]
         /\ remote' \in [Thread -> 0..MaxStarts] /\ remote'[t] = 0
         /\ answers' \in [Thread -> Seq(Answer)]
         /\ answers'[t] = Append(answers[t], [value |-> v, by |-> i])
         /\ Len(answers'[t]) = Len(answers[t]) + 1
         /\ pc'[t] # "done" => Len(answers'[t]) < Len(entry[t].apis)
<1>1. answers'[t] = Append(answers[t], [value |-> v, by |-> i])
  BY DEF Receive, TypeOK
<1>2. answers' \in [Thread -> Seq(Answer)]
  <2>1. [value |-> v, by |-> i] \in Answer
    BY DEF Answer
  <2>2. \A s \in Seq(Answer), e \in Answer : Append(s, e) \in Seq(Answer)
    OBVIOUS
  <2>3. answers \in [Thread -> Seq(Answer)]
    BY DEF TypeOK
  <2>4. answers' = [answers EXCEPT ![t] = Append(@, [value |-> v, by |-> i])]
    BY DEF Receive
  <2>. QED
    BY <2>1, <2>2, <2>3, <2>4
<1>3. Len(answers'[t]) = Len(answers[t]) + 1 /\ Len(answers[t]) \in Nat
  <2>1. \A S : \A s \in Seq(S), e \in S : Len(Append(s, e)) = Len(s) + 1 /\ Len(s) \in Nat
    OBVIOUS
  <2>2. answers[t] \in Seq(Answer)
    BY DEF TypeOK
  <2>3. [value |-> v, by |-> i] \in Answer
    BY DEF Answer
  <2>. QED
    BY <1>1, <2>1, <2>2, <2>3
<1>4. entry[t].apis \in Seq(Apis) /\ Len(answers[t]) < Len(entry[t].apis)
  BY ApiIsCall DEF CallsAreLeft
<1>5. /\ pc' \in [Thread -> Labels] /\ pc'[t] \in {"connect", "done"}
      /\ pc'[t] = IF Len(answers'[t]) = Len(entry[t].apis) THEN "done" ELSE "connect"
  <2>1. pc \in [Thread -> Labels]
    BY DEF TypeOK
  <2>. QED
    BY <2>1 DEF Receive, Labels
<1>6. \A u \in Thread \ {t} : pc'[u] = pc[u] /\ remote'[u] = remote[u]
                                /\ answers'[u] = answers[u]
  BY DEF Receive, TypeOK
<1>7. remote' \in [Thread -> 0..MaxStarts] /\ remote'[t] = 0
  <2>1. remote \in [Thread -> 0..MaxStarts] /\ 0 \in 0..MaxStarts
    BY ClientAssumption DEF TypeOK
  <2>. QED
    BY <2>1 DEF Receive
<1>8. pc'[t] # "done" => Len(answers'[t]) < Len(entry[t].apis)
  <2>1. Len(entry[t].apis) \in Nat
    BY <1>4
  <2>. QED
    BY <1>3, <1>4, <1>5, <2>1
<1>. QED
  BY <1>1, <1>2, <1>3, <1>5, <1>6, <1>7, <1>8

(***************************************************************************)
(* The initial states satisfy the inductive invariant.                     *)
(***************************************************************************)
LEMMA InvInit == Init => IInv
<1> SUFFICES ASSUME Init PROVE IInv
  OBVIOUS
<1>1. MaxStarts \in Nat \ {0} /\ MaxFaults \in Nat
  BY ClientAssumption
<1>2. answers \in [Thread -> Seq(Answer)]
  BY DEF Init
<1>3. /\ pc \in [Thread -> Labels] /\ entry \in [Thread -> Entry \cup {NoEntry}]
      /\ remote \in [Thread -> 0..MaxStarts] /\ disturbed \in [Thread -> BOOLEAN]
  BY <1>1 DEF Init, Labels
<1>4. /\ {running, started, table, proxy} \subseteq 0..MaxStarts /\ faults \in 0..MaxFaults
      /\ watched = {} /\ notices = {} /\ holder = {} /\ connected = FALSE
      /\ permissions \in Grants
  BY <1>1 DEF Init
<1>5. CallsAreLeft /\ AnswersFit /\ MutexIsHeld /\ NothingFromTheFuture /\ DeathIsNoticed
  BY DEF Init, CallsAreLeft, AnswersFit, MutexIsHeld, NothingFromTheFuture, DeathIsNoticed,
         DeadProxyHasNotice, Connecting
<1>6. TypeOK
  BY <1>2, <1>3, <1>4 DEF TypeOK
<1>. QED
  BY <1>5, <1>6 DEF IInv

(***************************************************************************)
(* A thread that fails a call gets an answer of nobody.                    *)
(***************************************************************************)
LEMMA FailIsReceive ==
  ASSUME TypeOK, CallsAreLeft, NEW t \in Thread, pc[t] \notin {"idle", "posted", "done"},
         Fail(t)
  PROVE  \E v \in Values : Receive(t, v, 0)
BY ApiIsCall, AnswersAreValues DEF Fail, FailConnect, FailCall

(***************************************************************************)
(* A reply ends the call of its thread, be it lost.                        *)
(***************************************************************************)
LEMMA ReplyIsLocal ==
  ASSUME TypeOK, CallsAreLeft, NEW t \in Thread, Reply(t)
  PROVE  /\ pc'[t] \in {"connect", "done"} /\ remote'[t] = 0
         /\ \A u \in Thread \ {t} : pc'[u] = pc[u] /\ remote'[u] = remote[u]
                                     /\ answers'[u] = answers[u]
<1>1. pc[t] = "served" /\ running \in 0..MaxStarts /\ 0 \in 0..MaxStarts
  BY ClientAssumption DEF Reply, TypeOK
<1>2. CASE remote[t] = running
  <2>1. PICK v \in Answers(Api(t), permissions, connected) : Receive(t, v, running)
    BY <1>2 DEF Reply
  <2>2. v \in Values
    BY <1>1, ApiIsCall, AnswersAreValues
  <2>. QED
    BY <1>1, <2>1, <2>2, ReceiveIsLocal
<1>3. CASE remote[t] # running
  BY <1>1, <1>3, FailIsReceive, ReceiveIsLocal DEF Reply, Fail
<1>. QED
  BY <1>2, <1>3

(***************************************************************************)
(* A request that is sent moves its thread only.                           *)
(***************************************************************************)
LEMMA ServeIsLocal ==
  ASSUME TypeOK, CallsAreLeft, NEW t \in Thread, Serve(t)
  PROVE  /\ pc'[t] \in {"connect", "done", "served"}
         /\ \A u \in Thread \ {t} : pc'[u] = pc[u] /\ remote'[u] = remote[u]
<1>1. pc[t] = "call" /\ 0 \in 0..MaxStarts
  BY ClientAssumption DEF Serve
<1>2. CASE remote[t] = running
  BY <1>2 DEF Serve, Goto, TypeOK
<1>3. CASE remote[t] # running
  BY <1>1, <1>3, FailIsReceive, ReceiveIsLocal DEF Serve, Fail
<1>. QED
  BY <1>2, <1>3

(***************************************************************************)
(* Every step keeps the types and the calls to go.                         *)
(***************************************************************************)
LEMMA TypeNext ==
  TypeOK /\ CallsAreLeft /\ MutexIsHeld /\ [Next]_vars => TypeOK' /\ CallsAreLeft'
<1> SUFFICES ASSUME TypeOK, CallsAreLeft, MutexIsHeld, [Next]_vars PROVE TypeOK' /\ CallsAreLeft'
  OBVIOUS
<1>m. MaxStarts \in Nat \ {0} /\ MaxFaults \in Nat
  BY ClientAssumption
<1>r. ASSUME NEW t \in Thread, NEW v \in Values, NEW i \in 0..MaxStarts,
             Receive(t, v, i), pc[t] \notin {"idle", "posted", "done"}, UNCHANGED entry
      PROVE  /\ pc' \in [Thread -> Labels] /\ remote' \in [Thread -> 0..MaxStarts]
             /\ answers' \in [Thread -> Seq(Answer)] /\ CallsAreLeft'
  <2>1. /\ pc' \in [Thread -> Labels] /\ remote' \in [Thread -> 0..MaxStarts]
        /\ answers' \in [Thread -> Seq(Answer)]
    BY <1>r, ReceiveIsLocal
  <2>2. \A u \in Thread \ {t} : pc'[u] = pc[u] /\ answers'[u] = answers[u]
    BY <1>r, ReceiveIsLocal
  <2>3. /\ pc'[t] \in {"connect", "done"}
        /\ pc'[t] # "done" => Len(answers'[t]) < Len(entry[t].apis)
    BY <1>r, ReceiveIsLocal
  <2>4. entry[t] \in Entry
    BY <1>r DEF CallsAreLeft
  <2>. QED
    BY <1>r, <2>1, <2>2, <2>3, <2>4 DEF CallsAreLeft
<1>f. ASSUME NEW t \in Thread, Fail(t), pc[t] \notin {"idle", "posted", "done"}, UNCHANGED entry
      PROVE  /\ pc' \in [Thread -> Labels] /\ remote' \in [Thread -> 0..MaxStarts]
             /\ answers' \in [Thread -> Seq(Answer)] /\ CallsAreLeft'
  <2>1. 0 \in 0..MaxStarts
    BY <1>m
  <2>. QED
    BY <1>f, <1>r, <2>1, FailIsReceive
<1>g. ASSUME NEW t \in Thread, NEW l \in Labels \ {"idle", "posted"}, Goto(t, l),
             pc[t] \notin {"idle", "done"}, UNCHANGED <<entry, answers>>
      PROVE  pc' \in [Thread -> Labels] /\ CallsAreLeft'
  BY <1>g DEF Goto, TypeOK, CallsAreLeft
<1> USE DEF serviceVars, clientVars, callVars
<1>1. CASE Start
  <2>1. started' \in 0..MaxStarts /\ running' = started' /\ table' = started'
    BY <1>1, <1>m DEF Start, TypeOK
  <2>2. connected' \in BOOLEAN /\ CallsAreLeft'
    BY <1>1 DEF Start, CallsAreLeft
  <2>. QED
    BY <1>1, <2>1, <2>2 DEF Start, TypeOK
<1>2. CASE Die
  <2>0. running' = 0 /\ connected' = FALSE
    BY <1>2 DEF Die
  <2>1. running' \in 0..MaxStarts
    BY <1>m, <2>0
  <2>4. connected' \in BOOLEAN
    BY <2>0
  <2>2. notices' \subseteq Instance
    <3>1. notices \subseteq Instance /\ watched \subseteq Instance
      BY DEF TypeOK
    <3>. QED
      BY <1>2, <3>1 DEF Die
  <2>3. disturbed' \in [Thread -> BOOLEAN] /\ CallsAreLeft'
    BY <1>2 DEF Die, Disturb, CallsAreLeft
  <2>. QED
    BY <1>2, <2>1, <2>2, <2>3, <2>4 DEF Die, TypeOK
<1>3. CASE Forget
  BY <1>3, <1>m DEF Forget, TypeOK, CallsAreLeft
<1>4. CASE ChangeInterface
  BY <1>4 DEF ChangeInterface, TypeOK, CallsAreLeft
<1>5. ASSUME NEW i \in notices, OnRemoteDied(i) PROVE TypeOK' /\ CallsAreLeft'
  BY <1>5, <1>m DEF OnRemoteDied, TypeOK, CallsAreLeft
<1>6. ASSUME NEW t \in Thread, NEW e \in Entry, Call(t, e) PROVE TypeOK' /\ CallsAreLeft'
  <2>1. pc[t] = "idle" /\ answers[t] = <<>>
    BY <1>6 DEF Call, CallsAreLeft
  <2>2. e.apis \in Seq(Apis) /\ e.apis # <<>>
    BY ClientAssumption
  <2>3. Len(answers[t]) < Len(e.apis)
    BY <2>1, <2>2
  <2>4. entry' \in [Thread -> Entry \cup {NoEntry}] /\ entry'[t] = e
    BY <1>6 DEF Call, TypeOK
  <2>5. \A u \in Thread \ {t} : entry'[u] = entry[u] /\ pc'[u] = pc[u]
    BY <1>6 DEF Call, Goto, TypeOK
  <2>6. pc' \in [Thread -> Labels] /\ pc'[t] \in {"posted", "connect"}
    BY <1>6 DEF Call, Goto, TypeOK, Labels
  <2>7. disturbed' \in [Thread -> BOOLEAN]
    BY <1>6 DEF Call, TypeOK, Settled
  <2>8. TypeOK'
    BY <1>6, <2>4, <2>6, <2>7 DEF Call, TypeOK
  <2>9. CallsAreLeft'
    BY <1>6, <2>1, <2>3, <2>4, <2>5, <2>6 DEF Call, CallsAreLeft
  <2>. QED
    BY <2>8, <2>9
<1>7. ASSUME NEW t \in Thread, RunTask(t) PROVE TypeOK' /\ CallsAreLeft'
  <2>1. pc' \in [Thread -> Labels] /\ CallsAreLeft'
    BY <1>7, <1>g DEF RunTask, Labels
  <2>. QED
    BY <1>7, <2>1 DEF RunTask, TypeOK
<1>8. ASSUME NEW t \in Thread, RefuseTask(t) PROVE TypeOK' /\ CallsAreLeft'
  <2>1. pc' \in [Thread -> Labels] /\ entry' \in [Thread -> Entry \cup {NoEntry}]
    BY <1>8 DEF RefuseTask, Goto, TypeOK, Labels
  <2>2. faults' \in 0..MaxFaults
    BY <1>8, <1>m DEF RefuseTask, TypeOK
  <2>3. TypeOK'
    BY <1>8, <2>1, <2>2 DEF RefuseTask, TypeOK
  <2>4. CallsAreLeft'
    BY <1>8 DEF RefuseTask, Goto, TypeOK, CallsAreLeft
  <2>. QED
    BY <2>3, <2>4
<1>9. ASSUME NEW t \in Thread, UseProxy(t) PROVE TypeOK' /\ CallsAreLeft'
  <2>1. pc' \in [Thread -> Labels] /\ CallsAreLeft'
    BY <1>9, <1>g DEF UseProxy, Labels
  <2>. QED
    BY <1>9, <2>1 DEF UseProxy, TypeOK
<1>10. ASSUME NEW t \in Thread, CheckSystemAbility(t) PROVE TypeOK' /\ CallsAreLeft'
  <2>1. CASE table = 0
    BY <1>10, <1>f, <2>1 DEF CheckSystemAbility, TypeOK, Fail
  <2>2. CASE table # 0
    <3>1. pc' \in [Thread -> Labels] /\ CallsAreLeft'
      BY <1>10, <1>g, <2>2 DEF CheckSystemAbility, Labels
    <3>. QED
      BY <1>10, <2>2, <3>1 DEF CheckSystemAbility, TypeOK
  <2>. QED
    BY <2>1, <2>2
<1>11. ASSUME NEW t \in Thread, Refuse(t) PROVE TypeOK' /\ CallsAreLeft'
  <2>1. /\ pc' \in [Thread -> Labels] /\ remote' \in [Thread -> 0..MaxStarts]
        /\ answers' \in [Thread -> Seq(Answer)] /\ CallsAreLeft'
    BY <1>11, <1>f DEF Refuse, Fail
  <2>2. faults' \in 0..MaxFaults
    BY <1>11, <1>m DEF Refuse, TypeOK
  <2>3. disturbed' \in [Thread -> BOOLEAN] /\ holder' \subseteq Thread
    BY <1>11 DEF Refuse, TypeOK
  <2>. QED
    BY <1>11, <2>1, <2>2, <2>3 DEF Refuse, TypeOK
<1>12. ASSUME NEW t \in Thread, AddDeathRecipient(t) PROVE TypeOK' /\ CallsAreLeft'
  <2>1. CASE Fail(t) /\ holder' = {} /\ UNCHANGED <<watched, notices>>
    BY <1>12, <1>f, <2>1 DEF AddDeathRecipient, TypeOK
  <2>2. CASE /\ Goto(t, "watching") /\ watched' = watched \cup {remote[t]}
             /\ notices' \subseteq notices \cup {remote[t]}
             /\ UNCHANGED <<holder, remote, answers>>
    <3>1. pc' \in [Thread -> Labels] /\ CallsAreLeft'
      BY <1>12, <1>g, <2>2 DEF AddDeathRecipient, Labels
    <3>2. remote[t] \in Instance
      BY <1>12 DEF AddDeathRecipient, MutexIsHeld, TypeOK, Instance, Connecting
    <3>. QED
      BY <1>12, <2>2, <3>1, <3>2 DEF AddDeathRecipient, TypeOK
  <2>. QED
    BY <1>12, <2>1, <2>2 DEF AddDeathRecipient, Fail
<1>13. ASSUME NEW t \in Thread, StoreProxy(t) PROVE TypeOK' /\ CallsAreLeft'
  <2>1. pc' \in [Thread -> Labels] /\ CallsAreLeft'
    BY <1>13, <1>g DEF StoreProxy, Labels
  <2>. QED
    BY <1>13, <2>1 DEF StoreProxy, TypeOK
<1>14. ASSUME NEW t \in Thread, Serve(t) PROVE TypeOK' /\ CallsAreLeft'
  <2>1. CASE remote[t] = running
    <3>1. pc' \in [Thread -> Labels] /\ CallsAreLeft'
      BY <1>14, <1>g, <2>1 DEF Serve, Labels
    <3>. QED
      BY <1>14, <2>1, <3>1 DEF Serve, TypeOK
  <2>2. CASE remote[t] # running
    BY <1>14, <1>f, <2>2 DEF Serve, TypeOK, Fail
  <2>. QED
    BY <2>1, <2>2
<1>15. ASSUME NEW t \in Thread, Reply(t) PROVE TypeOK' /\ CallsAreLeft'
  <2>1. CASE remote[t] = running
    <3>1. PICK v \in Answers(Api(t), permissions, connected) : Receive(t, v, running)
      BY <1>15, <2>1 DEF Reply
    <3>2. v \in Values
      BY <1>15, ApiIsCall, AnswersAreValues DEF Reply
    <3>3. running \in 0..MaxStarts
      BY DEF TypeOK
    <3>. QED
      BY <1>15, <1>r, <3>1, <3>2, <3>3 DEF Reply, TypeOK
  <2>2. CASE remote[t] # running
    BY <1>15, <1>f, <2>2 DEF Reply, TypeOK, Fail
  <2>. QED
    BY <2>1, <2>2
<1>16. ASSUME NEW t \in Thread, Return(t) PROVE TypeOK' /\ CallsAreLeft'
  <2>1. pc' \in [Thread -> Labels] /\ entry' \in [Thread -> Entry \cup {NoEntry}]
    BY <1>16 DEF Return, Goto, TypeOK, Labels
  <2>2. answers' \in [Thread -> Seq(Answer)]
    BY <1>16 DEF Return, TypeOK
  <2>3. TypeOK'
    BY <1>16, <2>1, <2>2 DEF Return, TypeOK
  <2>4. CallsAreLeft'
    BY <1>16 DEF Return, Goto, TypeOK, CallsAreLeft
  <2>. QED
    BY <2>3, <2>4
<1>17. CASE UNCHANGED vars
  BY <1>17 DEF vars, TypeOK, CallsAreLeft
<1>. QED
  BY <1>1, <1>2, <1>3, <1>4, <1>5, <1>6, <1>7, <1>8, <1>9, <1>10, <1>11, <1>12,
     <1>13, <1>14, <1>15, <1>16, <1>17 DEF Next

(***************************************************************************)
(* Every step keeps the mutex with the one thread that is connecting.      *)
(***************************************************************************)
LEMMA MutexNext == TypeOK /\ CallsAreLeft /\ MutexIsHeld /\ [Next]_vars => MutexIsHeld'
<1> SUFFICES ASSUME TypeOK, CallsAreLeft, MutexIsHeld, [Next]_vars PROVE MutexIsHeld'
  OBVIOUS
<1>f. ASSUME NEW t \in Thread, Fail(t), pc[t] \notin {"idle", "posted", "done"}
      PROVE  /\ pc'[t] \in {"connect", "done"} /\ remote'[t] = 0
             /\ \A u \in Thread \ {t} : pc'[u] = pc[u] /\ remote'[u] = remote[u]
  <2>1. 0 \in 0..MaxStarts
    BY ClientAssumption
  <2>. QED
    BY <1>f, <2>1, FailIsReceive, ReceiveIsLocal
<1>p. pc \in [Thread -> Labels] /\ remote \in [Thread -> 0..MaxStarts] /\ holder \subseteq Thread
  BY DEF TypeOK
<1> USE <1>p DEF serviceVars, clientVars, callVars, MutexIsHeld, Connecting
<1>1. CASE Start \/ Die \/ Forget \/ ChangeInterface
  BY <1>1 DEF Start, Die, Forget, ChangeInterface
<1>2. ASSUME NEW i \in notices, OnRemoteDied(i) PROVE MutexIsHeld'
  BY <1>2 DEF OnRemoteDied
<1>3. ASSUME NEW t \in Thread, NEW e \in Entry, Call(t, e) PROVE MutexIsHeld'
  BY <1>3 DEF Call, Goto
<1>4. ASSUME NEW t \in Thread, RunTask(t) \/ RefuseTask(t) \/ Return(t) PROVE MutexIsHeld'
  BY <1>4 DEF RunTask, RefuseTask, Return, Goto
<1>5. ASSUME NEW t \in Thread, UseProxy(t) PROVE MutexIsHeld'
  BY <1>5 DEF UseProxy, Goto
<1>6. ASSUME NEW t \in Thread, CheckSystemAbility(t) PROVE MutexIsHeld'
  <2>1. CASE table = 0
    BY <1>6, <1>f, <2>1 DEF CheckSystemAbility, Fail
  <2>2. CASE table # 0
    BY <1>6, <2>2 DEF CheckSystemAbility, Goto
  <2>. QED
    BY <2>1, <2>2
<1>7. ASSUME NEW t \in Thread, Refuse(t) PROVE MutexIsHeld'
  BY <1>7, <1>f DEF Refuse, Fail
<1>8. ASSUME NEW t \in Thread, AddDeathRecipient(t) PROVE MutexIsHeld'
  <2>1. CASE Fail(t) /\ holder' = {}
    BY <1>8, <1>f, <2>1 DEF AddDeathRecipient
  <2>2. CASE Goto(t, "watching") /\ UNCHANGED <<holder, remote>>
    BY <1>8, <2>2 DEF AddDeathRecipient, Goto
  <2>. QED
    BY <1>8, <2>1, <2>2 DEF AddDeathRecipient, Fail
<1>9. ASSUME NEW t \in Thread, StoreProxy(t) PROVE MutexIsHeld'
  BY <1>9 DEF StoreProxy, Goto
<1>10. ASSUME NEW t \in Thread, Serve(t) PROVE MutexIsHeld'
  <2>1. CASE remote[t] = running
    BY <1>10, <2>1 DEF Serve, Goto
  <2>2. CASE remote[t] # running
    BY <1>10, <1>f, <2>2 DEF Serve, Fail
  <2>. QED
    BY <2>1, <2>2
<1>11. ASSUME NEW t \in Thread, Reply(t) PROVE MutexIsHeld'
  BY <1>11, ReplyIsLocal DEF Reply
<1>12. CASE UNCHANGED vars
  BY <1>12 DEF vars
<1>. QED
  BY <1>1, <1>2, <1>3, <1>4, <1>5, <1>6, <1>7, <1>8, <1>9, <1>10, <1>11, <1>12 DEF Next

(***************************************************************************)
(* No step gets hold of an instance that was not started, and each keeps   *)
(* the notice of a death on its way.                                       *)
(***************************************************************************)
LEMMA DeathNext ==
  IInv /\ [Next]_vars => NothingFromTheFuture' /\ DeathIsNoticed'
<1> SUFFICES ASSUME IInv, [Next]_vars PROVE NothingFromTheFuture' /\ DeathIsNoticed'
  OBVIOUS
<1>f. ASSUME NEW t \in Thread, Fail(t), pc[t] \notin {"idle", "posted", "done"}
      PROVE  /\ pc'[t] \in {"connect", "done"} /\ remote'[t] = 0
             /\ \A u \in Thread \ {t} : pc'[u] = pc[u] /\ remote'[u] = remote[u]
  <2>1. 0 \in 0..MaxStarts
    BY ClientAssumption
  <2>. QED
    BY <1>f, <2>1, FailIsReceive, ReceiveIsLocal DEF IInv
<1>p. /\ pc \in [Thread -> Labels] /\ remote \in [Thread -> 0..MaxStarts]
      /\ holder \subseteq Thread /\ watched \subseteq Instance /\ notices \subseteq Instance
      /\ {running, started, table, proxy} \subseteq Nat
      /\ \A t \in Thread : remote[t] \in Nat
  BY ClientAssumption DEF IInv, TypeOK
<1> USE <1>p DEF IInv, serviceVars, clientVars, callVars, NothingFromTheFuture, DeathIsNoticed,
                 DeadProxyHasNotice
<1>1. CASE Start
  BY <1>1 DEF Start
<1>2. CASE Die
  BY <1>2 DEF Die, Disturb
<1>3. CASE Forget \/ ChangeInterface
  <2>1. /\ table' \in {0, table} /\ (running # 0 => table' = table)
        /\ UNCHANGED <<running, started, clientVars, callVars>>
    BY <1>3 DEF Forget, ChangeInterface
  <2>2. NothingFromTheFuture'
    BY <2>1
  <2>3. DeathIsNoticed'
    BY <2>1
  <2>. QED
    BY <2>2, <2>3
<1>4. ASSUME NEW i \in notices, OnRemoteDied(i)
      PROVE  NothingFromTheFuture' /\ DeathIsNoticed'
  <2>1. \A t \in Thread : pc[t] # "watching"
    BY <1>4 DEF OnRemoteDied, MutexIsHeld, Connecting
  <2>2. /\ proxy' = IF proxy = i THEN 0 ELSE proxy
        /\ watched' = IF proxy = i THEN watched \ {i} ELSE watched
        /\ notices' = notices \ {i}
        /\ UNCHANGED <<running, started, table, callVars>>
    BY <1>4 DEF OnRemoteDied
  <2>3. NothingFromTheFuture'
    BY <2>2
  <2>4. DeathIsNoticed'
    BY <2>1, <2>2
  <2>. QED
    BY <2>3, <2>4
<1>5. ASSUME NEW t \in Thread, NEW e \in Entry, Call(t, e)
      PROVE  NothingFromTheFuture' /\ DeathIsNoticed'
  BY <1>5 DEF Call, Goto
<1>6. ASSUME NEW t \in Thread, RunTask(t) \/ RefuseTask(t) \/ Return(t)
      PROVE  NothingFromTheFuture' /\ DeathIsNoticed'
  BY <1>6 DEF RunTask, RefuseTask, Return, Goto
<1>7. ASSUME NEW t \in Thread, UseProxy(t) PROVE NothingFromTheFuture' /\ DeathIsNoticed'
  BY <1>7 DEF UseProxy, Goto
<1>8. ASSUME NEW t \in Thread, CheckSystemAbility(t)
      PROVE  NothingFromTheFuture' /\ DeathIsNoticed'
  <2>1. CASE table = 0
    BY <1>8, <1>f, <2>1 DEF CheckSystemAbility, Fail
  <2>2. CASE table # 0
    BY <1>8, <2>2 DEF CheckSystemAbility, Goto
  <2>. QED
    BY <2>1, <2>2
<1>9. ASSUME NEW t \in Thread, Refuse(t) PROVE NothingFromTheFuture' /\ DeathIsNoticed'
  BY <1>9, <1>f DEF Refuse, Fail
<1>10. ASSUME NEW t \in Thread, AddDeathRecipient(t)
       PROVE  NothingFromTheFuture' /\ DeathIsNoticed'
  <2>1. CASE Fail(t) /\ UNCHANGED <<watched, notices>>
    BY <1>10, <1>f, <2>1 DEF AddDeathRecipient
  <2>2. CASE /\ watched' = watched \cup {remote[t]}
             /\ notices' = IF remote[t] = running THEN notices ELSE notices \cup {remote[t]}
             /\ Goto(t, "watching")
             /\ UNCHANGED <<holder, remote, answers>>
    <3>1. remote[t] # 0
      BY <1>10 DEF AddDeathRecipient, MutexIsHeld, Connecting
    <3>2. /\ pc' = [pc EXCEPT ![t] = "watching"]
          /\ UNCHANGED <<running, started, table, proxy, remote>>
      BY <1>10, <2>2 DEF AddDeathRecipient, Goto
    <3>3. remote[t] \in 1..started
      BY <3>1
    <3>4. NothingFromTheFuture'
      BY <2>2, <3>2, <3>3
    <3>5. DeathIsNoticed'
      BY <2>2, <3>2
    <3>. QED
      BY <3>4, <3>5
  <2>. QED
    BY <1>10, <2>1, <2>2 DEF AddDeathRecipient, Fail
<1>11. ASSUME NEW t \in Thread, StoreProxy(t)
       PROVE  NothingFromTheFuture' /\ DeathIsNoticed'
  BY <1>11 DEF StoreProxy, Goto
<1>12. ASSUME NEW t \in Thread, Serve(t) PROVE NothingFromTheFuture' /\ DeathIsNoticed'
  <2>1. CASE remote[t] = running
    BY <1>12, <2>1 DEF Serve, Goto
  <2>2. CASE remote[t] # running
    BY <1>12, <1>f, <2>2 DEF Serve, Fail
  <2>. QED
    BY <2>1, <2>2
<1>13. ASSUME NEW t \in Thread, Reply(t) PROVE NothingFromTheFuture' /\ DeathIsNoticed'
  BY <1>13, ReplyIsLocal DEF Reply
<1>14. CASE UNCHANGED vars
  BY <1>14 DEF vars
<1>. QED
  BY <1>1, <1>2, <1>3, <1>4, <1>5, <1>6, <1>7, <1>8, <1>9, <1>10, <1>11, <1>12,
     <1>13, <1>14 DEF Next

(***************************************************************************)
(* The answer that a thread receives is one to the call it is in.          *)
(***************************************************************************)
LEMMA ReceiveFits ==
  ASSUME IInv, NEW t \in Thread, pc[t] \notin {"idle", "posted", "done"},
         NEW v \in Values, NEW i \in 0..MaxStarts, Receive(t, v, i),
         Fits([value |-> v, by |-> i], Api(t), permissions),
         UNCHANGED <<entry, permissions>>
  PROVE  AnswersFit'
<1> DEFINE r == [value |-> v, by |-> i]
<1>1. /\ \A u \in Thread \ {t} : pc'[u] = pc[u] /\ answers'[u] = answers[u]
      /\ answers'[t] = Append(answers[t], r)
      /\ Len(answers'[t]) = Len(answers[t]) + 1
  BY ReceiveIsLocal DEF IInv
<1>2. answers[t] \in Seq(Answer) /\ r \in Answer
  BY DEF IInv, TypeOK, Answer
<1>3. \A s \in Seq(Answer), e \in Answer : \A n \in 1..Len(Append(s, e)) :
        \/ n = Len(s) + 1 /\ Append(s, e)[n] = e
        \/ n \in 1..Len(s) /\ Append(s, e)[n] = s[n]
  OBVIOUS
<1>4. \A n \in 1..Len(answers'[t]) : Fits(answers'[t][n], entry[t].apis[n], permissions)
  <2> SUFFICES ASSUME NEW n \in 1..Len(answers'[t])
               PROVE  Fits(answers'[t][n], entry[t].apis[n], permissions)
    OBVIOUS
  <2>1. CASE n = Len(answers[t]) + 1 /\ answers'[t][n] = r
    BY <2>1 DEF Api
  <2>2. CASE n \in 1..Len(answers[t]) /\ answers'[t][n] = answers[t][n]
    BY <2>2 DEF IInv, AnswersFit
  <2>. QED
    BY <1>1, <1>2, <1>3, <2>1, <2>2
<1>5. pc'[t] = "done" => entry[t] \in Entry /\ Len(answers'[t]) = Len(entry[t].apis)
  BY DEF Receive, IInv, TypeOK, CallsAreLeft
<1>. QED
  BY <1>1, <1>4, <1>5 DEF IInv, AnswersFit

(***************************************************************************)
(* A call that fails has the value of the client for it.                   *)
(***************************************************************************)
LEMMA FailFits ==
  ASSUME IInv, NEW t \in Thread, pc[t] \notin {"idle", "posted", "done"}, Fail(t),
         UNCHANGED <<entry, permissions>>
  PROVE  AnswersFit'
<1>0. Api(t) \in Apis
  BY ApiIsCall DEF IInv
<1>1. /\ FailedConnect(Api(t)) \in Values /\ FailedCall(Api(t)) \in Values
      /\ 0 \in 0..MaxStarts
  BY <1>0, AnswersAreValues, ClientAssumption
<1>2. \A v \in {FailedConnect(Api(t)), FailedCall(Api(t))} :
        Fits([value |-> v, by |-> 0], Api(t), permissions)
  BY DEF Fits
<1>3. CASE FailConnect(t)
  BY <1>1, <1>2, <1>3, ReceiveFits DEF FailConnect
<1>4. CASE FailCall(t)
  BY <1>1, <1>2, <1>4, ReceiveFits DEF FailCall
<1>. QED
  BY <1>3, <1>4 DEF Fail

(***************************************************************************)
(* Every step keeps the answers those to the calls of the entry points.    *)
(***************************************************************************)
LEMMA AnswersNext == IInv /\ [Next]_vars => AnswersFit'
<1> SUFFICES ASSUME IInv, [Next]_vars PROVE AnswersFit'
  OBVIOUS
<1>p. pc \in [Thread -> Labels] /\ entry \in [Thread -> Entry \cup {NoEntry}]
  BY DEF IInv, TypeOK
<1>g. ASSUME NEW t \in Thread, NEW l \in Labels \ {"done"}, Goto(t, l),
             UNCHANGED <<entry, answers, permissions>>
      PROVE  AnswersFit'
  BY <1>p, <1>g DEF Goto, IInv, AnswersFit
<1> USE DEF serviceVars, clientVars, callVars
<1>1. CASE Start \/ Die \/ Forget \/ ChangeInterface
  BY <1>1 DEF Start, Die, Forget, ChangeInterface, IInv, AnswersFit
<1>2. ASSUME NEW i \in notices, OnRemoteDied(i) PROVE AnswersFit'
  BY <1>2 DEF OnRemoteDied, IInv, AnswersFit
<1>3. ASSUME NEW t \in Thread, \/ \E e \in Entry : Call(t, e)
                               \/ RefuseTask(t)
      PROVE  AnswersFit'
  <2>1. answers'[t] = <<>> /\ pc'[t] # "done" /\ permissions' = permissions
    BY <1>p, <1>3 DEF Call, RefuseTask, Goto, IInv, CallsAreLeft
  <2>2. \A u \in Thread \ {t} : /\ pc'[u] = pc[u] /\ answers'[u] = answers[u]
                                /\ entry'[u] = entry[u]
    BY <1>p, <1>3 DEF Call, RefuseTask, Goto
  <2>3. Len(answers'[t]) = 0
    BY <2>1
  <2>. QED
    BY <2>1, <2>2, <2>3 DEF IInv, AnswersFit
<1>4. ASSUME NEW t \in Thread, RunTask(t) \/ UseProxy(t) \/ StoreProxy(t) PROVE AnswersFit'
  BY <1>4, <1>g DEF RunTask, UseProxy, StoreProxy, Labels
<1>5. ASSUME NEW t \in Thread, CheckSystemAbility(t) PROVE AnswersFit'
  <2>1. CASE table = 0
    BY <1>5, <2>1, FailFits DEF CheckSystemAbility, Fail
  <2>2. CASE table # 0
    BY <1>5, <1>g, <2>2 DEF CheckSystemAbility, Labels
  <2>. QED
    BY <2>1, <2>2
<1>6. ASSUME NEW t \in Thread, Refuse(t) PROVE AnswersFit'
  BY <1>6, FailFits DEF Refuse, Fail
<1>7. ASSUME NEW t \in Thread, AddDeathRecipient(t) PROVE AnswersFit'
  <2>1. CASE Fail(t)
    BY <1>7, <2>1, FailFits DEF AddDeathRecipient
  <2>2. CASE Goto(t, "watching") /\ UNCHANGED answers
    BY <1>7, <1>g, <2>2 DEF AddDeathRecipient, Labels
  <2>. QED
    BY <1>7, <2>1, <2>2 DEF AddDeathRecipient, Fail
<1>8. ASSUME NEW t \in Thread, Serve(t) PROVE AnswersFit'
  <2>1. CASE remote[t] = running
    BY <1>8, <1>g, <2>1 DEF Serve, Labels
  <2>2. CASE remote[t] # running
    BY <1>8, <2>2, FailFits DEF Serve, Fail
  <2>. QED
    BY <2>1, <2>2
<1>9. ASSUME NEW t \in Thread, Reply(t) PROVE AnswersFit'
  <2>1. CASE remote[t] = running
    <3>1. PICK v \in Answers(Api(t), permissions, connected) : Receive(t, v, running)
      BY <1>9, <2>1 DEF Reply
    <3>2. v \in Values /\ running \in 0..MaxStarts /\ connected \in BOOLEAN
      BY <1>9, ApiIsCall, AnswersAreValues DEF Reply, IInv, TypeOK
    <3>3. running # 0
      BY <1>9, <2>1 DEF Reply, IInv, MutexIsHeld
    <3>4. Fits([value |-> v, by |-> running], Api(t), permissions)
      BY <3>1, <3>2, <3>3 DEF Fits
    <3>. QED
      BY <1>9, <3>1, <3>2, <3>4, ReceiveFits DEF Reply
  <2>2. CASE remote[t] # running
    BY <1>9, <2>2, FailFits DEF Reply, Fail
  <2>. QED
    BY <2>1, <2>2
<1>10. ASSUME NEW t \in Thread, Return(t) PROVE AnswersFit'
  <2>1. answers'[t] = <<>> /\ pc'[t] # "done" /\ permissions' = permissions
    BY <1>p, <1>10 DEF Return, Goto, IInv, TypeOK
  <2>2. \A u \in Thread \ {t} : /\ pc'[u] = pc[u] /\ answers'[u] = answers[u]
                                /\ entry'[u] = entry[u]
    BY <1>p, <1>10 DEF Return, Goto, IInv, TypeOK
  <2>3. Len(answers'[t]) = 0
    BY <2>1
  <2>. QED
    BY <2>1, <2>2, <2>3 DEF IInv, AnswersFit
<1>11. CASE UNCHANGED vars
  BY <1>11 DEF vars, IInv, AnswersFit
<1>. QED
  BY <1>1, <1>2, <1>3, <1>4, <1>5, <1>6, <1>7, <1>8, <1>9, <1>10, <1>11 DEF Next

(***************************************************************************)
(* The inductive invariant of the client: types, the calls to go and the   *)
(* answers to those made, who holds mutex_, and that the death of every    *)
(* watched instance is noticed.                                            *)
(***************************************************************************)
THEOREM Invariance == Spec => []IInv
<1>1. Init => IInv
  BY InvInit
<1>2. IInv /\ [Next]_vars => IInv'
  BY TypeNext, AnswersNext, MutexNext, DeathNext DEF IInv
<1>. QED
  BY <1>1, <1>2, PTL DEF Spec

(***************************************************************************)
(* A cached proxy of a dead service has its death notice under way,        *)
(* whatever the threads of the process and the service do.                 *)
(***************************************************************************)
THEOREM ProxyIsNeverForgotten == Spec => []DeadProxyHasNotice
<1>1. IInv => DeadProxyHasNotice
  BY DEF IInv, DeathIsNoticed
<1>. QED
  BY <1>1, Invariance, PTL

(***************************************************************************)
(* No step drops or replaces the proxy of a service that runs: neither a   *)
(* late notice nor a second thread in Connect.                             *)
(***************************************************************************)
THEOREM ProxyIsKept == Spec => LivingProxyIsKept
<1>1. IInv /\ [Next]_vars => (proxy # 0 /\ proxy' # proxy => proxy # running)
  <2> SUFFICES ASSUME IInv, [Next]_vars, proxy # 0, proxy' # proxy PROVE proxy # running
    OBVIOUS
  <2> USE DEF serviceVars, clientVars, callVars
  <2>1. CASE Start \/ Die \/ Forget \/ ChangeInterface
    BY <2>1 DEF Start, Die, Forget, ChangeInterface
  <2>2. ASSUME NEW i \in notices, OnRemoteDied(i) PROVE proxy # running
    BY <2>2 DEF OnRemoteDied, IInv, DeathIsNoticed
  <2>3. ASSUME NEW t \in Thread, StoreProxy(t) PROVE proxy # running
    BY <2>3 DEF StoreProxy, IInv, MutexIsHeld, Connecting
  <2>4. ASSUME NEW t \in Thread,
               \/ \E e \in Entry : Call(t, e)
               \/ RunTask(t) \/ RefuseTask(t) \/ UseProxy(t) \/ CheckSystemAbility(t)
               \/ Refuse(t) \/ AddDeathRecipient(t) \/ Serve(t) \/ Reply(t) \/ Return(t)
        PROVE  FALSE
    BY <2>4 DEF Call, RunTask, RefuseTask, UseProxy, CheckSystemAbility, Refuse,
           AddDeathRecipient, Serve, Reply, Return
  <2>5. CASE UNCHANGED vars
    BY <2>5 DEF vars
  <2>. QED
    BY <2>1, <2>2, <2>3, <2>4, <2>5 DEF Next
<1>2. IInv /\ [Next]_vars => [proxy # 0 /\ proxy' # proxy => proxy # running]_vars
  BY <1>1
<1>. QED
  BY <1>2, Invariance, PTL DEF Spec, LivingProxyIsKept

(***************************************************************************)
(* Once everybody agrees on the instance that runs, only its death changes *)
(* that.                                                                   *)
(***************************************************************************)
LEMMA SettledNext == IInv /\ Settled /\ [Next]_vars /\ ~Die => Settled' /\ running' = running
<1> SUFFICES ASSUME IInv, Settled, [Next]_vars, ~Die PROVE Settled' /\ running' = running
  OBVIOUS
<1>p. pc \in [Thread -> Labels] /\ remote \in [Thread -> 0..MaxStarts]
  BY DEF IInv, TypeOK
<1>t. table = running
  BY DEF IInv, NothingFromTheFuture, Settled
<1> USE <1>p, <1>t DEF Settled, serviceVars, clientVars, callVars
<1>1. CASE Start \/ Forget \/ ChangeInterface
  BY <1>1 DEF Start, Forget, ChangeInterface
<1>2. ASSUME NEW i \in notices, OnRemoteDied(i) PROVE FALSE
  BY <1>2
<1>3. ASSUME NEW t \in Thread, NEW e \in Entry, Call(t, e)
      PROVE  Settled' /\ running' = running
  BY <1>3 DEF Call, Goto
<1>4. ASSUME NEW t \in Thread,
             RunTask(t) \/ RefuseTask(t) \/ Return(t) \/ StoreProxy(t) \/ UseProxy(t)
      PROVE  Settled' /\ running' = running
  BY <1>4 DEF RunTask, RefuseTask, Return, StoreProxy, UseProxy, Goto
<1>5. ASSUME NEW t \in Thread, CheckSystemAbility(t) PROVE Settled' /\ running' = running
  BY <1>5 DEF CheckSystemAbility, Goto
<1>6. ASSUME NEW t \in Thread, Refuse(t) PROVE Settled' /\ running' = running
  <2>1. 0 \in 0..MaxStarts /\ pc[t] \in {"connect", "found"}
    BY <1>6, ClientAssumption DEF Refuse
  <2>2. /\ pc'[t] \in {"connect", "done"}
        /\ \A u \in Thread \ {t} : pc'[u] = pc[u] /\ remote'[u] = remote[u]
    BY <1>6, <2>1, FailIsReceive, ReceiveIsLocal DEF IInv, Refuse, Fail
  <2>. QED
    BY <1>6, <2>2 DEF Refuse, Connecting
<1>7. ASSUME NEW t \in Thread, AddDeathRecipient(t) PROVE Settled' /\ running' = running
  <2>1. remote[t] = running
    BY <1>7 DEF AddDeathRecipient, Connecting
  <2>. QED
    BY <1>7, <2>1 DEF AddDeathRecipient, Goto
<1>8. ASSUME NEW t \in Thread, Serve(t) PROVE Settled' /\ running' = running
  <2>1. /\ pc'[t] \in {"connect", "done", "served"}
        /\ \A u \in Thread \ {t} : pc'[u] = pc[u] /\ remote'[u] = remote[u]
    BY <1>8, ServeIsLocal DEF IInv
  <2>. QED
    BY <1>8, <2>1 DEF Serve, Connecting
<1>9. ASSUME NEW t \in Thread, Reply(t) PROVE Settled' /\ running' = running
  <2>1. /\ pc'[t] \in {"connect", "done"}
        /\ \A u \in Thread \ {t} : pc'[u] = pc[u] /\ remote'[u] = remote[u]
    BY <1>9, ReplyIsLocal DEF IInv
  <2>. QED
    BY <1>9, <2>1 DEF Reply, Connecting
<1>10. CASE UNCHANGED vars
  BY <1>10 DEF vars
<1>. QED
  BY <1>1, <1>2, <1>3, <1>4, <1>5, <1>6, <1>7, <1>8, <1>9, <1>10 DEF Next

(***************************************************************************)
(* A step leaves the calls of undisturbed threads with the instance that   *)
(* runs, and fails none of them.                                           *)
(***************************************************************************)
LEMMA UndisturbedNext ==
  IInv /\ UndisturbedIsSettled /\ FailsOnlyWhenDisturbed /\ [Next]_vars
    => UndisturbedIsSettled' /\ FailsOnlyWhenDisturbed'
<1> SUFFICES ASSUME IInv, UndisturbedIsSettled, FailsOnlyWhenDisturbed, [Next]_vars, ~Die,
                    NEW u \in Thread, ~disturbed'[u]
             PROVE  /\ pc'[u] # "idle" => Settled' /\ remote'[u] \in {0, running'}
                    /\ \A n \in 1..Len(answers'[u]) : answers'[u][n].by # 0
  <2>1. CASE Die
    BY <2>1 DEF Die, Disturb, UndisturbedIsSettled, FailsOnlyWhenDisturbed
  <2>. QED
    BY <2>1 DEF UndisturbedIsSettled, FailsOnlyWhenDisturbed
<1> DEFINE Good == /\ pc'[u] # "idle" => Settled' /\ remote'[u] \in {0, running'}
                   /\ \A n \in 1..Len(answers'[u]) : answers'[u][n].by # 0
<1>p. /\ pc \in [Thread -> Labels] /\ remote \in [Thread -> 0..MaxStarts]
      /\ disturbed \in [Thread -> BOOLEAN] /\ answers \in [Thread -> Seq(Answer)]
  BY DEF IInv, TypeOK
<1>a. ASSUME ~disturbed[u], pc[u] # "idle"
      PROVE  Settled /\ remote[u] \in {0, running} /\ Settled' /\ running' = running
  BY <1>a, SettledNext DEF UndisturbedIsSettled
<1>b. ~disturbed[u] => \A n \in 1..Len(answers[u]) : answers[u][n].by # 0
  BY DEF FailsOnlyWhenDisturbed
<1>k. ASSUME ~disturbed[u], answers'[u] = answers[u], remote'[u] = remote[u],
             pc[u] = "idle" => pc'[u] = "idle"
      PROVE  Good
  BY <1>a, <1>b, <1>k
<1> USE <1>p DEF serviceVars, clientVars, callVars
<1>1. CASE Start \/ Forget \/ ChangeInterface
  BY <1>1, <1>k DEF Start, Forget, ChangeInterface
<1>2. ASSUME NEW i \in notices, OnRemoteDied(i) PROVE Good
  BY <1>2, <1>k DEF OnRemoteDied
<1>3. ASSUME NEW t \in Thread, NEW e \in Entry, Call(t, e) PROVE Good
  <2>1. CASE t = u
    <3>1. Settled /\ pc[u] = "idle"
      BY <1>3, <2>1 DEF Call
    <3>2. answers'[u] = <<>> /\ remote'[u] = 0
      BY <1>3, <2>1, <3>1 DEF Call, IInv, CallsAreLeft, MutexIsHeld, Connecting
    <3>. QED
      BY <3>1, <3>2, SettledNext
  <2>2. CASE t # u
    BY <1>3, <1>k, <2>2 DEF Call, Goto
  <2>. QED
    BY <2>1, <2>2
<1>4. ASSUME NEW t \in Thread, RunTask(t) \/ RefuseTask(t) \/ StoreProxy(t) PROVE Good
  BY <1>4, <1>k DEF RunTask, RefuseTask, StoreProxy, Goto
<1>5. ASSUME NEW t \in Thread, Return(t) PROVE Good
  <2>1. CASE t = u
    BY <1>5, <2>1 DEF Return, Goto
  <2>2. CASE t # u
    BY <1>5, <1>k, <2>2 DEF Return, Goto
  <2>. QED
    BY <2>1, <2>2
<1>6. ASSUME NEW t \in Thread, UseProxy(t) PROVE Good
  <2>1. CASE t = u
    <3>1. ~disturbed[u] /\ pc[u] # "idle" /\ answers'[u] = answers[u] /\ remote'[u] = proxy
      BY <1>6, <2>1 DEF UseProxy
    <3>2. proxy = running
      BY <1>6, <1>a, <3>1 DEF UseProxy, Settled, IInv, DeathIsNoticed, DeadProxyHasNotice
    <3>. QED
      BY <1>a, <1>b, <3>1, <3>2
  <2>2. CASE t # u
    BY <1>6, <1>k, <2>2 DEF UseProxy, Goto
  <2>. QED
    BY <2>1, <2>2
<1>7. ASSUME NEW t \in Thread, CheckSystemAbility(t) PROVE Good
  <2>1. CASE t = u
    <3>1. ~disturbed[u] /\ pc[u] = "connect"
      BY <1>7, <2>1 DEF CheckSystemAbility
    <3>2. table = running /\ table # 0
      BY <1>a, <3>1 DEF Settled, IInv, NothingFromTheFuture
    <3>3. answers'[u] = answers[u] /\ remote'[u] = running
      BY <1>7, <2>1, <3>2 DEF CheckSystemAbility
    <3>. QED
      BY <1>a, <1>b, <3>1, <3>3
  <2>2. CASE t # u
    <3>1. pc'[u] = pc[u] /\ remote'[u] = remote[u] /\ answers'[u] = answers[u]
      BY <1>7, <2>2 DEF CheckSystemAbility, FailConnect, Receive, Goto
    <3>. QED
      BY <1>7, <1>k, <3>1 DEF CheckSystemAbility
  <2>. QED
    BY <2>1, <2>2
<1>8. ASSUME NEW t \in Thread, Refuse(t) PROVE Good
  <2>1. t # u /\ disturbed'[u] = disturbed[u]
    BY <1>8 DEF Refuse
  <2>2. pc'[u] = pc[u] /\ remote'[u] = remote[u] /\ answers'[u] = answers[u]
    BY <1>8, <2>1 DEF Refuse, FailConnect, Receive
  <2>. QED
    BY <1>k, <2>1, <2>2
<1>9. ASSUME NEW t \in Thread, AddDeathRecipient(t) PROVE Good
  <2>1. CASE t = u
    <3>1. ~disturbed[u] /\ pc[u] = "found"
      BY <1>9, <2>1 DEF AddDeathRecipient
    <3>2. remote[u] = running
      BY <1>a, <3>1 DEF Settled
    <3>. QED
      BY <1>9, <1>k, <2>1, <3>1, <3>2 DEF AddDeathRecipient
  <2>2. CASE t # u
    <3>1. pc'[u] = pc[u] /\ remote'[u] = remote[u] /\ answers'[u] = answers[u]
      BY <1>9, <2>2 DEF AddDeathRecipient, FailConnect, Receive, Goto
    <3>. QED
      BY <1>9, <1>k, <3>1 DEF AddDeathRecipient
  <2>. QED
    BY <2>1, <2>2
<1>10. ASSUME NEW t \in Thread, Serve(t) PROVE Good
  <2>1. CASE t = u
    <3>1. ~disturbed[u] /\ pc[u] = "call" /\ remote[u] # 0
      BY <1>10, <2>1 DEF Serve, IInv, MutexIsHeld
    <3>2. remote[u] = running
      BY <1>a, <3>1
    <3>. QED
      BY <1>10, <1>k, <2>1, <3>1, <3>2 DEF Serve
  <2>2. CASE t # u
    <3>1. pc'[u] = pc[u] /\ remote'[u] = remote[u] /\ answers'[u] = answers[u]
      BY <1>10, <2>2 DEF Serve, FailCall, Receive, Goto
    <3>. QED
      BY <1>10, <1>k, <3>1 DEF Serve
  <2>. QED
    BY <2>1, <2>2
<1>11. ASSUME NEW t \in Thread, Reply(t) PROVE Good
  <2>1. CASE t = u
    <3>1. ~disturbed[u] /\ pc[u] = "served" /\ remote[u] # 0
      BY <1>11, <2>1 DEF Reply, IInv, MutexIsHeld
    <3>2. remote[u] = running
      BY <1>a, <3>1
    <3>3. PICK v \in Answers(Api(u), permissions, connected) : Receive(u, v, running)
      BY <1>11, <2>1, <3>2 DEF Reply
    <3>4. v \in Values /\ running \in 0..MaxStarts
      BY <3>1, ApiIsCall, AnswersAreValues DEF IInv, TypeOK
    <3>5. /\ answers'[u] = Append(answers[u], [value |-> v, by |-> running])
          /\ remote'[u] = 0
      BY <3>1, <3>3, <3>4, ReceiveIsLocal DEF IInv
    <3>6. [value |-> v, by |-> running] \in Answer
      BY <3>4 DEF Answer
    <3>7. \A n \in 1..Len(answers'[u]) : answers'[u][n].by # 0
      <4>1. [value |-> v, by |-> running].by # 0
        BY <3>1, <3>2
      <4>2. \A s \in Seq(Answer), e \in Answer : \A n \in 1..Len(Append(s, e)) :
              Append(s, e)[n] = e \/ (n \in 1..Len(s) /\ Append(s, e)[n] = s[n])
        OBVIOUS
      <4>. QED
        BY <1>b, <3>1, <3>5, <3>6, <4>1, <4>2
    <3>. QED
      BY <1>a, <3>1, <3>5, <3>7
  <2>2. CASE t # u
    <3>1. pc'[u] = pc[u] /\ remote'[u] = remote[u] /\ answers'[u] = answers[u]
      BY <1>11, <2>2, ReplyIsLocal DEF IInv
    <3>. QED
      BY <1>11, <1>k, <3>1 DEF Reply
  <2>. QED
    BY <2>1, <2>2
<1>12. CASE UNCHANGED vars
  BY <1>12, <1>k DEF vars
<1>. QED
  BY <1>1, <1>2, <1>3, <1>4, <1>5, <1>6, <1>7, <1>8, <1>9, <1>10, <1>11, <1>12 DEF Next

(***************************************************************************)
(* A call fails only if the service was not there for all of it, or the    *)
(* system refused the connection.                                          *)
(***************************************************************************)
THEOREM FailureIsDisturbance == Spec => []FailsOnlyWhenDisturbed
<1>1. Init => UndisturbedIsSettled /\ FailsOnlyWhenDisturbed
  BY DEF Init, UndisturbedIsSettled, FailsOnlyWhenDisturbed
<1>2. IInv /\ UndisturbedIsSettled /\ FailsOnlyWhenDisturbed /\ [Next]_vars
        => UndisturbedIsSettled' /\ FailsOnlyWhenDisturbed'
  BY UndisturbedNext
<1>. QED
  BY <1>1, <1>2, Invariance, PTL DEF Spec

(***************************************************************************)
(* The values of a getter whose failure shows: a failed call has the       *)
(* invalid one, and a call that was answered has it only if the HDI does   *)
(* not know better.                                                        *)
(***************************************************************************)
LEMMA GetterShows ==
  ASSUME NEW a \in {"GetCapacity", "GetChargingStatus", "GetHealthStatus", "GetPluggedType"},
         NEW r \in Answer, NEW ps, Fits(r, a, ps)
  PROVE  /\ r.by = 0 => r.value = IF a = "GetCapacity" THEN "INVALID" ELSE "BUTT"
         /\ r.by # 0 => r.value \in {"READ", "FULL", "NONE"} \cup Unknown(a)
<1>1. a \in Getters
  BY DEF Getters
<1>2. r.by = 0 => r.value = IF a = "GetCapacity" THEN "INVALID" ELSE "BUTT"
  BY <1>1 DEF Fits, FailedConnect, FailedCall, FailedGetter, StateGetters
<1>3. ASSUME NEW c \in BOOLEAN
      PROVE  Answers(a, ps, c) \subseteq {"READ", "FULL", "NONE"} \cup Unknown(a)
  BY <1>1 DEF Answers, GetterAnswers, Unread, NoInterface, StateGetters
<1>. QED
  BY <1>2, <1>3 DEF Fits

(***************************************************************************)
(* The codes of a config call: the connection error is the client's own,   *)
(* and nobody without the system permission gets another than the refusal. *)
(***************************************************************************)
LEMMA ConfigTells ==
  ASSUME NEW a \in ConfigCalls, NEW r \in Answer, NEW ps, Fits(r, a, ps)
  PROVE  /\ r.by = 0 => r.value = "CONNECTION_FAIL"
         /\ r.by # 0 => \/ r.value = "SYSTEM_API_DENIED"
                        \/ r.value \in {"OK", "FAILURE"} /\ "system" \in ps
<1>1. a \notin Getters
  BY DEF Getters, ConfigCalls
<1>2. r.by = 0 => r.value = "CONNECTION_FAIL"
  BY <1>1 DEF Fits, FailedConnect, FailedCall, ConfigCalls
<1>3. ASSUME NEW c \in BOOLEAN, r.value \in Answers(a, ps, c)
      PROVE  \/ r.value = "SYSTEM_API_DENIED"
             \/ r.value \in {"OK", "FAILURE"} /\ "system" \in ps
  BY <1>1, <1>3 DEF Answers, ConfigAnswers
<1>. QED
  BY <1>2, <1>3 DEF Fits

(***************************************************************************)
(* What an entry point tells its application is what happened to its       *)
(* calls: getStatus succeeds only if both were answered and fails only if  *)
(* an answer is missing or the HDI does not know the value, a config call  *)
(* throws the connection error exactly if it got none, and a capacity or a *)
(* state that was not answered shows its invalid value.                    *)
(***************************************************************************)
THEOREM FailuresAreTold == Spec => []FailureIsTold
<1>1. IInv => FailureIsTold
  <2> SUFFICES ASSUME IInv, NEW t \in Thread, pc[t] = "done"
               PROVE  LET b == entry[t].binding
                          a == entry[t].apis[1]
                          as == answers[t]
                      IN  /\ b = "status" =>
                              /\ Callbacks(as)[1] = "success" =>
                                   \A n \in 1..2 : as[n].by # 0
                              /\ Callbacks(as)[1] = "fail" => \E n \in 1..2 :
                                   as[n].by = 0 \/ as[n].value \in Unknown(StatusCalls[n])
                          /\ a \in ConfigCalls /\ b \in {"napi", "taihe"} =>
                              /\ Throws(b, as[1].value) = "CONNECTION_FAIL" <=> as[1].by = 0
                              /\ Throws(b, as[1].value) = "nothing" =>
                                      as[1].by # 0 /\ "system" \in permissions
                          /\ b # "status" /\ FailureShows(b, a) =>
                              (as[1].by = 0 =>
                                  Shown(b, a, as[1].value) \in {"INVALID", "BUTT"})
    BY DEF FailureIsTold
  <2> DEFINE b == entry[t].binding
             apis == entry[t].apis
             a == apis[1]
             as == answers[t]
  <2>1. entry[t] \in Entry /\ Len(as) = Len(apis)
    BY DEF IInv, AnswersFit
  <2>2. apis \in Seq(Apis) /\ apis # <<>> /\ as \in Seq(Answer)
    BY <2>1, ClientAssumption DEF IInv, TypeOK
  <2>3. \A n \in 1..Len(apis) : as[n] \in Answer /\ Fits(as[n], apis[n], permissions)
    BY <2>1, <2>2 DEF IInv, AnswersFit
  <2>4. 1 \in 1..Len(apis)
    BY <2>2
  <2>5. ASSUME b = "status"
        PROVE  /\ Callbacks(as)[1] = "success" => \A n \in 1..2 : as[n].by # 0
               /\ Callbacks(as)[1] = "fail" => \E n \in 1..2 :
                    as[n].by = 0 \/ as[n].value \in Unknown(StatusCalls[n])
    <3>1. apis = StatusCalls
      BY <2>1, <2>5, ClientAssumption
    <3>2. /\ Len(apis) = 2 /\ apis[1] = "GetCapacity" /\ apis[2] = "GetChargingStatus"
          /\ StatusCalls[1] = "GetCapacity" /\ StatusCalls[2] = "GetChargingStatus"
      BY <3>1 DEF StatusCalls
    <3>3. \A n \in 1..2 : as[n] \in Answer /\ Fits(as[n], apis[n], permissions)
      BY <2>3, <3>2
    <3>4. /\ as[1].by = 0 => as[1].value = "INVALID"
          /\ as[2].by = 0 => as[2].value = "BUTT"
          /\ as[1].by # 0 => as[1].value \in {"READ", "FULL", "NONE"} \cup Unknown(apis[1])
          /\ as[2].by # 0 => as[2].value \in {"READ", "FULL", "NONE"} \cup Unknown(apis[2])
      BY <3>2, <3>3, GetterShows
    <3>5. Callbacks(as)[1] = IF as[1].value # "INVALID" /\ as[2].value # "BUTT"
                             THEN "success" ELSE "fail"
      BY DEF Callbacks, GotBatteryInfo
    <3>6. CASE as[1].value # "INVALID" /\ as[2].value # "BUTT"
      BY <3>4, <3>5, <3>6
    <3>7. CASE as[1].value = "INVALID"
      <4>1. as[1].by = 0 \/ as[1].value \in Unknown(StatusCalls[1])
        BY <3>2, <3>4, <3>7
      <4>. QED
        BY <3>5, <3>7, <4>1
    <3>8. CASE as[2].value = "BUTT"
      <4>1. as[2].by = 0 \/ as[2].value \in Unknown(StatusCalls[2])
        BY <3>2, <3>4, <3>8
      <4>. QED
        BY <3>5, <3>8, <4>1
    <3>. QED
      BY <3>6, <3>7, <3>8
  <2>6. ASSUME a \in ConfigCalls, b \in {"napi", "taihe"}
        PROVE  /\ Throws(b, as[1].value) = "CONNECTION_FAIL" <=> as[1].by = 0
               /\ Throws(b, as[1].value) = "nothing" =>
                       as[1].by # 0 /\ "system" \in permissions
    <3>1. /\ as[1].by = 0 => as[1].value = "CONNECTION_FAIL"
          /\ as[1].by # 0 => \/ as[1].value = "SYSTEM_API_DENIED"
                             \/ as[1].value \in {"OK", "FAILURE"} /\ "system" \in permissions
      BY <2>3, <2>4, <2>6, ConfigTells
    <3>. QED
      BY <2>6, <3>1 DEF Throws, NapiThrows, TaiheThrows, IsError
  <2>7. ASSUME b # "status", FailureShows(b, a)
        PROVE  as[1].by = 0 => Shown(b, a, as[1].value) \in {"INVALID", "BUTT"}
    <3>1. /\ a \in {"GetCapacity", "GetChargingStatus", "GetHealthStatus", "GetPluggedType"}
          /\ a # "GetCapacity" => b # "taihe"
      BY <2>7 DEF FailureShows
    <3>2. as[1].by = 0 => as[1].value = IF a = "GetCapacity" THEN "INVALID" ELSE "BUTT"
      BY <2>3, <2>4, <3>1, GetterShows
    <3>. QED
      BY <3>1, <3>2 DEF Shown, NapiShown, CjShown, CapiShown, TaiheShown
  <2>. QED
    BY <2>5, <2>6, <2>7
<1>. QED
  BY <1>1, Invariance, PTL
==============================================================================
