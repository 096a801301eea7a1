------------------------ MODULE BatteryNotifyProofs ------------------------
(***************************************************************************)
(* BatteryNotify implements EdgeEvents, for every number of threads and    *)
(* every set of readings.                                                  *)
(***************************************************************************)
EXTENDS BatteryNotify, TLAPS

(***************************************************************************)
(* The readings and the threads: what their types say of each other.       *)
(***************************************************************************)
LEMMA SharedOrCes ==
  /\ Thread = SharedThreads \cup {CesThread}
  /\ CesThread \notin SharedThreads
BY NotifyThreadsAssumption DEF Thread, SharedThreads

(***************************************************************************)
(* The steps of PublishEvents, the six publishers taken together.          *)
(***************************************************************************)
LEMMA StepsOfPublishEvents ==
  ASSUME NEW t \in Thread, PublishEvents(t)
  PROVE  \/ CesMissing(t)
         \/ PublishOrdinary(t)
         \/ HandleUevent(t)
         \/ PublishChangedEvent(t)
         \/ LockMutex(t)
         \/ \E e \in Event : PublishEdgeEvent(t, e)
         \/ PublishChargeTypeChangedEvent(t)
BY DEF PublishEvents, PublishLowEvent, PublishOkayEvent,
       PublishPowerConnectedEvent, PublishPowerDisconnectedEvent,
       PublishChargingEvent, PublishDischargingEvent, Event

(***************************************************************************)
(* The initial states have the types.                                      *)
(***************************************************************************)
LEMMA TypeInit == Init => TypeOK
BY DEF Init, TypeOK, Label, Event

(***************************************************************************)
(* Every step keeps the types.                                             *)
(***************************************************************************)
LEMMA TypeNext == TypeOK /\ [Next]_vars => TypeOK'
<1> SUFFICES ASSUME TypeOK, [Next]_vars PROVE TypeOK'
  OBVIOUS
<1> USE DEF TypeOK, infoVars, startVars, eventVars
<1>1. ASSUME NEW t \in ReportThreads, HandleBatteryInfo(t) PROVE TypeOK'
  BY <1>1, ReadingsAssumption
     DEF HandleBatteryInfo, Assign, Goto, Overlapping, Quiet, Label
<1>2. ASSUME NEW t \in InitThreads, RegisterBatteryHdiCallback(t)
      PROVE  TypeOK'
  BY <1>2 DEF RegisterBatteryHdiCallback, Goto, Overlapping, Quiet, Label
<1>3. ASSUME NEW t \in InitThreads, InitBatteryInfo(t) PROVE TypeOK'
  BY <1>3 DEF InitBatteryInfo, Assign, Goto, Label
<1>4. ASSUME NEW t \in InitThreads, SetHdiReady(t) PROVE TypeOK'
  BY <1>4 DEF SetHdiReady, Goto, Label
<1>5. CASE CesStarts
  BY <1>5 DEF CesStarts
<1>6. CASE OnAddTooEarly
  BY <1>6 DEF OnAddTooEarly, Overlapping, Quiet
<1>7. CASE OnAddSystemAbility
  BY <1>7 DEF OnAddSystemAbility, Goto, Overlapping, Quiet, Label
<1>8. CASE SetCommonEventReady
  BY <1>8 DEF SetCommonEventReady, Goto, Label
<1>9. ASSUME NEW t \in Thread, PublishEvents(t) PROVE TypeOK'
  <2>1. CASE CesMissing(t)
    BY <2>1 DEF CesMissing, Goto, Return, Label
  <2>2. CASE PublishOrdinary(t)
    BY <2>2 DEF PublishOrdinary, Goto, Label
  <2>3. CASE HandleUevent(t)
    BY <2>3 DEF HandleUevent, Goto, Return, Argument, Label
  <2>4. CASE PublishChangedEvent(t)
    BY <2>4 DEF PublishChangedEvent, Goto, Argument, Label
  <2>5. CASE LockMutex(t)
    BY <2>5 DEF LockMutex, Goto, Label, Section, Event
  <2>6. ASSUME NEW e \in Event, PublishEdgeEvent(t, e) PROVE TypeOK'
    <3>1. Holds(e, Argument(t)) \in BOOLEAN
      BY DEF Holds
    <3>2. once' \in [Event -> BOOLEAN]
      BY <2>6, <3>1 DEF PublishEdgeEvent
    <3>3. pc' \in [Thread -> Label]
      BY <2>6 DEF PublishEdgeEvent, Goto, After, Label, Section, Event
    <3>4. said' \subseteq Event
      BY <2>6 DEF PublishEdgeEvent, Tell
    <3>. QED
      BY <2>6, <3>2, <3>3, <3>4 DEF PublishEdgeEvent
  <2>7. CASE PublishChargeTypeChangedEvent(t)
    BY <2>7 DEF PublishChargeTypeChangedEvent, Goto, Return, Argument, Label,
                Reading, NoReading
  <2>. QED
    BY <1>9, <2>1, <2>2, <2>3, <2>4, <2>5, <2>6, <2>7,
       StepsOfPublishEvents
<1>10. CASE UNCHANGED vars
  BY <1>10 DEF vars
<1>. QED
  BY <1>1, <1>2, <1>3, <1>4, <1>5, <1>6, <1>7, <1>8, <1>9, <1>10 DEF Next

(***************************************************************************)
(* The type invariant holds in every behaviour.                            *)
(***************************************************************************)
THEOREM TypeCorrect == Spec => []TypeOK
<1>1. Init => TypeOK
  BY TypeInit
<1>2. TypeOK /\ [Next]_vars => TypeOK'
  BY TypeNext
<1>. QED
  BY <1>1, <1>2, PTL DEF Spec

-----------------------------------------------------------------------------
(***************************************************************************)
(* The events of a pair exclude each other, and the second is published    *)
(* right after the first.                                                  *)
(***************************************************************************)
LEMMA Pairs ==
  /\ First \subseteq Event
  /\ Event = First \cup {Opposite[f] : f \in First}
  /\ \A e \in Event : Opposite[e] \in Event /\ Opposite[Opposite[e]] = e
  /\ \A f \in First : After[f] = Opposite[f] /\ Opposite[f] \notin First
  /\ \A f, g \in First : Opposite[f] = Opposite[g] => f = g
BY DEF First, Event, Opposite, After

LEMMA EitherHolds ==
  ASSUME NEW f \in First, NEW info \in Reading \cup {NoReading}
  PROVE  Holds(Opposite[f], info) <=> ~Holds(f, info)
<1>1. info.capacity \in Int
  <2>1. CASE info \in Reading
    BY <2>1, ReadingsAssumption DEF Reading
  <2>2. CASE info = NoReading
    BY <2>2 DEF NoReading
  <2>. QED
    BY <2>1, <2>2
<1>2. CASE f = "low"
  BY <1>1, <1>2, ReadingsAssumption DEF Holds, Opposite
<1>3. CASE f = "connected"
  BY <1>3 DEF Holds, Opposite
<1>4. CASE f = "charging"
  BY <1>4 DEF Holds, Opposite
<1>. QED
  BY <1>2, <1>3, <1>4 DEF First

(***************************************************************************)
(* A step of an action that touches neither mutex_ nor a section keeps the *)
(* holder in the section.                                                  *)
(***************************************************************************)
LEMMA HolderNext ==
  TypeOK /\ HolderInSection /\ [Next]_vars => HolderInSection'
<1> SUFFICES ASSUME TypeOK, HolderInSection, [Next]_vars
             PROVE  HolderInSection'
  OBVIOUS
<1> USE DEF TypeOK, HolderInSection, Goto
<1>0. {"idle", "init", "publish", "changed", "lock", "ready"}
        \cap Section = {}
  BY DEF Section, Event
<1>1. ASSUME NEW t \in Thread, NEW from, NEW to, Goto(t, from, to),
             from \notin Section, to \notin Section, mutex' = mutex
      PROVE  HolderInSection'
  BY <1>1
<1>2. ASSUME NEW t \in ReportThreads, HandleBatteryInfo(t)
      PROVE  HolderInSection'
  BY <1>2, <1>0, <1>1 DEF HandleBatteryInfo, Thread, SharedThreads
<1>3. ASSUME NEW t \in InitThreads,
             \/ RegisterBatteryHdiCallback(t)
             \/ InitBatteryInfo(t)
             \/ SetHdiReady(t)
      PROVE  HolderInSection'
  BY <1>3, <1>0, <1>1 DEF RegisterBatteryHdiCallback, InitBatteryInfo,
                          SetHdiReady, Thread, SharedThreads
<1>4. CASE CesStarts \/ OnAddTooEarly
  BY <1>4 DEF CesStarts, OnAddTooEarly
<1>5. CASE OnAddSystemAbility \/ SetCommonEventReady
  BY <1>5, <1>0, <1>1 DEF OnAddSystemAbility, SetCommonEventReady, Thread
<1>6. ASSUME NEW t \in Thread, PublishEvents(t) PROVE HolderInSection'
  <2>1. Return(t) \notin Section
    BY <1>0 DEF Return
  <2>2. CASE CesMissing(t) \/ HandleUevent(t)
    BY <2>1, <2>2, <1>0, <1>1 DEF CesMissing, HandleUevent
  <2>3. CASE PublishOrdinary(t) \/ PublishChangedEvent(t)
    BY <2>3, <1>0, <1>1 DEF PublishOrdinary, PublishChangedEvent
  <2>4. CASE LockMutex(t)
    BY <2>4 DEF LockMutex, Section, Event
  <2>5. ASSUME NEW e \in Event, PublishEdgeEvent(t, e)
        PROVE  HolderInSection'
    <3>1. e \in Section /\ After[e] \in Section
      BY DEF Section, Event, After
    <3>. QED
      BY <2>5, <3>1 DEF PublishEdgeEvent
  <2>6. CASE PublishChargeTypeChangedEvent(t)
    <3>1. pc[t] \in Section /\ mutex' = {}
      BY <2>6 DEF PublishChargeTypeChangedEvent, Section
    <3>. QED
      BY <2>1, <2>6, <3>1 DEF PublishChargeTypeChangedEvent
  <2>. QED
    BY <1>6, <2>2, <2>3, <2>4, <2>5, <2>6, StepsOfPublishEvents
<1>7. CASE UNCHANGED vars
  BY <1>7 DEF vars
<1>. QED
  BY <1>2, <1>3, <1>4, <1>5, <1>6, <1>7 DEF Next

-----------------------------------------------------------------------------
(***************************************************************************)
(* A step that changes no flag and no event, moves nobody to or from the   *)
(* second publisher of a pair and keeps what the thread there publishes,   *)
(* keeps what the flags of the pair tell.                                  *)
(***************************************************************************)
LEMMA Frame ==
  ASSUME NEW f \in First, FlagsOf(f), once' = once, said' = said,
         \A t \in Thread : pc[t] = Opposite[f] <=> pc'[t] = Opposite[f],
         \A t \in Thread : pc[t] = Opposite[f] => Argument(t)' = Argument(t)
  PROVE  FlagsOf(f)'
<1>1. Settled(f) => Settled(f)'
  BY DEF Settled, NotBoth
<1>2. ASSUME NEW t \in Thread, pc[t] = Opposite[f], HalfWay(f, Argument(t))
      PROVE  HalfWay(f, Argument(t))'
  <2>1. Argument(t)' = Argument(t)
    BY <1>2
  <2>. QED
    BY <1>2, <2>1 DEF HalfWay, NotBoth, Holds, Plugged, Charging
<1>. QED
  BY <1>1, <1>2 DEF FlagsOf

(***************************************************************************)
(* Only the thread in the section takes a step of the section.             *)
(***************************************************************************)
LEMMA OneInSection ==
  ASSUME HolderInSection, NEW t \in Thread, NEW u \in Thread,
         pc[t] \in Section, pc[u] \in Section
  PROVE  t = u
BY DEF HolderInSection

(***************************************************************************)
(* An event that is published is not the last one of its pair that was.    *)
(***************************************************************************)
LEMMA NotTold ==
  ASSUME IInv, ~torn, NEW t \in Thread, NEW e \in Event,
         pc[t] = e, Holds(e, Argument(t)), ~once[e]
  PROVE  e \notin said
<1>1. CASE e \in First
  <2>1. \A u \in Thread : pc[u] # Opposite[e]
    <3>1. e \in Section /\ Opposite[e] \in Section /\ e # Opposite[e]
      BY <1>1, Pairs DEF Section
    <3>. QED
      BY <3>1, OneInSection DEF IInv
  <2>2. Settled(e)
    BY <1>1, <2>1 DEF IInv, FlagsTellLast, FlagsOf
  <2>. QED
    BY <2>2 DEF Settled
<1>2. ASSUME NEW f \in First, e = Opposite[f] PROVE e \notin said
  <2>1. HalfWay(f, Argument(t))
    BY <1>2 DEF IInv, FlagsTellLast, FlagsOf
  <2>2. Argument(t) \in Reading \cup {NoReading}
    BY DEF IInv, TypeOK, Argument
  <2>3. ~Holds(f, Argument(t))
    BY <1>2, <2>2, EitherHolds
  <2>. QED
    BY <1>2, <2>1, <2>3 DEF HalfWay
<1>. QED
  BY <1>1, <1>2, Pairs

(***************************************************************************)
(* The publishers keep what the flags tell: the first one of a pair makes  *)
(* the flags of a settled pair half-way, the second settles them.          *)
(***************************************************************************)
LEMMA FlagsPublish ==
  ASSUME IInv, ~torn, NEW t \in Thread, NEW e \in Event,
         PublishEdgeEvent(t, e), NEW f \in First, FlagsOf(f)
  PROVE  FlagsOf(f)'
<1> DEFINE info == Argument(t)
<1>1. /\ pc[t] = e /\ pc' = [pc EXCEPT ![t] = After[e]]
      /\ once' = [once EXCEPT ![e] = Holds(e, info)]
      /\ said' = IF Holds(e, info) /\ ~once[e]
                 THEN (said \ {Opposite[e]}) \cup {e} ELSE said
      /\ Argument(t)' = info
  <2>1. pc[t] = e
    BY DEF PublishEdgeEvent, Goto
  <2>2. Holds(e, info) /\ ~once[e] => e \notin said
    BY <2>1, NotTold
  <2>. QED
    BY <2>2 DEF PublishEdgeEvent, Goto, Argument, infoVars, Tell
<1>2. /\ pc \in [Thread -> Label] /\ once \in [Event -> BOOLEAN]
      /\ said \subseteq Event
      /\ info \in Reading \cup {NoReading}
  BY DEF IInv, TypeOK, Argument
<1>3. /\ e \in Section /\ Opposite[f] \in Section
      /\ f \in Event /\ Opposite[f] \in Event /\ f # Opposite[f]
  BY Pairs DEF Section
<1>4. \A u \in Thread \ {t} : pc[u] # Opposite[f] /\ pc'[u] = pc[u]
  <2>1. \A u \in Thread : pc[u] \in Section => u = t
    BY <1>1, <1>3, OneInSection DEF IInv
  <2>. QED
    BY <1>1, <1>2, <1>3, <2>1
<1>5. pc'[t] = After[e]
  BY <1>1, <1>2
<1>6. CASE e = f
  <2>1. After[e] = Opposite[f]
    BY <1>6, Pairs
  <2>2. Settled(f)
    <3>1. \A u \in Thread : pc[u] # Opposite[f]
      BY <1>1, <1>3, <1>4, <1>6
    <3>. QED
      BY <3>1 DEF FlagsOf
  <2>3. /\ once'[f] = Holds(f, info)
        /\ once'[Opposite[f]] = once[Opposite[f]]
        /\ said' = IF Holds(f, info) /\ ~once[f]
                   THEN (said \ {Opposite[f]}) \cup {f} ELSE said
    BY <1>1, <1>2, <1>3, <1>6
  <2>4. \/ Holds(f, info) /\ once'[f] /\ f \in said' /\ Opposite[f] \notin said'
        \/ /\ ~Holds(f, info) /\ ~once'[f]
           /\ f \notin said' \/ Opposite[f] \notin said'
           /\ once'[Opposite[f]] <=> Opposite[f] \in said'
    <3>1. CASE Holds(f, info)
      <4>1. CASE once[f]
        BY <2>2, <2>3, <3>1, <4>1 DEF Settled, NotBoth
      <4>2. CASE ~once[f]
        BY <1>3, <2>3, <3>1, <4>2
      <4>. QED
        BY <4>1, <4>2
    <3>2. CASE ~Holds(f, info)
      BY <2>2, <2>3, <3>2 DEF Settled, NotBoth
    <3>. QED
      BY <3>1, <3>2
  <2>5. HalfWay(f, Argument(t))'
    BY <1>1, <2>4 DEF HalfWay, NotBoth, Holds, Plugged, Charging
  <2>. QED
    BY <1>4, <1>5, <2>1, <2>5 DEF FlagsOf
<1>7. CASE e = Opposite[f]
  <2>1. HalfWay(f, info)
    BY <1>1, <1>7 DEF FlagsOf
  <2>2. Holds(e, info) <=> ~Holds(f, info)
    BY <1>2, <1>7, EitherHolds
  <2>3. /\ once'[f] = once[f] /\ once'[e] = Holds(e, info)
        /\ Opposite[e] = f
    BY <1>1, <1>2, <1>3, <1>7, Pairs
  <2>4. Settled(f)'
    <3>1. CASE Holds(f, info)
      BY <1>1, <1>7, <2>1, <2>2, <2>3, <3>1 DEF HalfWay, Settled, NotBoth
    <3>2. CASE ~Holds(f, info)
      <4>1. CASE once[e]
        BY <1>1, <1>7, <2>1, <2>2, <2>3, <3>2, <4>1
           DEF HalfWay, Settled, NotBoth
      <4>2. CASE ~once[e]
        BY <1>1, <1>3, <1>7, <2>1, <2>2, <2>3, <3>2, <4>2
           DEF HalfWay, Settled, NotBoth
      <4>. QED
        BY <4>1, <4>2
    <3>. QED
      BY <3>1, <3>2
  <2>5. pc'[t] # Opposite[f]
    BY <1>5, <1>7 DEF After, Opposite, First
  <2>. QED
    BY <1>4, <2>4, <2>5 DEF FlagsOf
<1>8. CASE e # f /\ e # Opposite[f]
  <2>1. Opposite[e] # f /\ Opposite[e] # Opposite[f]
    BY <1>3, <1>8, Pairs
  <2>2. After[e] # Opposite[f]
    BY <1>8 DEF After, Opposite, First, Event
  <2>3. Settled(f)
    BY <1>1, <1>4, <1>8 DEF FlagsOf
  <2>4. Settled(f)'
    <3>1. once'[f] = once[f] /\ once'[Opposite[f]] = once[Opposite[f]]
      BY <1>1, <1>2, <1>3, <1>8
    <3>2. /\ f \in said' <=> f \in said
          /\ Opposite[f] \in said' <=> Opposite[f] \in said
      BY <1>1, <1>8, <2>1
    <3>. QED
      BY <2>3, <3>1, <3>2 DEF Settled, NotBoth
  <2>. QED
    BY <1>4, <1>5, <2>2, <2>4 DEF FlagsOf
<1>. QED
  BY <1>6, <1>7, <1>8

(***************************************************************************)
(* Every step keeps what the flags tell, or tears batteryInfo_.            *)
(***************************************************************************)
LEMMA FlagsNext == IInv /\ [Next]_vars => FlagsTellLast'
<1> SUFFICES ASSUME IInv, [Next]_vars, ~torn', NEW f \in First
             PROVE  FlagsOf(f)'
  BY DEF FlagsTellLast
<1> USE DEF infoVars, startVars, eventVars
<1>1. TypeOK /\ HolderInSection
  BY DEF IInv
<1>2. ASSUME ~torn PROVE FlagsOf(f)
  BY <1>2 DEF IInv, FlagsTellLast
<1>3. Opposite[f] \in Section
  BY Pairs DEF Section
<1>4. {"idle", "init", "publish", "changed", "lock", "ready", "low",
        "chargeType"} \cap {Opposite[f]} = {}
  BY DEF First, Opposite
<1>5. ASSUME ~torn, NEW t \in Thread, NEW from, NEW to, Goto(t, from, to),
             from # Opposite[f], to # Opposite[f], once' = once, said' = said,
             \A u \in Thread : pc[u] \in Section => Argument(u)' = Argument(u)
      PROVE  FlagsOf(f)'
  <2>1. \A u \in Thread : pc[u] = Opposite[f] <=> pc'[u] = Opposite[f]
    BY <1>1, <1>5 DEF TypeOK, Goto
  <2>. QED
    BY <1>2, <1>3, <1>5, <2>1, Frame
<1>6. ASSUME NEW events, Assign(events), copy' = copy
      PROVE  /\ ~torn
             /\ \A u \in Thread : pc[u] \in Section => Argument(u)' = Argument(u)
  BY <1>6, SharedOrCes DEF Assign, Argument
<1>7. ASSUME NEW t \in ReportThreads, HandleBatteryInfo(t)
      PROVE  FlagsOf(f)'
  <2>1. t \in Thread
    BY DEF Thread, SharedThreads
  <2>2. /\ Goto(t, "idle", "publish") /\ Assign(Uevent \cup {uevent})
        /\ copy' = copy /\ once' = once /\ said' = said
    BY <1>7 DEF HandleBatteryInfo
  <2>. QED
    BY <1>4, <1>5, <1>6, <2>1, <2>2
<1>8. ASSUME NEW t \in InitThreads, RegisterBatteryHdiCallback(t)
      PROVE  FlagsOf(f)'
  BY <1>4, <1>5, <1>8
     DEF RegisterBatteryHdiCallback, Thread, SharedThreads, Argument
<1>9. ASSUME NEW t \in InitThreads, InitBatteryInfo(t)
      PROVE  FlagsOf(f)'
  <2>1. t \in Thread
    BY DEF Thread, SharedThreads
  <2>2. /\ Goto(t, "init", "publish")
        /\ Assign({uevent, "plain", "broadcast"})
        /\ copy' = copy /\ once' = once /\ said' = said
    BY <1>9 DEF InitBatteryInfo
  <2>. QED
    BY <1>4, <1>5, <1>6, <2>1, <2>2
<1>10. ASSUME NEW t \in InitThreads, SetHdiReady(t) PROVE FlagsOf(f)'
  BY <1>4, <1>5, <1>10 DEF SetHdiReady, Thread, SharedThreads, Argument
<1>11. CASE CesStarts
  BY <1>2, <1>11, Frame DEF CesStarts, Argument
<1>12. CASE OnAddTooEarly
  BY <1>2, <1>12, Frame DEF OnAddTooEarly, Argument
<1>13. ASSUME NEW from \in {"idle", "ready"}, NEW to \in {"publish", "idle"},
              Goto(CesThread, from, to), ~torn, batteryInfo' = batteryInfo,
              once' = once, said' = said
       PROVE  FlagsOf(f)'
  <2>1. \A u \in Thread : pc[u] \in Section => Argument(u)' = Argument(u)
    BY <1>13 DEF Argument, Goto, Section, Event
  <2>. QED
    BY <1>4, <1>5, <1>13, <2>1, SharedOrCes
<1>14. CASE OnAddSystemAbility
  BY <1>13, <1>14 DEF OnAddSystemAbility
<1>15. CASE SetCommonEventReady
  BY <1>13, <1>15 DEF SetCommonEventReady
<1>16. ASSUME NEW t \in Thread, PublishEvents(t) PROVE FlagsOf(f)'
  <2>1. Return(t) # Opposite[f]
    BY <1>4 DEF Return
  <2>2. CASE CesMissing(t) \/ HandleUevent(t)
    BY <1>4, <1>5, <2>1, <2>2 DEF CesMissing, HandleUevent, Argument
  <2>3. CASE PublishOrdinary(t) \/ PublishChangedEvent(t) \/ LockMutex(t)
    BY <1>4, <1>5, <2>3
       DEF PublishOrdinary, PublishChangedEvent, LockMutex, Argument
  <2>4. ASSUME NEW e \in Event, PublishEdgeEvent(t, e) PROVE FlagsOf(f)'
    <3>1. ~torn
      BY <2>4 DEF PublishEdgeEvent
    <3>2. FlagsOf(f)
      BY <1>2, <3>1
    <3>. QED
      BY <2>4, <3>1, <3>2, FlagsPublish
  <2>5. CASE PublishChargeTypeChangedEvent(t)
    BY <1>4, <1>5, <2>1, <2>5 DEF PublishChargeTypeChangedEvent, Argument
  <2>. QED
    BY <1>16, <2>2, <2>3, <2>4, <2>5, StepsOfPublishEvents
<1>17. CASE UNCHANGED vars
  BY <1>2, <1>17, Frame DEF vars, Argument
<1>. QED
  BY <1>7, <1>8, <1>9, <1>10, <1>11, <1>12, <1>14, <1>15, <1>16, <1>17
     DEF Next

-----------------------------------------------------------------------------
(***************************************************************************)
(* One caller at a time.  A step of PublishEvents moves its thread through *)
(* the publishers or back to its caller, and nothing else of the callers.  *)
(***************************************************************************)
LEMMA PublishMoves ==
  ASSUME TypeOK, NEW t \in Thread, PublishEvents(t)
  PROVE  /\ pc[t] \in AtWork
         /\ pc'[t] \in (AtWork \ {"publish"}) \cup {Return(t)}
         /\ \A u \in Thread \ {t} : pc'[u] = pc[u]
         /\ UNCHANGED <<batteryInfo, torn, copy, overlap, registered, hdiReady, ces,
                        added, cesReady>>
<1> USE DEF TypeOK, Goto, AtWork, Section, Event, infoVars, startVars, eventVars
<1>1. CASE CesMissing(t)
  BY <1>1 DEF CesMissing
<1>2. CASE PublishOrdinary(t) \/ PublishChangedEvent(t)
  BY <1>2 DEF PublishOrdinary, PublishChangedEvent
<1>3. CASE HandleUevent(t)
  BY <1>3 DEF HandleUevent
<1>4. CASE LockMutex(t)
  BY <1>4 DEF LockMutex
<1>5. ASSUME NEW e \in Event, PublishEdgeEvent(t, e)
      PROVE  /\ pc[t] \in AtWork
             /\ pc'[t] \in (AtWork \ {"publish"}) \cup {Return(t)}
             /\ \A u \in Thread \ {t} : pc'[u] = pc[u]
             /\ UNCHANGED <<batteryInfo, torn, copy, overlap, registered, hdiReady,
                            ces, added, cesReady>>
  BY <1>5 DEF PublishEdgeEvent, After
<1>6. CASE PublishChargeTypeChangedEvent(t)
  BY <1>6 DEF PublishChargeTypeChangedEvent
<1>. QED
  BY <1>1, <1>2, <1>3, <1>4, <1>5, <1>6, StepsOfPublishEvents

LEMMA OverlapStays == TypeOK /\ [Next]_vars /\ ~overlap' => ~overlap
<1> SUFFICES ASSUME TypeOK, [Next]_vars, ~overlap' PROVE ~overlap
  OBVIOUS
<1>1. CASE UNCHANGED vars
  BY <1>1 DEF vars
<1>2. ASSUME NEW t \in Thread, PublishEvents(t) PROVE ~overlap
  BY <1>2, PublishMoves
<1>. QED
  BY <1>1, <1>2 DEF Next, HandleBatteryInfo, RegisterBatteryHdiCallback, InitBatteryInfo,
     SetHdiReady, CesStarts, OnAddTooEarly, OnAddSystemAbility, SetCommonEventReady,
     Overlapping

LEMMA WorkNext == IInv /\ [Next]_vars => OneAtWork'
<1> SUFFICES ASSUME IInv, [Next]_vars, ~overlap' PROVE OneAtWork'
  BY DEF OneAtWork
<1>a. TypeOK /\ pc \in [Thread -> Label] /\ CesThread \in Thread
  BY SharedOrCes DEF IInv, TypeOK
<1>b. /\ ~overlap /\ ~torn
      /\ \A t, u \in Thread : Busy(t) /\ Busy(u) => t = u
      /\ pc[CesThread] \in AtWork => copy = batteryInfo
  BY <1>a, OverlapStays DEF IInv, OneAtWork
<1>c. \A t \in SharedThreads : t \in Thread /\ t # CesThread
  BY SharedOrCes
<1>d. "idle" \notin Section /\ "init" \notin Section /\ "idle" \notin AtWork
      /\ "ready" \notin AtWork /\ "init" \notin AtWork
  BY DEF Section, Event, AtWork
<1> USE DEF OneAtWork, Busy, Goto
<1>1. ASSUME NEW t \in ReportThreads, HandleBatteryInfo(t) PROVE OneAtWork'
  BY <1>1, <1>a, <1>b, <1>c, <1>d
     DEF HandleBatteryInfo, Assign, Overlapping, Quiet, SharedThreads
<1>2. ASSUME NEW t \in InitThreads, RegisterBatteryHdiCallback(t) PROVE OneAtWork'
  BY <1>2, <1>a, <1>b, <1>c, <1>d
     DEF RegisterBatteryHdiCallback, Overlapping, Quiet, SharedThreads, infoVars
<1>3. ASSUME NEW t \in InitThreads, InitBatteryInfo(t) PROVE OneAtWork'
  <2>1. t \in SharedThreads /\ pc[t] = "init" /\ pc' = [pc EXCEPT ![t] = "publish"]
    BY <1>3 DEF InitBatteryInfo, SharedThreads
  <2>2. \A u \in Thread \ {t} : pc[u] = "idle" /\ pc'[u] = "idle"
    BY <1>a, <1>b, <1>c, <2>1
  <2>3. ~torn'
    BY <1>3, <1>b, <1>c, <1>d, <2>1, <2>2 DEF InitBatteryInfo, Assign
  <2>. QED
    BY <1>a, <1>c, <1>d, <2>1, <2>2, <2>3
<1>4. ASSUME NEW t \in InitThreads, SetHdiReady(t) PROVE OneAtWork'
  BY <1>4, <1>a, <1>b, <1>c, <1>d DEF SetHdiReady, SharedThreads, infoVars
<1>5. CASE CesStarts \/ OnAddTooEarly
  BY <1>5, <1>b DEF CesStarts, OnAddTooEarly, infoVars
<1>6. CASE OnAddSystemAbility
  BY <1>6, <1>a, <1>b DEF OnAddSystemAbility, Overlapping, Quiet, infoVars
<1>7. CASE SetCommonEventReady
  BY <1>7, <1>a, <1>b, <1>d DEF SetCommonEventReady, infoVars
<1>8. ASSUME NEW t \in Thread, PublishEvents(t) PROVE OneAtWork'
  <2>1. /\ pc[t] \in AtWork /\ \A u \in Thread \ {t} : pc'[u] = pc[u]
        /\ UNCHANGED <<batteryInfo, torn, copy>>
    BY <1>8, <1>a, PublishMoves
  <2>2. pc[t] # "idle"
    BY <1>d, <2>1
  <2>. QED
    BY <1>a, <1>b, <2>1, <2>2
<1>9. CASE UNCHANGED vars
  BY <1>9, <1>b DEF vars, infoVars
<1>. QED
  BY <1>1, <1>2, <1>3, <1>4, <1>5, <1>6, <1>7, <1>8, <1>9 DEF Next

(***************************************************************************)
(* Who publishes after the common event service is there sets cesInit.     *)
(***************************************************************************)
LEMMA KnownNext == IInv /\ [Next]_vars => CesIsKnown'
<1> SUFFICES ASSUME IInv, [Next]_vars PROVE CesIsKnown'
  OBVIOUS
<1>a. TypeOK /\ pc \in [Thread -> Label] /\ CesThread \in Thread
  BY SharedOrCes DEF IInv, TypeOK
<1>b. /\ \A t \in Thread : pc[t] \in AtWork \ {"publish"} => cesInit
      /\ added \/ Busy(CesThread) => ces
      /\ ~overlap =>
           /\ added /\ hdiReady => cesInit \/ pc[CesThread] = "publish"
           /\ \A t \in Thread : added /\ pc[t] = "ready" => cesInit
  BY DEF IInv, CesIsKnown
<1>c. \A t \in ReportThreads \cup InitThreads : t \in Thread /\ t # CesThread
  BY SharedOrCes DEF SharedThreads
<1>d. /\ {"idle", "init", "ready"} \cap AtWork = {}
      /\ "publish" \in AtWork
  BY DEF Section, Event, AtWork
<1>e. ~overlap' => ~overlap
  BY <1>a, OverlapStays
<1> USE DEF CesIsKnown, Busy, Goto, infoVars, startVars, eventVars
<1>1. ASSUME NEW t \in ReportThreads, HandleBatteryInfo(t) PROVE CesIsKnown'
  BY <1>1, <1>a, <1>b, <1>c, <1>d, <1>e DEF HandleBatteryInfo
<1>2. ASSUME NEW t \in InitThreads, RegisterBatteryHdiCallback(t) \/ InitBatteryInfo(t)
      PROVE  CesIsKnown'
  BY <1>2, <1>a, <1>b, <1>c, <1>d, <1>e DEF RegisterBatteryHdiCallback, InitBatteryInfo
<1>3. ASSUME NEW t \in InitThreads, SetHdiReady(t) PROVE CesIsKnown'
  BY <1>3, <1>a, <1>b, <1>c, <1>d, <1>e DEF SetHdiReady
<1>4. CASE CesStarts
  BY <1>4, <1>b, <1>e DEF CesStarts
<1>5. CASE OnAddTooEarly
  BY <1>5, <1>b, <1>e DEF OnAddTooEarly, Overlapping, Quiet
<1>6. CASE OnAddSystemAbility
  BY <1>6, <1>a, <1>b, <1>d, <1>e DEF OnAddSystemAbility, Overlapping, Quiet
<1>7. CASE SetCommonEventReady
  BY <1>7, <1>a, <1>b, <1>d, <1>e DEF SetCommonEventReady
<1>8. ASSUME NEW t \in Thread, PublishEvents(t) PROVE CesIsKnown'
  <2>1. /\ pc[t] \in AtWork
        /\ pc'[t] \in (AtWork \ {"publish"}) \cup {Return(t)}
        /\ \A u \in Thread \ {t} : pc'[u] = pc[u]
        /\ UNCHANGED <<overlap, hdiReady, ces, added>>
    BY <1>8, <1>a, PublishMoves
  <2>2. CASE CesMissing(t)
    <3>1. ~cesInit /\ ~ces /\ pc'[t] = Return(t) /\ cesInit' = cesInit
      BY <1>a, <2>2 DEF CesMissing
    <3>2. Return(t) \notin AtWork
      BY <1>d DEF Return
    <3>3. ~added' /\ ~Busy(CesThread) /\ t # CesThread
      BY <1>b, <1>d, <2>1, <3>1
    <3>. QED
      BY <1>a, <1>b, <2>1, <3>1, <3>2, <3>3
  <2>3. CASE ~CesMissing(t)
    <3>1. cesInit'
      <4>1. CASE PublishOrdinary(t) \/ HandleUevent(t)
        BY <4>1 DEF PublishOrdinary, HandleUevent
      <4>2. CASE PublishChangedEvent(t) \/ LockMutex(t) \/ PublishChargeTypeChangedEvent(t)
        BY <1>b, <4>2 DEF PublishChangedEvent, LockMutex, PublishChargeTypeChangedEvent,
           AtWork, Section
      <4>3. ASSUME NEW e \in Event, PublishEdgeEvent(t, e) PROVE cesInit'
        <5>1. e \in AtWork \ {"publish"}
          BY DEF AtWork, Section, Event
        <5>. QED
          BY <1>b, <4>3, <5>1 DEF PublishEdgeEvent
      <4>. QED
        BY <1>8, <2>3, <4>1, <4>2, <4>3, StepsOfPublishEvents
    <3>2. added' \/ Busy(CesThread)' => ces'
      BY <1>a, <1>b, <1>d, <2>1
    <3>. QED
      BY <3>1, <3>2
  <2>. QED
    BY <2>2, <2>3
<1>9. CASE UNCHANGED vars
  BY <1>9, <1>b DEF vars
<1>. QED
  BY <1>1, <1>2, <1>3, <1>4, <1>5, <1>6, <1>7, <1>8, <1>9 DEF Next

(***************************************************************************)
(* A publisher of an undisturbed thread settles its pair, if it is the     *)
(* second of it, and leaves the pairs before it as they are.               *)
(***************************************************************************)
LEMMA PublisherTells ==
  ASSUME IInv, ~overlap, NEW t \in Thread, NEW e \in Event, PublishEdgeEvent(t, e),
         NEW f \in Passed[After[e]]
  PROVE  Told(f)'
<1> DEFINE info == batteryInfo
<1>1. pc[t] = e /\ e \in Section /\ ~torn
  BY DEF PublishEdgeEvent, Goto, Section, IInv, OneAtWork
<1>2. Argument(t) = info
  BY <1>1 DEF Argument, IInv, OneAtWork, AtWork
<1>3. said' = IF Holds(e, info) /\ ~once[e]
              THEN (said \ {Opposite[e]}) \cup {e} ELSE said
  <2>1. Holds(e, info) /\ ~once[e] => e \notin said
    BY <1>1, <1>2, NotTold
  <2>. QED
    BY <1>1, <1>2, <2>1 DEF PublishEdgeEvent, Tell
<1>4. batteryInfo' = batteryInfo /\ info \in Reading \cup {NoReading}
  BY DEF PublishEdgeEvent, infoVars, IInv, TypeOK
<1>5. f \in First /\ (e = Opposite[f] \/ f \in Passed[e])
  BY DEF Passed, After, Event, First, Opposite
<1>6. CASE e = Opposite[f]
  <2>1. HalfWay(f, info)
    BY <1>1, <1>2, <1>5, <1>6 DEF IInv, FlagsTellLast, FlagsOf
  <2>2. (Holds(e, info) <=> ~Holds(f, info)) /\ Opposite[e] = f /\ e # f
    BY <1>4, <1>5, <1>6, EitherHolds, Pairs
  <2>3. (f \in said' <=> Holds(f, info)) /\ (e \in said' <=> Holds(e, info))
    <3>1. CASE Holds(f, info)
      BY <1>3, <1>6, <2>1, <2>2, <3>1 DEF HalfWay
    <3>2. CASE ~Holds(f, info)
      <4>1. CASE once[e]
        BY <1>3, <1>6, <2>1, <2>2, <3>2, <4>1 DEF HalfWay, NotBoth
      <4>2. CASE ~once[e]
        BY <1>3, <1>6, <2>1, <2>2, <3>2, <4>2 DEF HalfWay, NotBoth
      <4>. QED
        BY <4>1, <4>2
    <3>. QED
      BY <3>1, <3>2
  <2>. QED
    BY <1>4, <1>6, <2>3 DEF Told
<1>7. CASE e # Opposite[f]
  <2>1. Told(f)
    BY <1>1, <1>5, <1>7 DEF IInv, PassedAreTold
  <2>2. e # f
    BY <1>5, <1>7 DEF Passed, First, Event, Opposite
  <2>3. Opposite[e] # f /\ Opposite[e] # Opposite[f]
    BY <1>5, <1>7, <2>2 DEF First, Event, Opposite
  <2>4. \A g \in {f, Opposite[f]} : g \in said' <=> g \in said
    BY <1>3, <1>7, <2>2, <2>3
  <2>. QED
    BY <1>4, <2>1, <2>4 DEF Told
<1>. QED
  BY <1>6, <1>7

(***************************************************************************)
(* The events of an undisturbed thread, up to its last one.                *)
(***************************************************************************)
LEMMA ToldNext == IInv /\ [Next]_vars => PassedAreTold' /\ RestIsCurrent'
<1> SUFFICES ASSUME IInv, [Next]_vars, ~overlap' PROVE PassedAreTold' /\ RestIsCurrent'
  BY DEF PassedAreTold, RestIsCurrent
<1>a. TypeOK /\ pc \in [Thread -> Label] /\ ~overlap
  BY OverlapStays DEF IInv, TypeOK
<1>b. /\ \A t \in Thread :
           /\ pc[t] \in {"lock"} \cup Section => changed = batteryInfo
           /\ pc[t] \in Section => \A f \in Passed[pc[t]] : Told(f)
      /\ Resting /\ cesInit /\ uevent = "plain" => Current
  BY <1>a DEF IInv, PassedAreTold, RestIsCurrent
<1>c. \A t, u \in Thread : Busy(t) /\ Busy(u) => t = u
  BY <1>a DEF IInv, OneAtWork
<1>d. /\ {"idle", "init", "ready", "publish", "changed"} \cap ({"lock"} \cup Section) = {}
      /\ "lock" \notin Section
  BY DEF Section, Event
<1>e. \A t \in SharedThreads : t \in Thread
  BY SharedOrCes
<1>w. ASSUME NEW t \in Thread, \A u \in Thread \ {t} : pc'[u] = "idle",
             pc'[t] \notin {"idle", "ready", "lock"} \cup Section
      PROVE  PassedAreTold' /\ RestIsCurrent'
  BY <1>w, <1>d DEF PassedAreTold, RestIsCurrent, Resting
<1>s. ASSUME UNCHANGED <<batteryInfo, uevent, cesInit, announced, changed, said>>,
             \A t \in Thread : /\ pc'[t] \in Section => pc'[t] = pc[t]
                               /\ pc'[t] = "lock" => pc[t] = "lock"
                               /\ pc'[t] \in {"idle", "ready"} => pc[t] \in {"idle", "ready"}
      PROVE  PassedAreTold' /\ RestIsCurrent'
  BY <1>s, <1>b DEF PassedAreTold, RestIsCurrent, Resting, Told, Current, Holds, Plugged,
     Charging
<1>1. ASSUME NEW t \in ReportThreads, HandleBatteryInfo(t)
      PROVE  PassedAreTold' /\ RestIsCurrent'
  <2>1. t \in Thread /\ pc' = [pc EXCEPT ![t] = "publish"] /\ \A u \in Thread : pc[u] = "idle"
    BY <1>1, <1>e DEF HandleBatteryInfo, Goto, Overlapping, Quiet, Busy, SharedThreads
  <2>2. pc'[t] = "publish" /\ \A u \in Thread \ {t} : pc'[u] = "idle"
    BY <1>a, <2>1
  <2>. QED
    BY <1>d, <1>w, <2>1, <2>2
<1>2. ASSUME NEW t \in InitThreads, RegisterBatteryHdiCallback(t) \/ InitBatteryInfo(t)
      PROVE  PassedAreTold' /\ RestIsCurrent'
  <2>1. t \in Thread /\ \A u \in Thread \ {t} : pc[u] = "idle"
    <3>1. CASE RegisterBatteryHdiCallback(t)
      BY <1>e, <3>1 DEF RegisterBatteryHdiCallback, Overlapping, Quiet, Busy, SharedThreads
    <3>2. CASE InitBatteryInfo(t)
      BY <1>c, <1>e, <3>2 DEF InitBatteryInfo, Goto, Busy, SharedThreads
    <3>. QED
      BY <1>2, <3>1, <3>2
  <2>2. pc'[t] \in {"init", "publish"} /\ \A u \in Thread \ {t} : pc'[u] = "idle"
    BY <1>2, <1>a, <2>1 DEF RegisterBatteryHdiCallback, InitBatteryInfo, Goto
  <2>. QED
    BY <1>d, <1>w, <2>1, <2>2
<1>3. ASSUME NEW t \in InitThreads, SetHdiReady(t)
      PROVE  PassedAreTold' /\ RestIsCurrent'
  BY <1>3, <1>a, <1>d, <1>e, <1>s
     DEF SetHdiReady, Goto, SharedThreads, infoVars, eventVars
<1>4. CASE CesStarts \/ OnAddTooEarly
  BY <1>4, <1>s DEF CesStarts, OnAddTooEarly, infoVars, eventVars
<1>5. CASE OnAddSystemAbility
  <2>1. CesThread \in Thread
    BY SharedOrCes
  <2>2. pc'[CesThread] = "publish" /\ \A u \in Thread \ {CesThread} : pc'[u] = "idle"
    BY <1>5, <1>a, <2>1 DEF OnAddSystemAbility, Goto, Overlapping, Quiet, Busy
  <2>. QED
    BY <1>d, <1>w, <2>1, <2>2
<1>6. CASE SetCommonEventReady
  BY <1>6, <1>a, <1>d, <1>s DEF SetCommonEventReady, Goto, infoVars, eventVars
<1>7. ASSUME NEW t \in Thread, PublishEvents(t) PROVE PassedAreTold' /\ RestIsCurrent'
  <2>1. /\ pc[t] \in AtWork
        /\ \A u \in Thread \ {t} : pc'[u] = pc[u]
        /\ batteryInfo' = batteryInfo
    BY <1>7, <1>a, PublishMoves
  <2>2. \A u \in Thread \ {t} : pc'[u] = "idle"
    BY <1>c, <2>1 DEF Busy, AtWork, Section, Event
  <2>3. Argument(t) = batteryInfo
    BY <1>a, <2>1 DEF Argument, IInv, OneAtWork
  <2>4. CASE CesMissing(t)
    <3>1. ~cesInit' /\ pc'[t] \in {"idle", "ready"}
      BY <1>a, <2>4 DEF CesMissing, Goto, Return, eventVars
    <3>. QED
      BY <1>d, <2>2, <3>1 DEF PassedAreTold, RestIsCurrent
  <2>5. CASE PublishOrdinary(t)
    BY <1>a, <1>d, <1>w, <2>2, <2>5 DEF PublishOrdinary, Goto
  <2>6. CASE HandleUevent(t)
    <3>1. uevent' # "plain" /\ pc'[t] \in {"idle", "ready"}
      BY <1>a, <2>6 DEF HandleUevent, Goto, Return, ArgumentUevent
    <3>. QED
      BY <1>d, <2>2, <3>1 DEF PassedAreTold, RestIsCurrent
  <2>7. CASE PublishChangedEvent(t)
    <3>1. pc'[t] = "lock" /\ changed' = batteryInfo'
      BY <1>a, <2>1, <2>3, <2>7 DEF PublishChangedEvent, Goto
    <3>. QED
      BY <1>d, <2>2, <3>1 DEF PassedAreTold, RestIsCurrent, Resting
  <2>8. CASE LockMutex(t)
    <3>1. pc'[t] = "low" /\ changed' = batteryInfo'
      BY <1>a, <1>b, <2>1, <2>8 DEF LockMutex, Goto, eventVars
    <3>. QED
      BY <1>d, <2>2, <3>1 DEF PassedAreTold, RestIsCurrent, Resting, Passed
  <2>9. ASSUME NEW e \in Event, PublishEdgeEvent(t, e)
        PROVE  PassedAreTold' /\ RestIsCurrent'
    <3>1. /\ pc[t] = e /\ e \in Section /\ pc'[t] = After[e] /\ changed' = changed
          /\ After[e] \in Section
      BY <1>a, <2>9 DEF PublishEdgeEvent, Goto, Section, Event, After
    <3>2. changed' = batteryInfo'
      BY <1>b, <2>1, <3>1
    <3>3. \A f \in Passed[After[e]] : Told(f)'
      BY <1>a, <2>9, PublisherTells
    <3>. QED
      BY <1>d, <2>2, <3>1, <3>2, <3>3 DEF PassedAreTold, RestIsCurrent, Resting
  <2>10. CASE PublishChargeTypeChangedEvent(t)
    <3>1. /\ pc[t] = "chargeType" /\ pc'[t] \in {"idle", "ready"}
          /\ announced' = batteryInfo'.chargeType
          /\ changed' = changed /\ said' = said
      BY <1>a, <2>1, <2>3, <2>10 DEF PublishChargeTypeChangedEvent, Goto, Return
    <3>2. changed = batteryInfo /\ \A f \in First : Told(f)
      BY <1>b, <3>1 DEF Section, Passed
    <3>3. \A e \in Event : e \in said <=> Holds(e, batteryInfo)
      BY <3>2, Pairs DEF Told
    <3>4. Current'
      BY <2>1, <3>1, <3>2, <3>3 DEF Current, Holds, Plugged, Charging
    <3>. QED
      BY <1>d, <2>2, <3>1, <3>4 DEF PassedAreTold, RestIsCurrent
  <2>. QED
    BY <1>7, <2>4, <2>5, <2>6, <2>7, <2>8, <2>9, <2>10, StepsOfPublishEvents
<1>8. CASE UNCHANGED vars
  BY <1>8, <1>s DEF vars, infoVars, eventVars
<1>. QED
  BY <1>1, <1>2, <1>3, <1>4, <1>5, <1>6, <1>7, <1>8 DEF Next

(***************************************************************************)
(* The inductive invariant holds in every behaviour.                       *)
(***************************************************************************)
THEOREM InductiveInvariant == Spec => []IInv
<1>1. Init => IInv
  <2> SUFFICES ASSUME Init PROVE IInv
    OBVIOUS
  <2>1. TypeOK
    BY TypeInit
  <2>2. HolderInSection
    BY DEF Init, HolderInSection, Section, Event
  <2>3. FlagsTellLast
    BY Pairs DEF Init, FlagsTellLast, FlagsOf, Settled, NotBoth, First,
                 Opposite
  <2>4. OneAtWork /\ CesIsKnown /\ PassedAreTold /\ RestIsCurrent
    BY SharedOrCes DEF Init, OneAtWork, CesIsKnown, PassedAreTold, RestIsCurrent, Busy,
       AtWork, Section, Event
  <2>. QED
    BY <2>1, <2>2, <2>3, <2>4 DEF IInv
<1>2. IInv /\ [Next]_vars => IInv'
  BY TypeNext, HolderNext, FlagsNext, WorkNext, KnownNext, ToldNext DEF IInv
<1>. QED
  BY <1>1, <1>2, PTL DEF Spec

(***************************************************************************)
(* A publisher that tells an event takes a step of EdgeEvents.             *)
(***************************************************************************)
LEMMA PublishedOnce ==
  ASSUME IInv, ~torn, NEW t \in Thread, NEW e \in Event,
         PublishEdgeEvent(t, e), said' # said
  PROVE  Promise!Publish(e)
<1>1. pc[t] = e /\ Holds(e, Argument(t)) /\ ~once[e] /\ Tell(e)
  BY DEF PublishEdgeEvent, Goto
<1>2. e \notin said
  BY <1>1, NotTold
<1>. QED
  BY <1>1, <1>2 DEF Promise!Publish, Tell

(***************************************************************************)
(* Publishing implements EdgeEvents: the initial states map to its initial *)
(* state, and each step that asks for an event is a step of EdgeEvents, as *)
(* long as batteryInfo_ was not torn.                                      *)
(***************************************************************************)
THEOREM PublishingKeepsPromise == Spec => KeepsPromise
<1>1. Init => Promise!Init
  BY DEF Init, Promise!Init
<1>2. ASSUME IInv, [Next]_vars
      PROVE  [Promise!Next]_said
  <2> SUFFICES ASSUME said' # said
               PROVE  \E e \in Event : Promise!Publish(e)
    BY DEF Promise!Next
  <2> USE DEF infoVars, startVars, eventVars
  <2>1. PICK t \in Thread, e \in Event : PublishEdgeEvent(t, e)
    BY <1>2, StepsOfPublishEvents
       DEF Next, HandleBatteryInfo, RegisterBatteryHdiCallback,
           InitBatteryInfo, SetHdiReady, CesStarts, OnAddTooEarly,
           OnAddSystemAbility, SetCommonEventReady,
           CesMissing, PublishOrdinary, HandleUevent, PublishChangedEvent,
           LockMutex, PublishChargeTypeChangedEvent, vars
  <2>2. ~torn
    BY <2>1 DEF PublishEdgeEvent
  <2>. QED
    BY <1>2, <2>1, <2>2, PublishedOnce
<1>. QED
  BY <1>1, <1>2, InductiveInvariant, PTL DEF Spec, KeepsPromise, Promise!Spec

(***************************************************************************)
(* In executions in which no two callers were at work at once, whoever     *)
(* came last, the CES or the HDI, the subscribers were told all about the  *)
(* current batteryInfo_ when nobody is at work.                            *)
(***************************************************************************)
THEOREM SubscribersKnow == Spec => []SubscribersAreCurrent
<1>1. IInv => SubscribersAreCurrent
  <2> SUFFICES ASSUME IInv, ~overlap, Quiet, added, hdiReady, uevent = "plain"
               PROVE  Current
    BY DEF SubscribersAreCurrent
  <2>1. Resting /\ pc[CesThread] = "idle"
    BY SharedOrCes DEF Quiet, Busy, Resting
  <2>2. cesInit
    BY <2>1 DEF IInv, CesIsKnown
  <2>. QED
    BY <2>1, <2>2 DEF IInv, RestIsCurrent
<1>. QED
  BY <1>1, InductiveInvariant, PTL
=============================================================================
