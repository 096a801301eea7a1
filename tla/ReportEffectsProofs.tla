------------------------ MODULE ReportEffectsProofs ------------------------
(***************************************************************************)
(* Theorems of ReportEffects, for every set of threads and reports, every  *)
(* light configuration, all thresholds and any time.                       *)
(***************************************************************************)
EXTENDS ReportEffects, TLAPS

(***************************************************************************)
(* The first range of a capacity is the only first one.                    *)
(***************************************************************************)
LEMMA OneFirstRange ==
  ASSUME NEW i, NEW j, NEW capacity,
         FirstRange(i, capacity), FirstRange(j, capacity)
  PROVE  i = j
<1>1. DOMAIN ParseLightConf = 1 .. Len(ParseLightConf)
      /\ Len(ParseLightConf) \in Nat
  BY LightAssumption
<1>. QED
  BY <1>1 DEF FirstRange

LEMMA ColourIsColour ==
  ASSUME NEW i \in DOMAIN ParseLightConf
  PROVE  Rgb(i) \in Colours /\ Rgb(i) # LIGHT_OFF
  BY LightAssumption DEF Colours

LEMMA InfoFields ==
  ASSUME NEW info \in Info
  PROVE  /\ info.capacity \in Int
         /\ info.plugged \in {"NONE", "AC", "USB", "WIRELESS", "BUTT"}
         /\ [ConstructedInfo EXCEPT !.plugged = info.plugged] \in Info
         /\ [ConstructedInfo EXCEPT !.plugged = info.plugged].plugged
              = info.plugged
  BY DEF Info, ConstructedInfo, INVALID_BATT_INT_VALUE

LEMMA Constructed ==
  /\ ConstructedInfo \in Info
  /\ ConstructedInfo.chargeState = "BUTT"
  BY DEF Info, ConstructedInfo, INVALID_BATT_INT_VALUE

LEMMA QuotientIsInt ==
  ASSUME NEW a \in Int, NEW b \in Int
  PROVE  Quotient(a, b) \in Int
<1>1. CASE b > 0
  BY <1>1 DEF Quotient
<1>2. CASE b < 0
  <2>1. -b \in Int /\ -b > 0
    BY <1>2
  <2>2. a \div (-b) \in Int
    BY <2>1
  <2>. QED
    BY <1>2, <2>2 DEF Quotient
<1>3. CASE b = 0
  BY <1>3 DEF Quotient
<1>. QED
  BY <1>1, <1>2, <1>3

LEMMA QuotientIsSmaller ==
  ASSUME NEW a \in Nat, NEW b \in Int, b >= 1
  PROVE  Quotient(a, b) \in Nat /\ Quotient(a, b) <= a
<1>1. a \div b \in Int /\ b * (a \div b) <= a /\ a < b * (a \div b) + b
  OBVIOUS
<1>2. a \div b >= 0
  BY <1>1
<1>3. a \div b <= b * (a \div b)
  BY <1>1, <1>2
<1>. QED
  BY <1>1, <1>2, <1>3 DEF Quotient

LEMMA ProductGrows ==
  ASSUME NEW x \in Nat, NEW y \in Nat, NEW a \in Nat, NEW b \in Nat,
         x <= y, a <= b
  PROVE  x * a \in Nat /\ y * b \in Nat /\ x * a <= y * b
<1>1. x * a \in Nat /\ x * a <= x * b
  OBVIOUS
<1>2. x * b <= y * b /\ y * b \in Nat
  OBVIOUS
<1>. QED
  BY <1>1, <1>2

-----------------------------------------------------------------------------
(***************************************************************************)
(* The levels of a capacity.                                               *)
(***************************************************************************)
LEMMA PassedLevels ==
  ASSUME NEW conf \in [1 .. 7 -> Int], NEW capacity \in Int, capacity >= 0,
         NEW n \in 0 .. 7, \A j \in 1 .. n : ~InLevel(conf, j, capacity)
  PROVE  \A j \in 1 .. n : conf[j] < capacity
<1>1. \A j \in 1 .. n :
        ~(/\ conf[j] # -1
          /\ (IF j = 1 THEN -1 ELSE conf[j - 1]) < capacity
          /\ capacity <= conf[j])
  BY DEF InLevel, CapacityLevelCompare, IsCapacityLevelDefined,
     INVALID_BATT_INT_VALUE
<1>2. 1 <= n => conf[1] < capacity
  BY <1>1
<1>3. 2 <= n => conf[2] < capacity
  BY <1>1, <1>2
<1>4. 3 <= n => conf[3] < capacity
  BY <1>1, <1>3
<1>5. 4 <= n => conf[4] < capacity
  BY <1>1, <1>4
<1>6. 5 <= n => conf[5] < capacity
  BY <1>1, <1>5
<1>7. 6 <= n => conf[6] < capacity
  BY <1>1, <1>6
<1>8. 7 <= n => conf[7] < capacity
  BY <1>1, <1>7
<1>. QED
  BY <1>2, <1>3, <1>4, <1>5, <1>6, <1>7, <1>8

LEMMA FirstLevel ==
  ASSUME NEW conf \in [1 .. 7 -> Int], NEW capacity \in Int, capacity >= 0,
         NEW level, level = GetCapacityLevelInner(conf, capacity)
  PROVE  /\ \A j \in 1 .. 7 :
              (j < level \/ level = 0) => conf[j] < capacity
         /\ level # 0 => capacity <= conf[level]
<1> DEFINE P(i) == InLevel(conf, i, capacity)
           First(i) == P(i) /\ \A j \in 1 .. i - 1 : ~P(j)
<1>1. CASE ~\E i \in 1 .. 7 : P(i)
  <2>1. level = 0
    BY <1>1 DEF GetCapacityLevelInner
  <2>2. \A j \in 1 .. 7 : conf[j] < capacity
    BY <1>1, PassedLevels
  <2>. QED
    BY <2>1, <2>2
<1>2. CASE \E i \in 1 .. 7 : P(i)
  <2>1. \E i \in 1 .. 7 : First(i)
    <3> HIDE DEF P
    <3>. QED
      BY <1>2
  <2>2. level = CHOOSE i \in 1 .. 7 : First(i)
    BY <1>2 DEF GetCapacityLevelInner
  <2>3. level \in 1 .. 7 /\ First(level)
    <3> HIDE DEF First
    <3>. QED
      BY <2>1, <2>2
  <2>4. level - 1 \in 0 .. 7
    BY <2>3
  <2>5. \A j \in 1 .. level - 1 : conf[j] < capacity
    BY <2>3, <2>4, PassedLevels
  <2>6. capacity <= conf[level]
    BY <2>3 DEF InLevel, CapacityLevelCompare
  <2>. QED
    BY <2>3, <2>5, <2>6
<1>. QED
  BY <1>1, <1>2

-----------------------------------------------------------------------------
(***************************************************************************)
(* A step of a thread that is in the handler.                              *)
(***************************************************************************)
Step(t) == ReturnIfSame(t) \/ HandleIfDifferent(t) \/ HandleBatteryInfo(t)

Environment == Tick \/ Restart \/ InitLight

LEMMA NextSteps ==
  Next <=> \/ Environment
           \/ \E t \in Thread : \E label \in {"compare", "light"} :
                Enter(t, label)
           \/ \E t \in Thread : Step(t)
  BY DEF Next, Step, Environment

(***************************************************************************)
(* What every step of a thread leaves alone, one group at a time.          *)
(***************************************************************************)
Moves(t) ==
  /\ Busy(t)
  /\ pc'[t] \in Label
  /\ pc' = [pc EXCEPT ![t] = pc'[t]]
  /\ local'[t] \in Info
  /\ local' = [local EXCEPT ![t] = local'[t]]
  /\ UNCHANGED <<batteryInfo, available, joined>>
  /\ unsettled' \subseteq unsettled
  /\ joined => unsettled' = unsettled

LEMMA LightMoves ==
  ASSUME TypeOK, NEW t \in Thread, Light(t)
  PROVE  Moves(t) /\ UNCHANGED <<lastBatteryInfo, plugVars, timeVars>>
<1>1. /\ pc \in [Thread -> Label] /\ local \in [Thread -> Info]
      /\ batteryInfo \in Info
  BY DEF TypeOK
<1>2. CASE UpdateColor(t)
  BY <1>1, <1>2 DEF UpdateColor, Goto, Call, Moves, Busy, Label, infoVars
<1>3. CASE TurnOff(t)
  BY <1>1, <1>3 DEF TurnOff, CallLight, Goto, Moves, Busy, Label, infoVars
<1>4. CASE TurnedOff(t)
  BY <1>1, <1>4, Constructed
  DEF TurnedOff, StoreColor, SettleLight, Settle, Goto, Return, Moves, Busy,
      Label, infoVars
<1>5. CASE TurnOn(t)
  BY <1>1, <1>5 DEF TurnOn, CallLight, Goto, Moves, Busy, Label, infoVars
<1>6. CASE TurnedOn(t)
  BY <1>1, <1>6, Constructed
  DEF TurnedOn, StoreColor, SettleLight, Settle, Goto, Return, Moves, Busy,
      Label, infoVars
<1>. QED
  BY <1>2, <1>3, <1>4, <1>5, <1>6 DEF Light

LEMMA PlugMoves ==
  ASSUME TypeOK, NEW t \in Thread, Plug(t)
  PROVE  Moves(t) /\ UNCHANGED <<lastBatteryInfo, lightVars, timeVars>>
<1>1. /\ pc \in [Thread -> Label] /\ local \in [Thread -> Info]
      /\ batteryInfo \in Info
  BY DEF TypeOK
<1>2. CASE WakeupDevice(t)
  BY <1>1, <1>2, InfoFields
  DEF WakeupDevice, Goto, Call, Moves, Busy, Label, infoVars, lightVars
<1>3. CASE RememberPlug(t)
  BY <1>1, <1>3, Constructed
  DEF RememberPlug, Goto, Return, Settle, Moves, Busy, Label, infoVars, lightVars
<1>. QED
  BY <1>2, <1>3 DEF Plug

LEMMA TimeMoves ==
  ASSUME TypeOK, NEW t \in Thread, Time(t)
  PROVE  Moves(t) /\ UNCHANGED <<lastBatteryInfo, lightVars, plugVars>>
<1>1. /\ pc \in [Thread -> Label] /\ local \in [Thread -> Info]
      /\ batteryInfo \in Info
  BY DEF TypeOK
<1>2. CASE RejectCapacity(t) \/ ForgetCharge(t) \/ ConsiderCharge(t)
  BY <1>1, <1>2
  DEF RejectCapacity, ForgetCharge, ConsiderCharge, Goto, Call, Settle, Moves,
      Busy, Label, infoVars, lightVars
<1>3. CASE BeginCharge(t) \/ FollowFall(t)
  BY <1>1, <1>3
  DEF BeginCharge, FollowFall, Goto, Moves, Busy, Label, infoVars, lightVars
<1>4. CASE TestRise(t) \/ Estimate(t)
  BY <1>1, <1>4, Constructed
  DEF TestRise, Estimate, Goto, Return, Settle, Moves, Busy, Label, infoVars,
      lightVars
<1>. QED
  BY <1>2, <1>3, <1>4 DEF Time

LEMMA OtherMoves ==
  ASSUME TypeOK, NEW t \in Thread,
         ReturnIfSame(t) \/ HandleIfDifferent(t) \/ Record(t)
  PROVE  /\ Moves(t)
         /\ UNCHANGED <<local, unsettled, lightVars, plugVars, timeVars>>
  BY DEF TypeOK, ReturnIfSame, HandleIfDifferent, Record, Goto, Moves, Busy,
     Label, infoVars, lightVars

LEMMA EveryStepMoves ==
  ASSUME TypeOK, NEW t \in Thread, Step(t)
  PROVE  Moves(t)
  BY LightMoves, PlugMoves, TimeMoves, OtherMoves DEF Step, HandleBatteryInfo

-----------------------------------------------------------------------------
(***************************************************************************)
(* Types.                                                                  *)
(***************************************************************************)
LEMMA BlackIsColour == LIGHT_OFF \in Colours
  BY DEF Colours

LEMMA ConstructedTypes ==
  /\ [t \in Thread |-> "idle"] \in [Thread -> Label]
  /\ [t \in Thread |-> ConstructedInfo] \in [Thread -> Info]
  /\ [t \in Thread |-> TRUE] \in [Thread -> BOOLEAN]
<1>1. [t \in Thread |-> "idle"] \in [Thread -> Label]
  BY DEF Label
<1>2. [t \in Thread |-> ConstructedInfo] \in [Thread -> Info]
  BY Constructed
<1>. QED
  BY <1>1, <1>2

LEMMA TypeInit == Init => TypeOK
<1> SUFFICES ASSUME Init PROVE TypeOK
  OBVIOUS
<1>1. available \in BOOLEAN /\ chargeFlag \in BOOLEAN /\ joined \in BOOLEAN
      /\ refused \in BOOLEAN
  BY DEF Init
<1>2. lastPluggedType \in {"NONE", "AC", "USB", "WIRELESS", "BUTT"}
  BY DEF Init
<1>3. lastAge \in Nat /\ chargeAge \in Nat /\ lastCapacity \in Int
      /\ remainTime \in Int
  BY DEF Init
<1>. QED
  BY <1>1, <1>2, <1>3, Constructed, ConstructedTypes, BlackIsColour
  DEF Init, TypeOK

LEMMA TypeLight ==
  ASSUME TypeOK, NEW t \in Thread, Light(t)
  PROVE  ok' \in [Thread -> BOOLEAN] /\ lightColor' \in Colours
         /\ shown' \in Colours /\ refused' \in BOOLEAN
<1>1. /\ ok \in [Thread -> BOOLEAN] /\ lightColor \in Colours
      /\ shown \in Colours /\ refused \in BOOLEAN
  BY DEF TypeOK
<1>2. LIGHT_OFF \in Colours
  BY BlackIsColour
<1>3. CASE UpdateColor(t)
  BY <1>1, <1>3 DEF UpdateColor
<1>4. CASE TurnOff(t)
  BY <1>1, <1>2, <1>4 DEF TurnOff, CallLight
<1>5. CASE TurnedOff(t)
  BY <1>1, <1>2, <1>5 DEF TurnedOff, StoreColor
<1>6. CASE TurnOn(t)
  BY <1>1, <1>6, ColourIsColour DEF TurnOn, CallLight
<1>7. CASE TurnedOn(t)
  BY <1>1, <1>7, ColourIsColour DEF TurnedOn, StoreColor
<1>. QED
  BY <1>3, <1>4, <1>5, <1>6, <1>7 DEF Light

LEMMA TypePlug ==
  ASSUME TypeOK, NEW t \in Thread, Plug(t)
  PROVE  /\ lastPluggedType' \in {"NONE", "AC", "USB", "WIRELESS", "BUTT"}
         /\ woken' \subseteq Thread
<1>1. local[t] \in Info
  BY DEF TypeOK
<1>. QED
  BY <1>1, InfoFields DEF TypeOK, Plug, WakeupDevice, RememberPlug

LEMMA TypeTime ==
  ASSUME TypeOK, NEW t \in Thread, Time(t)
  PROVE  /\ lastCapacity' \in Int /\ lastAge' \in Nat /\ chargeFlag' \in BOOLEAN
         /\ remainTime' \in Int /\ chargeAge' \in Nat
<1>1. /\ lastCapacity \in Int /\ lastAge \in Nat /\ chargeFlag \in BOOLEAN
      /\ remainTime \in Int /\ chargeAge \in Nat /\ local[t].capacity \in Int
  BY InfoFields DEF TypeOK
<1>2. CASE Estimate(t)
  <2> DEFINE risen == local[t].capacity - lastCapacity
  <2>0. risen \in Int
    BY <1>1
  <2>1. Quotient(lastAge, risen) \in Int
    <3>1. lastAge \in Int
      BY <1>1
    <3> HIDE DEF risen
    <3>. QED
      BY <2>0, <3>1, QuotientIsInt
  <2>2. \A x, y \in Int : x * y \in Int
    OBVIOUS
  <2>3. BATTERY_FULL_CAPACITY - local[t].capacity \in Int
    BY <1>1 DEF BATTERY_FULL_CAPACITY
  <2>4. remainTime' \in Int
    BY <1>2, <2>1, <2>2, <2>3 DEF Estimate
  <2>. QED
    BY <1>1, <1>2, <2>4 DEF Estimate
<1>3. CASE BeginCharge(t)
  <2>1. CASE chargeFlag
    BY <1>1, <1>3, <2>1 DEF BeginCharge, timeVars
  <2>2. CASE ~chargeFlag
    BY <1>1, <1>3, <2>2 DEF BeginCharge
  <2>. QED
    BY <2>1, <2>2
<1>4. CASE FollowFall(t)
  BY <1>1, <1>4 DEF FollowFall
<1>5. CASE ForgetCharge(t)
  <2>1. chargeFlag' \in BOOLEAN
    BY <1>5 DEF ForgetCharge
  <2>2. /\ remainTime' = 0 /\ chargeAge' = 0
        /\ lastCapacity' = lastCapacity /\ lastAge' = lastAge
    BY <1>5 DEF ForgetCharge
  <2>. QED
    BY <1>1, <2>1, <2>2
<1>6. CASE RejectCapacity(t) \/ ConsiderCharge(t) \/ TestRise(t)
  <2>1. UNCHANGED timeVars
    BY <1>6 DEF RejectCapacity, ConsiderCharge, TestRise
  <2>. QED
    BY <1>1, <2>1 DEF timeVars
<1>. QED
  BY <1>2, <1>3, <1>4, <1>5, <1>6 DEF Time

LEMMA TypeStep ==
  ASSUME TypeOK, NEW t \in Thread, Step(t)
  PROVE  TypeOK'
<1>1. Moves(t)
  BY EveryStepMoves
<1>2. /\ pc' \in [Thread -> Label] /\ local' \in [Thread -> Info]
      /\ batteryInfo' \in Info /\ available' \in BOOLEAN /\ joined' \in BOOLEAN
      /\ unsettled' \subseteq Parts
  BY <1>1 DEF Moves, TypeOK
<1>3. /\ ok' \in [Thread -> BOOLEAN] /\ lightColor' \in Colours
      /\ shown' \in Colours /\ refused' \in BOOLEAN
  BY TypeLight, PlugMoves, TimeMoves, OtherMoves
  DEF Step, HandleBatteryInfo, TypeOK, lightVars
<1>4. /\ lastPluggedType' \in {"NONE", "AC", "USB", "WIRELESS", "BUTT"}
      /\ woken' \subseteq Thread
  BY TypePlug, LightMoves, TimeMoves, OtherMoves
  DEF Step, HandleBatteryInfo, TypeOK, plugVars
<1>5. /\ lastCapacity' \in Int /\ lastAge' \in Nat /\ chargeFlag' \in BOOLEAN
      /\ remainTime' \in Int /\ chargeAge' \in Nat
  BY TypeTime, LightMoves, PlugMoves, OtherMoves
  DEF Step, HandleBatteryInfo, TypeOK, timeVars
<1>6. lastBatteryInfo' \in Info
  BY LightMoves, PlugMoves, TimeMoves
  DEF Step, HandleBatteryInfo, ReturnIfSame, HandleIfDifferent, Record, TypeOK,
      infoVars
<1>. QED
  BY <1>2, <1>3, <1>4, <1>5, <1>6 DEF TypeOK

LEMMA TypeEnter ==
  ASSUME TypeOK, NEW t \in Thread, NEW label \in {"compare", "light"},
         Enter(t, label)
  PROVE  TypeOK'
<1>1. /\ pc' \in [Thread -> Label] /\ local' \in [Thread -> Info]
      /\ batteryInfo' \in Info /\ lastBatteryInfo' \in Info
      /\ joined' \in BOOLEAN /\ unsettled' \subseteq Parts
  BY ReportsAssumption DEF Enter, Goto, TypeOK, Label, Quiet, Busy
<1>. QED
  BY <1>1 DEF Enter, TypeOK, lightVars, plugVars, timeVars

LEMMA TypeEnvironment ==
  ASSUME TypeOK, Environment
  PROVE  TypeOK'
<1>1. CASE Tick
  BY <1>1 DEF Tick, TypeOK, infoVars, lightVars, plugVars
<1>2. CASE Restart
  <2>1. available' \in BOOLEAN /\ chargeFlag' \in BOOLEAN
        /\ joined' \in BOOLEAN /\ refused' \in BOOLEAN
    BY <1>2 DEF Restart
  <2>2. lastPluggedType' \in {"NONE", "AC", "USB", "WIRELESS", "BUTT"}
    BY <1>2 DEF Restart
  <2>3. lastAge' \in Nat /\ chargeAge' \in Nat /\ lastCapacity' \in Int
        /\ remainTime' \in Int
    BY <1>2 DEF Restart
  <2>. QED
    BY <1>2, <2>1, <2>2, <2>3, Constructed, ConstructedTypes, BlackIsColour
    DEF Restart, TypeOK
<1>3. CASE InitLight
  BY <1>3 DEF InitLight, TypeOK, infoVars, plugVars, timeVars, Parts
<1>. QED
  BY <1>1, <1>2, <1>3 DEF Environment

LEMMA TypeNext == TypeOK /\ [Next]_vars => TypeOK'
<1>1. CASE UNCHANGED vars
  BY <1>1 DEF TypeOK, vars, infoVars, lightVars, plugVars, timeVars
<1>. QED
  BY <1>1, NextSteps, TypeStep, TypeEnter, TypeEnvironment

-----------------------------------------------------------------------------
(***************************************************************************)
(* Unless threads met, who is in the handler is alone there.               *)
(***************************************************************************)
LEMMA OthersAreIdle ==
  ASSUME TypeOK, AloneInv, NEW t \in Thread, Moves(t), ~joined
  PROVE  \A u \in Thread : u # t => pc[u] = "idle" /\ pc'[u] = "idle"
<1>1. \A u \in Thread : Busy(u) => u = t
  BY DEF AloneInv, Alone, Moves
<1>. QED
  BY <1>1 DEF TypeOK, Moves, Busy

LEMMA EnteringAlone ==
  ASSUME TypeOK, NEW t \in Thread, NEW label, Enter(t, label)
  PROVE  /\ pc[t] = "idle" /\ pc'[t] = label
         /\ joined' = ~Quiet
         /\ ~joined' => /\ \A u \in Thread : u # t => pc'[u] = "idle"
                        /\ unsettled' = unsettled
         /\ UNCHANGED <<lastBatteryInfo, lightVars, plugVars, timeVars>>
<1>1. pc[t] = "idle" /\ pc' = [pc EXCEPT ![t] = label]
      /\ pc \in [Thread -> Label]
  BY DEF Enter, Goto, TypeOK
<1>2. /\ joined' = ~Quiet
      /\ unsettled' = IF Quiet THEN unsettled ELSE Parts
      /\ UNCHANGED <<lastBatteryInfo, lightVars, plugVars, timeVars>>
  BY DEF Enter
<1>. QED
  BY <1>1, <1>2 DEF Quiet, Busy

LEMMA AloneInit == Init => AloneInv
  BY DEF Init, AloneInv, Alone, Busy, Quiet

LEMMA AloneEnter ==
  ASSUME TypeOK, AloneInv, NEW t \in Thread,
         NEW label \in {"compare", "light"}, Enter(t, label)
  PROVE  AloneInv'
<1>1. joined' => unsettled' = Parts
  BY DEF Enter
<1>2. ~joined' => \A u \in Thread : u # t => pc'[u] = "idle"
  BY EnteringAlone
<1>3. pc'[t] = label
  BY EnteringAlone
<1>. QED
  BY <1>1, <1>2, <1>3 DEF AloneInv, Alone, Busy

Telling == {"off", "offDone", "on", "onDone", "begin", "fall", "rise", "divide"}

LEMMA ToldStep ==
  ASSUME TypeOK, AloneInv, NEW t \in Thread, Step(t), ~joined
  PROVE  /\ pc'[t] \in Telling => local'[t] = batteryInfo
         /\ pc'[t] = "plug" => local'[t].plugged = batteryInfo.plugged
<1>1. /\ pc[t] \in Telling => local[t] = batteryInfo
      /\ pc[t] = "plug" => local[t].plugged = batteryInfo.plugged
  <2>1. pc[t] # "idle" => Alone(t)
    BY DEF Alone, Busy
  <2>. QED
    BY <2>1 DEF AloneInv, Telling
<1>2. /\ pc \in [Thread -> Label] /\ local \in [Thread -> Info]
      /\ batteryInfo \in Info
  BY DEF TypeOK
<1>3. CASE Light(t)
  BY <1>1, <1>2, <1>3
  DEF Light, UpdateColor, TurnOff, TurnedOff, TurnOn, TurnedOn, CallLight,
      Goto, Call, Telling
<1>4. CASE WakeupDevice(t)
  <2>1. pc'[t] = "plug"
    BY <1>2, <1>4 DEF WakeupDevice, Goto
  <2>2. local'[t] = [ConstructedInfo EXCEPT !.plugged = batteryInfo.plugged]
    BY <1>2, <1>4 DEF WakeupDevice, Call
  <2>. QED
    BY <1>2, <2>1, <2>2, InfoFields DEF Telling
<1>5. CASE RememberPlug(t)
  BY <1>2, <1>5 DEF RememberPlug, Goto, Telling
<1>6. CASE Time(t)
  BY <1>1, <1>2, <1>6
  DEF Time, RejectCapacity, ForgetCharge, ConsiderCharge, BeginCharge,
      FollowFall, TestRise, Estimate, Goto, Call, Telling
<1>7. CASE ReturnIfSame(t) \/ HandleIfDifferent(t) \/ Record(t)
  BY <1>2, <1>7 DEF ReturnIfSame, HandleIfDifferent, Record, Goto, Telling
<1>. QED
  BY <1>3, <1>4, <1>5, <1>6, <1>7 DEF Step, HandleBatteryInfo, Plug

LEMMA AloneStep ==
  ASSUME TypeOK, AloneInv, NEW t \in Thread, Step(t)
  PROVE  AloneInv'
<1>1. Moves(t)
  BY EveryStepMoves
<1>2. joined' => unsettled' = Parts
  BY <1>1 DEF Moves, AloneInv
<1>3. CASE joined
  BY <1>1, <1>2, <1>3 DEF Moves, AloneInv, Alone
<1>4. CASE ~joined
  <2>1. \A u \in Thread : u # t => pc'[u] = "idle"
    BY <1>1, <1>4, OthersAreIdle
  <2>2. /\ pc'[t] \in Telling => local'[t] = batteryInfo'
        /\ pc'[t] = "plug" => local'[t].plugged = batteryInfo'.plugged
    BY <1>1, <1>4, ToldStep DEF Moves
  <2>. QED
    BY <1>2, <2>1, <2>2 DEF AloneInv, Alone, Busy, Telling
<1>. QED
  BY <1>3, <1>4

LEMMA AloneEnvironment ==
  ASSUME AloneInv, Environment
  PROVE  AloneInv'
<1>1. CASE Restart
  BY <1>1 DEF Restart, AloneInv, Alone, Busy, Quiet
<1>2. CASE Tick \/ InitLight
  <2>1. /\ UNCHANGED <<batteryInfo, lastBatteryInfo, pc, local, joined>>
        /\ unsettled = Parts => unsettled' = Parts
    BY <1>2 DEF Tick, InitLight, infoVars, Parts
  <2>. QED
    BY <2>1 DEF AloneInv, Alone, Busy, Quiet
<1>. QED
  BY <1>1, <1>2 DEF Environment

LEMMA AloneNext == TypeOK /\ AloneInv /\ [Next]_vars => AloneInv'
<1>1. CASE UNCHANGED vars
  BY <1>1 DEF vars, infoVars, AloneInv, Alone, Busy, Quiet
<1>. QED
  BY <1>1, NextSteps, AloneStep, AloneEnter, AloneEnvironment

-----------------------------------------------------------------------------
(***************************************************************************)
(* The light.  LightInv says of the only thread in the handler:            *)
(***************************************************************************)
After == {"wake", "plug", "time", "begin", "fall", "rise", "divide", "record"}

ColorOf(t) ==
  "light" \notin unsettled /\ ~JustCalled(t) => lightColor \in {LIGHT_OFF, shown}

DoneOf(t) ==
  /\ pc[t] \in {"off", "offDone", "on", "onDone"} => available
  /\ pc[t] \in {"on", "onDone"} => LightsUp(local[t])
  /\ pc[t] = "offDone" /\ ok[t] => shown = LIGHT_OFF
  /\ pc[t] = "onDone" /\ ok[t] =>
       \E i \in DOMAIN ParseLightConf :
         FirstRange(i, local[t].capacity) /\ shown = Rgb(i)
  /\ pc[t] \in {"offDone", "onDone"} => refused = ~ok[t]

FollowedOf(t) ==
  "light" \notin unsettled /\ available /\ ~refused =>
    /\ pc[t] \in {"idle", "compare"} => Shows(shown, lastBatteryInfo)
    /\ pc[t] \in After => Shows(shown, batteryInfo)

LEMMA LightOfOne ==
  ASSUME LightInv, ~joined, NEW t \in Thread,
         \A u \in Thread : u # t => pc[u] = "idle"
  PROVE  ColorOf(t) /\ DoneOf(t) /\ FollowedOf(t)
<1>1. ColorOf(t)
  BY DEF LightInv, ColorIsShown, ColorOf, JustCalled
<1>2. DoneOf(t)
  BY DEF LightInv, CallsAreDone, DoneOf, Alone, Busy
<1>3. pc[t] = "idle" => Quiet
  BY DEF Quiet, Busy
<1>4. FollowedOf(t)
  BY <1>3 DEF LightInv, LightIsFollowed, FollowedOf, After
<1>. QED
  BY <1>1, <1>2, <1>4

LEMMA OneIsLight ==
  ASSUME NEW t \in Thread, \A u \in Thread : u # t => pc'[u] = "idle",
         ColorOf(t)', DoneOf(t)', FollowedOf(t)'
  PROVE  LightInv'
<1>1. ColorIsShown'
  BY DEF ColorIsShown, ColorOf
<1>2. CallsAreDone'
  BY DEF CallsAreDone, DoneOf, Alone, Busy
<1>3. Quiet' => pc'[t] = "idle"
  BY DEF Quiet, Busy
<1>4. LightIsFollowed'
  BY <1>3 DEF LightIsFollowed, FollowedOf, After
<1>. QED
  BY <1>1, <1>2, <1>4 DEF LightInv

(***************************************************************************)
(* UpdateColor: a light that is left alone shows the colour already.       *)
(***************************************************************************)
LEMMA LightStepUpdate ==
  ASSUME TypeOK, NEW t \in Thread, ~joined,
         ColorOf(t), DoneOf(t), FollowedOf(t), UpdateColor(t)
  PROVE  ColorOf(t)' /\ DoneOf(t)' /\ FollowedOf(t)'
<1>1. /\ pc \in [Thread -> Label] /\ pc[t] = "light"
      /\ UNCHANGED <<batteryInfo, lastBatteryInfo, ok, available, lightColor,
                     shown, unsettled>>
  BY DEF TypeOK, UpdateColor, Goto, infoVars
<1>2. /\ pc'[t] \in {"off", "wake"}
      /\ pc'[t] = "off" <=> available /\ MustChange(batteryInfo)
  BY <1>1 DEF UpdateColor, Goto
<1>3. ColorOf(t)'
  BY <1>1, <1>2 DEF ColorOf, JustCalled
<1>4. DoneOf(t)'
  BY <1>1, <1>2 DEF DoneOf
<1>5. FollowedOf(t)'
  <2> SUFFICES ASSUME "light" \notin unsettled, available, pc'[t] = "wake"
               PROVE  Shows(shown, batteryInfo)'
    BY <1>1, <1>2 DEF FollowedOf, After
  <2>1. lightColor \in {LIGHT_OFF, shown}
    BY <1>1 DEF ColorOf, JustCalled
  <2>2. LightsUp(batteryInfo)
        /\ \A i \in DOMAIN ParseLightConf :
             FirstRange(i, batteryInfo.capacity) => lightColor = Rgb(i)
    BY <1>2 DEF MustChange
  <2>3. Shows(shown, batteryInfo)
    BY <2>1, <2>2, ColourIsColour DEF Shows
  <2>. QED
    BY <1>1, <2>3
<1>. QED
  BY <1>3, <1>4, <1>5

(***************************************************************************)
(* The calls, and what is stored after them.                               *)
(***************************************************************************)
LEMMA LightStepCall ==
  ASSUME TypeOK, NEW t \in Thread, ~joined,
         ColorOf(t), DoneOf(t), FollowedOf(t), TurnOff(t) \/ TurnOn(t)
  PROVE  ColorOf(t)' /\ DoneOf(t)' /\ FollowedOf(t)'
<1>1. pc \in [Thread -> Label] /\ ok \in [Thread -> BOOLEAN]
  BY DEF TypeOK
<1>2. PICK success \in BOOLEAN :
        /\ ok' = [ok EXCEPT ![t] = success]
        /\ refused' = ~success
        /\ ~success => shown' = shown
        /\ UNCHANGED <<local, available, lightColor, unsettled>>
        /\ \/ /\ pc[t] = "off" /\ pc'[t] = "offDone"
              /\ success => shown' = LIGHT_OFF
           \/ /\ pc[t] = "on" /\ pc'[t] = "onDone"
              /\ success => \E i \in DOMAIN ParseLightConf :
                              FirstRange(i, local[t].capacity) /\ shown' = Rgb(i)
  <2>1. CASE TurnOff(t)
    BY <1>1, <2>1 DEF TurnOff, CallLight, Goto
  <2>2. CASE TurnOn(t)
    BY <1>1, <2>2 DEF TurnOn, CallLight, Goto
  <2>. QED
    BY <2>1, <2>2
<1>3. ok'[t] = success
  BY <1>1, <1>2
<1>4. ColorOf(t)'
  <2> SUFFICES ASSUME "light" \notin unsettled, ~success
               PROVE  lightColor' \in {LIGHT_OFF, shown'}
    BY <1>2, <1>3 DEF ColorOf, JustCalled
  <2>. QED
    BY <1>2 DEF ColorOf, JustCalled
<1>5. DoneOf(t)'
  BY <1>2, <1>3 DEF DoneOf
<1>6. FollowedOf(t)'
  BY <1>2 DEF FollowedOf, After
<1>. QED
  BY <1>4, <1>5, <1>6

LEMMA LightStepTurnedOff ==
  ASSUME TypeOK, NEW t \in Thread, ~joined,
         ColorOf(t), DoneOf(t), FollowedOf(t), TurnedOff(t),
         local[t] = batteryInfo
  PROVE  ColorOf(t)' /\ DoneOf(t)' /\ FollowedOf(t)'
<1>1. /\ pc \in [Thread -> Label] /\ pc[t] = "offDone"
      /\ UNCHANGED <<batteryInfo, available, shown, refused>>
      /\ lightColor' = IF ok[t] THEN LIGHT_OFF ELSE lightColor
      /\ ok[t] => shown = LIGHT_OFF
      /\ refused = ~ok[t]
  BY DEF TypeOK, TurnedOff, Goto, StoreColor, infoVars, DoneOf
<1>2. /\ pc'[t] = IF LightsUp(local[t]) THEN "on" ELSE "wake"
      /\ LightsUp(local[t]) => UNCHANGED <<local, unsettled>>
      /\ ~ok[t] => unsettled' = unsettled
  BY <1>1 DEF TurnedOff, Goto, SettleLight
<1>3. ColorOf(t)'
  BY <1>1, <1>2 DEF ColorOf, JustCalled
<1>4. DoneOf(t)'
  BY <1>1, <1>2 DEF DoneOf
<1>5. FollowedOf(t)'
  <2> SUFFICES ASSUME ~refused, pc'[t] = "wake"
               PROVE  Shows(shown, batteryInfo)'
    BY <1>1, <1>2 DEF FollowedOf, After
  <2>1. shown = LIGHT_OFF /\ ~LightsUp(batteryInfo)
    BY <1>1, <1>2
  <2>2. Shows(shown, batteryInfo)
    BY <2>1 DEF Shows
  <2>. QED
    BY <1>1, <2>2
<1>. QED
  BY <1>3, <1>4, <1>5

LEMMA LightStepTurnedOn ==
  ASSUME TypeOK, NEW t \in Thread, ~joined,
         ColorOf(t), DoneOf(t), FollowedOf(t), TurnedOn(t),
         local[t] = batteryInfo
  PROVE  ColorOf(t)' /\ DoneOf(t)' /\ FollowedOf(t)'
<1>1. PICK i \in DOMAIN ParseLightConf :
        /\ FirstRange(i, local[t].capacity)
        /\ Goto(t, "onDone", "wake")
        /\ StoreColor(t, Rgb(i))
        /\ SettleLight(t)
  BY DEF TurnedOn
<1>2. /\ pc[t] = "onDone" /\ pc'[t] = "wake"
      /\ UNCHANGED <<batteryInfo, available, shown, refused>>
      /\ lightColor' = IF ok[t] THEN Rgb(i) ELSE lightColor
      /\ ~ok[t] => unsettled' = unsettled
  BY <1>1 DEF TypeOK, Goto, StoreColor, SettleLight, infoVars
<1>3. /\ LightsUp(local[t]) /\ refused = ~ok[t]
      /\ ok[t] => shown = Rgb(i)
  BY <1>1, <1>2, OneFirstRange DEF DoneOf
<1>4. ColorOf(t)'
  BY <1>2, <1>3 DEF ColorOf, JustCalled
<1>5. DoneOf(t)'
  BY <1>2 DEF DoneOf
<1>6. FollowedOf(t)'
  <2> SUFFICES ASSUME ~refused
               PROVE  Shows(shown, batteryInfo)'
    BY <1>2 DEF FollowedOf, After
  <2>1. Shows(shown, batteryInfo)
    BY <1>1, <1>3, OneFirstRange DEF Shows
  <2>. QED
    BY <1>2, <2>1
<1>. QED
  BY <1>4, <1>5, <1>6

(***************************************************************************)
(* The rest of the handler leaves the light alone.                         *)
(***************************************************************************)
LEMMA LightStepOther ==
  ASSUME TypeOK, NEW t \in Thread, ~joined, Moves(t),
         ColorOf(t), DoneOf(t), FollowedOf(t),
         Plug(t) \/ Time(t) \/ Record(t) \/ ReturnIfSame(t) \/ HandleIfDifferent(t)
  PROVE  ColorOf(t)' /\ DoneOf(t)' /\ FollowedOf(t)'
<1>1. /\ UNCHANGED <<batteryInfo, ok, available, lightColor, shown, refused>>
      /\ "light" \notin unsettled' => "light" \notin unsettled
      /\ pc \in [Thread -> Label]
  <2>1. UNCHANGED lightVars
    BY PlugMoves, TimeMoves, OtherMoves
  <2>2. "light" \notin unsettled' => "light" \notin unsettled
    <3>1. CASE Plug(t)
      BY <3>1 DEF Plug, WakeupDevice, RememberPlug, Settle
    <3>2. CASE Time(t)
      BY <3>2 DEF Time, RejectCapacity, ForgetCharge, ConsiderCharge,
         BeginCharge, FollowFall, TestRise, Estimate, Settle
    <3>3. CASE Record(t) \/ ReturnIfSame(t) \/ HandleIfDifferent(t)
      BY <3>3 DEF Record, ReturnIfSame, HandleIfDifferent
    <3>. QED
      BY <3>1, <3>2, <3>3
  <2>. QED
    BY <2>1, <2>2 DEF Moves, lightVars, TypeOK
<1>2. \/ pc[t] \in After /\ pc'[t] \in After /\ lastBatteryInfo' = lastBatteryInfo
      \/ pc[t] \in After /\ pc'[t] = "idle" /\ lastBatteryInfo' = batteryInfo
      \/ pc[t] = "compare" /\ pc'[t] \in {"idle", "light"}
         /\ lastBatteryInfo' = lastBatteryInfo
  <2>1. CASE Plug(t)
    BY <1>1, <2>1 DEF Plug, WakeupDevice, RememberPlug, Goto, After, infoVars
  <2>2. CASE Time(t)
    BY <1>1, <2>2 DEF Time, RejectCapacity, ForgetCharge, ConsiderCharge,
       BeginCharge, FollowFall, TestRise, Estimate, Goto, After, infoVars
  <2>3. CASE Record(t) \/ ReturnIfSame(t) \/ HandleIfDifferent(t)
    BY <1>1, <2>3 DEF Record, ReturnIfSame, HandleIfDifferent, Goto, After,
       infoVars
  <2>. QED
    BY <2>1, <2>2, <2>3
<1>3. ColorOf(t)'
  BY <1>1, <1>2 DEF ColorOf, JustCalled, After
<1>4. DoneOf(t)'
  BY <1>1, <1>2 DEF DoneOf, After
<1>5. FollowedOf(t)'
  <2> SUFFICES ASSUME "light" \notin unsettled', available, ~refused
               PROVE  /\ pc'[t] \in {"idle", "compare"}
                           => Shows(shown, lastBatteryInfo)'
                      /\ pc'[t] \in After => Shows(shown, batteryInfo)'
    BY <1>1 DEF FollowedOf
  <2>1. /\ pc[t] \in {"idle", "compare"}
             => Shows(shown, lastBatteryInfo)
        /\ pc[t] \in After => Shows(shown, batteryInfo)
    BY <1>1 DEF FollowedOf
  <2>2. CASE pc[t] \in After
    BY <1>1, <1>2, <2>1, <2>2 DEF Shows, After
  <2>3. CASE pc[t] = "compare"
    BY <1>1, <1>2, <2>1, <2>3 DEF Shows, After
  <2>. QED
    BY <1>2, <2>2, <2>3
<1>. QED
  BY <1>3, <1>4, <1>5

LEMMA LightStep ==
  ASSUME TypeOK, AloneInv, LightInv, NEW t \in Thread, Step(t)
  PROVE  LightInv'
<1>1. Moves(t)
  BY EveryStepMoves
<1>2. CASE joined
  BY <1>1, <1>2
  DEF Moves, AloneInv, LightInv, ColorIsShown, CallsAreDone, LightIsFollowed,
      Alone, Parts
<1>3. CASE ~joined
  <2>1. \A u \in Thread : u # t => pc[u] = "idle" /\ pc'[u] = "idle"
    BY <1>1, <1>3, OthersAreIdle
  <2>2. ColorOf(t) /\ DoneOf(t) /\ FollowedOf(t)
    BY <1>3, <2>1, LightOfOne
  <2>3. pc[t] \in {"offDone", "onDone"} => local[t] = batteryInfo
    BY <1>3 DEF AloneInv, Alone, Busy
  <2>4. CASE UpdateColor(t) \/ TurnOff(t) \/ TurnOn(t)
    BY <1>3, <2>2, <2>4, LightStepUpdate, LightStepCall, <2>1, OneIsLight
  <2>5. CASE TurnedOff(t)
    <3>1. local[t] = batteryInfo
      BY <2>3, <2>5 DEF TurnedOff, Goto
    <3>. QED
      BY <1>3, <2>1, <2>2, <2>5, <3>1, LightStepTurnedOff, OneIsLight
  <2>6. CASE TurnedOn(t)
    <3>1. local[t] = batteryInfo
      BY <2>3, <2>6 DEF TurnedOn, Goto
    <3>. QED
      BY <1>3, <2>1, <2>2, <2>6, <3>1, LightStepTurnedOn, OneIsLight
  <2>7. CASE Plug(t) \/ Time(t) \/ Record(t) \/ ReturnIfSame(t)
             \/ HandleIfDifferent(t)
    BY <1>1, <1>3, <2>1, <2>2, <2>7, LightStepOther, OneIsLight
  <2>. QED
    BY <2>4, <2>5, <2>6, <2>7 DEF Step, HandleBatteryInfo, Light
<1>. QED
  BY <1>2, <1>3

LEMMA LightInit == Init => LightInv
  BY DEF Init, LightInv, ColorIsShown, CallsAreDone, LightIsFollowed, Alone,
     Busy, Quiet

LEMMA LightEnter ==
  ASSUME TypeOK, AloneInv, LightInv, NEW t \in Thread,
         NEW label \in {"compare", "light"}, Enter(t, label)
  PROVE  LightInv'
<1>1. CASE joined'
  <2>1. unsettled' = Parts
    BY <1>1 DEF Enter
  <2>. QED
    BY <1>1, <2>1 DEF LightInv, ColorIsShown, CallsAreDone, LightIsFollowed,
       Alone, Parts
<1>2. CASE ~joined'
  <2>1. /\ \A u \in Thread : u # t => pc'[u] = "idle"
        /\ pc'[t] = label /\ Quiet
        /\ UNCHANGED <<lastBatteryInfo, unsettled, ok, available, lightColor,
                       shown, refused>>
    BY <1>2, EnteringAlone DEF lightVars
  <2>2. ColorOf(t)'
    BY <2>1 DEF LightInv, ColorIsShown, ColorOf, JustCalled, Quiet, Busy
  <2>3. DoneOf(t)'
    BY <2>1 DEF DoneOf
  <2>4. "light" \notin unsettled /\ available /\ ~refused
          => Shows(shown, lastBatteryInfo)
    BY <2>1 DEF LightInv, LightIsFollowed
  <2>5. FollowedOf(t)'
    BY <2>1, <2>4 DEF FollowedOf, After, Shows
  <2>. QED
    BY <2>1, <2>2, <2>3, <2>5, OneIsLight
<1>. QED
  BY <1>1, <1>2

LEMMA LightEnvironment ==
  ASSUME LightInv, Environment
  PROVE  LightInv'
<1>1. CASE Restart
  BY <1>1 DEF Restart, LightInv, ColorIsShown, CallsAreDone, LightIsFollowed,
     Alone, Busy, Quiet
<1>2. CASE Tick
  BY <1>2 DEF Tick, infoVars, lightVars, LightInv, ColorIsShown, CallsAreDone,
     LightIsFollowed, JustCalled, Alone, Busy, Quiet
<1>3. CASE InitLight
  BY <1>3 DEF InitLight, infoVars, LightInv, ColorIsShown, CallsAreDone,
     LightIsFollowed, Alone, Busy
<1>. QED
  BY <1>1, <1>2, <1>3 DEF Environment

LEMMA LightNext ==
  TypeOK /\ AloneInv /\ LightInv /\ [Next]_vars => LightInv'
<1>1. CASE UNCHANGED vars
  BY <1>1 DEF vars, infoVars, lightVars, LightInv, ColorIsShown, CallsAreDone,
     LightIsFollowed, JustCalled, Alone, Busy, Quiet
<1>. QED
  BY <1>1, NextSteps, LightStep, LightEnter, LightEnvironment

-----------------------------------------------------------------------------
(***************************************************************************)
(* The charger that comes and goes.                                        *)
(***************************************************************************)
PlugInv == WakesOnPlugChange /\ PlugIsRemembered

Before ==
  {"idle", "compare", "light", "off", "offDone", "on", "onDone", "wake", "plug"}

Later == {"time", "begin", "fall", "rise", "divide", "record"}

WokenAtPlug == \A u \in Thread : pc[u] # "plug" => u \notin woken

PlugOf(t) ==
  "plug" \notin unsettled =>
    /\ pc[t] = "plug" =>
         (t \in woken <=> IsNowPlugged(batteryInfo.plugged)
                            # IsNowPlugged(lastBatteryInfo.plugged))
    /\ pc[t] \in Before =>
         IsNowPlugged(lastPluggedType) = IsNowPlugged(lastBatteryInfo.plugged)
    /\ pc[t] \in Later =>
         IsNowPlugged(lastPluggedType) = IsNowPlugged(batteryInfo.plugged)

LEMMA PlugOfOne ==
  ASSUME PlugInv, NEW t \in Thread,
         \A u \in Thread : u # t => pc[u] = "idle"
  PROVE  PlugOf(t)
<1>1. pc[t] = "idle" => Quiet
  BY DEF Quiet, Busy
<1>. QED
  BY <1>1 DEF PlugInv, WakesOnPlugChange, PlugIsRemembered, PlugOf, Before, Later

LEMMA OneIsPlug ==
  ASSUME NEW t \in Thread, \A u \in Thread : u # t => pc'[u] = "idle",
         PlugOf(t)', WokenAtPlug'
  PROVE  PlugInv'
<1>1. Quiet' => pc'[t] = "idle"
  BY DEF Quiet, Busy
<1>2. WakesOnPlugChange'
  BY DEF WakesOnPlugChange, PlugOf
<1>3. PlugIsRemembered'
  BY <1>1 DEF PlugIsRemembered, PlugOf, WokenAtPlug, Before, Later
<1>. QED
  BY <1>2, <1>3 DEF PlugInv

LEMMA WokenStep ==
  ASSUME TypeOK, WokenAtPlug, NEW t \in Thread, Step(t)
  PROVE  WokenAtPlug'
<1>1. pc \in [Thread -> Label] /\ pc' = [pc EXCEPT ![t] = pc'[t]]
  BY EveryStepMoves DEF Moves, TypeOK
<1>2. CASE WakeupDevice(t)
  BY <1>1, <1>2 DEF WakeupDevice, Goto, WokenAtPlug
<1>3. CASE RememberPlug(t)
  BY <1>1, <1>3 DEF RememberPlug, Goto, WokenAtPlug
<1>4. CASE Light(t) \/ Time(t) \/ ReturnIfSame(t) \/ HandleIfDifferent(t)
           \/ Record(t)
  <2>1. woken' = woken
    BY <1>4, LightMoves, TimeMoves, OtherMoves DEF plugVars
  <2>2. pc[t] # "plug"
    BY <1>4
    DEF Light, UpdateColor, TurnOff, TurnedOff, TurnOn, TurnedOn, CallLight,
        Time, RejectCapacity, ForgetCharge, ConsiderCharge, BeginCharge,
        FollowFall, TestRise, Estimate, ReturnIfSame, HandleIfDifferent,
        Record, Goto
  <2>. QED
    BY <1>1, <2>1, <2>2 DEF WokenAtPlug
<1>. QED
  BY <1>2, <1>3, <1>4 DEF Step, HandleBatteryInfo, Plug

LEMMA PlugStepOne ==
  ASSUME TypeOK, NEW t \in Thread, Moves(t), ~joined, WokenAtPlug, PlugOf(t),
         pc[t] = "plug" => local[t].plugged = batteryInfo.plugged, Step(t)
  PROVE  PlugOf(t)'
<1>1. pc \in [Thread -> Label] /\ UNCHANGED batteryInfo
  BY DEF TypeOK, Moves
<1>2. CASE WakeupDevice(t)
  <2>1. /\ pc[t] = "wake" /\ pc'[t] = "plug" /\ t \notin woken
        /\ UNCHANGED <<lastBatteryInfo, lastPluggedType, unsettled>>
        /\ t \in woken' <=> IsNowPlugged(lastPluggedType)
                              # IsNowPlugged(batteryInfo.plugged)
    BY <1>1, <1>2 DEF WakeupDevice, Goto, WokenAtPlug, infoVars
  <2>. QED
    BY <1>1, <2>1 DEF PlugOf, Before, Later
<1>3. CASE RememberPlug(t)
  <2>1. /\ pc[t] = "plug" /\ pc'[t] = "time"
        /\ lastPluggedType' = batteryInfo.plugged
    BY <1>1, <1>3 DEF RememberPlug, Goto
  <2>. QED
    BY <1>1, <2>1 DEF PlugOf, Before, Later
<1>4. CASE Light(t) \/ Time(t) \/ ReturnIfSame(t) \/ HandleIfDifferent(t)
           \/ Record(t)
  <2>1. UNCHANGED <<lastPluggedType, woken>>
    BY <1>4, LightMoves, TimeMoves, OtherMoves DEF plugVars
  <2>2. "plug" \notin unsettled' => "plug" \notin unsettled
    <3>1. CASE Light(t)
      BY <3>1
      DEF Light, UpdateColor, TurnOff, TurnedOff, TurnOn, TurnedOn, CallLight,
          SettleLight, Settle
    <3>2. CASE Time(t)
      BY <3>2 DEF Time, RejectCapacity, ForgetCharge, ConsiderCharge,
         BeginCharge, FollowFall, TestRise, Estimate, Settle
    <3>. QED
      BY <1>4, <3>1, <3>2, OtherMoves
  <2>3. /\ pc[t] # "plug" /\ pc'[t] # "plug"
        /\ \/ pc[t] \in Before /\ pc'[t] \in Before
              /\ lastBatteryInfo' = lastBatteryInfo
           \/ pc[t] \in Later /\ pc'[t] \in Later
              /\ lastBatteryInfo' = lastBatteryInfo
           \/ pc[t] \in Later /\ pc'[t] = "idle"
              /\ lastBatteryInfo' = batteryInfo
    <3>1. CASE Light(t)
      BY <1>1, <3>1, LightMoves
      DEF Light, UpdateColor, TurnOff, TurnedOff, TurnOn, TurnedOn, CallLight,
          Goto, Before
    <3>2. CASE Time(t)
      BY <1>1, <3>2, TimeMoves DEF Time, RejectCapacity, ForgetCharge,
         ConsiderCharge, BeginCharge, FollowFall, TestRise, Estimate, Goto,
         Later
    <3>3. CASE Record(t) \/ ReturnIfSame(t) \/ HandleIfDifferent(t)
      BY <1>1, <3>3 DEF Record, ReturnIfSame, HandleIfDifferent, Goto, Before,
         Later, infoVars
    <3>. QED
      BY <1>4, <3>1, <3>2, <3>3
  <2>4. "idle" \in Before /\ "idle" \notin Later /\ Before \cap Later = {}
    BY DEF Before, Later
  <2>5. CASE "plug" \in unsettled'
    BY <2>5 DEF PlugOf
  <2>6. CASE "plug" \notin unsettled'
    BY <1>1, <2>1, <2>2, <2>3, <2>4, <2>6 DEF PlugOf
  <2>. QED
    BY <2>5, <2>6
<1>. QED
  BY <1>2, <1>3, <1>4 DEF Step, HandleBatteryInfo, Plug

LEMMA PlugStep ==
  ASSUME TypeOK, AloneInv, PlugInv, NEW t \in Thread, Step(t)
  PROVE  PlugInv'
<1>1. Moves(t)
  BY EveryStepMoves
<1>2. WokenAtPlug /\ WokenAtPlug'
  BY WokenStep DEF PlugInv, PlugIsRemembered, WokenAtPlug
<1>3. CASE joined
  BY <1>1, <1>2, <1>3
  DEF Moves, AloneInv, PlugInv, WakesOnPlugChange, PlugIsRemembered,
      WokenAtPlug, Parts
<1>4. CASE ~joined
  <2>1. \A u \in Thread : u # t => pc[u] = "idle" /\ pc'[u] = "idle"
    BY <1>1, <1>4, OthersAreIdle
  <2>2. pc[t] = "plug" => local[t].plugged = batteryInfo.plugged
    BY <1>4 DEF AloneInv, Alone, Busy
  <2>. QED
    BY <1>1, <1>2, <1>4, <2>1, <2>2, PlugOfOne, PlugStepOne, OneIsPlug
<1>. QED
  BY <1>3, <1>4

LEMMA PlugInit == Init => PlugInv
  BY DEF Init, PlugInv, WakesOnPlugChange, PlugIsRemembered, IsNowPlugged,
     ConstructedInfo

LEMMA PlugEnter ==
  ASSUME TypeOK, PlugInv, NEW t \in Thread,
         NEW label \in {"compare", "light"}, Enter(t, label)
  PROVE  PlugInv'
<1>1. /\ pc[t] = "idle" /\ pc'[t] = label
      /\ pc \in [Thread -> Label] /\ pc' = [pc EXCEPT ![t] = label]
      /\ UNCHANGED <<lastBatteryInfo, lastPluggedType, woken>>
  BY DEF TypeOK, Enter, Goto, plugVars
<1>2. WokenAtPlug'
  BY <1>1 DEF PlugInv, PlugIsRemembered, WokenAtPlug
<1>3. CASE joined'
  <2>1. unsettled' = Parts
    BY <1>3 DEF Enter
  <2>. QED
    BY <1>2, <2>1 DEF PlugInv, WakesOnPlugChange, PlugIsRemembered,
       WokenAtPlug, Parts
<1>4. CASE ~joined'
  <2>1. /\ \A u \in Thread : u # t => pc'[u] = "idle"
        /\ Quiet /\ UNCHANGED unsettled
    BY <1>4, EnteringAlone
  <2>2. "plug" \notin unsettled =>
          IsNowPlugged(lastPluggedType) = IsNowPlugged(lastBatteryInfo.plugged)
    BY <2>1 DEF PlugInv, PlugIsRemembered
  <2>3. PlugOf(t)'
    BY <1>1, <2>1, <2>2 DEF PlugOf, Before, Later
  <2>. QED
    BY <1>2, <2>1, <2>3, OneIsPlug
<1>. QED
  BY <1>3, <1>4

LEMMA PlugEnvironment ==
  ASSUME PlugInv, Environment
  PROVE  PlugInv'
<1>1. CASE Restart
  BY <1>1 DEF Restart, PlugInv, WakesOnPlugChange, PlugIsRemembered,
     IsNowPlugged, ConstructedInfo
<1>2. CASE Tick \/ InitLight
  <2>1. /\ UNCHANGED <<infoVars, pc, plugVars>>
        /\ "plug" \notin unsettled' => "plug" \notin unsettled
    BY <1>2 DEF Tick, InitLight
  <2>. QED
    BY <2>1 DEF infoVars, plugVars, PlugInv, WakesOnPlugChange,
       PlugIsRemembered, Quiet, Busy
<1>. QED
  BY <1>1, <1>2 DEF Environment

LEMMA PlugNext ==
  TypeOK /\ AloneInv /\ PlugInv /\ [Next]_vars => PlugInv'
<1>1. CASE UNCHANGED vars
  BY <1>1 DEF vars, infoVars, plugVars, PlugInv, WakesOnPlugChange,
     PlugIsRemembered, Quiet, Busy
<1>. QED
  BY <1>1, NextSteps, PlugStep, PlugEnter, PlugEnvironment

-----------------------------------------------------------------------------
(***************************************************************************)
(* The estimate.                                                           *)
(***************************************************************************)
Counting == {"begin", "fall", "rise", "divide"}

ChargeOf(t) ==
  /\ pc[t] \in Counting => IsCharging(batteryInfo)
  /\ pc[t] \in {"fall", "rise", "divide"} => chargeFlag
  /\ pc[t] = "divide" => local[t].capacity - lastCapacity >= 1

FlagOf(t) ==
  "time" \notin unsettled =>
    /\ (/\ pc[t] \in {"idle", "compare"}
        /\ lastBatteryInfo.capacity <= BATTERY_FULL_CAPACITY)
         => chargeFlag = IsCharging(lastBatteryInfo)
    /\ (pc[t] = "record" /\ batteryInfo.capacity <= BATTERY_FULL_CAPACITY)
         => chargeFlag = IsCharging(batteryInfo)

LEMMA TimeOfOne ==
  ASSUME TimeInv, ~joined, NEW t \in Thread,
         \A u \in Thread : u # t => pc[u] = "idle"
  PROVE  ChargeOf(t) /\ FlagOf(t)
<1>1. pc[t] = "idle" => Quiet
  BY DEF Quiet, Busy
<1>2. ChargeOf(t)
  BY DEF TimeInv, ChargeIsFollowed, ChargeOf, Counting, Alone, Busy
<1>3. FlagOf(t)
  BY <1>1 DEF TimeInv, FlagIsCurrent, FlagOf
<1>. QED
  BY <1>2, <1>3

LEMMA OneIsTime ==
  ASSUME NEW t \in Thread, \A u \in Thread : u # t => pc'[u] = "idle",
         CapacityIsPercent', EstimateIsBounded', ChargeOf(t)', FlagOf(t)'
  PROVE  TimeInv'
<1>1. Quiet' => pc'[t] = "idle"
  BY DEF Quiet, Busy
<1>2. ChargeIsFollowed'
  BY DEF ChargeIsFollowed, ChargeOf, Counting, Alone, Busy
<1>3. FlagIsCurrent'
  BY <1>1 DEF FlagIsCurrent, FlagOf
<1>. QED
  BY <1>2, <1>3 DEF TimeInv

(***************************************************************************)
(* What the arithmetic needs.                                              *)
(***************************************************************************)
LEMMA TimeTypes ==
  ASSUME TypeOK, NEW t \in Thread
  PROVE  /\ pc \in [Thread -> Label] /\ local \in [Thread -> Info]
         /\ local[t].capacity \in Int /\ batteryInfo.capacity \in Int
         /\ lastCapacity \in Int /\ lastAge \in Nat
         /\ remainTime \in Int /\ chargeAge \in Nat
  BY InfoFields DEF TypeOK

LEMMA PercentStep ==
  ASSUME TypeOK, CapacityIsPercent, NEW t \in Thread, Step(t)
  PROVE  CapacityIsPercent'
<1>1. /\ pc \in [Thread -> Label] /\ local \in [Thread -> Info]
      /\ local[t].capacity \in Int /\ batteryInfo.capacity \in Int
      /\ lastCapacity \in Int /\ lastAge \in Nat /\ chargeAge \in Nat
      /\ \A u \in Thread : u # t => pc'[u] = pc[u] /\ local'[u] = local[u]
  BY TimeTypes, EveryStepMoves DEF Moves, TypeOK
<1>2. /\ lastCapacity <= 100
      /\ chargeFlag => lastAge <= chargeAge
      /\ \A u \in Thread : pc[u] \in Counting => local[u].capacity <= 100
  BY DEF CapacityIsPercent, BATTERY_FULL_CAPACITY, Counting
<1> SUFFICES /\ lastCapacity' <= 100
             /\ chargeFlag' => lastAge' <= chargeAge'
             /\ pc'[t] \in Counting => local'[t].capacity <= 100
  BY <1>1, <1>2 DEF CapacityIsPercent, BATTERY_FULL_CAPACITY, Counting
<1>3. CASE UNCHANGED timeVars /\ pc'[t] \notin Counting
  BY <1>2, <1>3 DEF timeVars
<1>4. CASE ConsiderCharge(t)
  BY <1>1, <1>2, <1>4 DEF ConsiderCharge, Call, timeVars, BATTERY_FULL_CAPACITY
<1>5. CASE BeginCharge(t)
  <2>1. /\ pc[t] \in Counting /\ local' = local
        /\ lastCapacity' \in {lastCapacity, local[t].capacity}
    BY <1>5 DEF BeginCharge, Goto, Counting, timeVars
  <2>2. chargeFlag' => lastAge' <= chargeAge'
    <3>1. CASE chargeFlag
      BY <1>2, <1>5, <3>1 DEF BeginCharge, timeVars
    <3>2. CASE ~chargeFlag
      <4>1. lastAge' = 0 /\ chargeAge' = 0
        BY <1>5, <3>2 DEF BeginCharge
      <4>. QED
        BY <4>1
    <3>. QED
      BY <3>1, <3>2
  <2>. QED
    BY <1>2, <2>1, <2>2
<1>6. CASE FollowFall(t)
  <2>1. /\ pc[t] \in Counting /\ local' = local
        /\ lastCapacity' \in {lastCapacity, local[t].capacity}
        /\ UNCHANGED <<lastAge, chargeFlag, chargeAge>>
    BY <1>6 DEF FollowFall, Goto, Counting
  <2>. QED
    BY <1>2, <2>1
<1>7. CASE TestRise(t)
  <2>1. /\ pc[t] \in Counting /\ UNCHANGED timeVars
        /\ pc'[t] \in Counting => local' = local
    BY <1>1, <1>7 DEF TestRise, Goto, Counting
  <2>. QED
    BY <1>2, <2>1 DEF timeVars
<1>8. CASE Estimate(t)
  <2>1. /\ pc[t] \in Counting /\ pc'[t] \notin Counting
        /\ lastCapacity' = local[t].capacity /\ lastAge' = 0
        /\ chargeAge' = chargeAge
    BY <1>1, <1>8 DEF Estimate, Goto, Counting
  <2>. QED
    BY <1>1, <1>2, <2>1
<1>9. CASE ForgetCharge(t)
  <2>1. /\ pc'[t] \notin Counting /\ lastCapacity' = lastCapacity
        /\ ~chargeFlag'
    BY <1>1, <1>9 DEF ForgetCharge, Goto, Counting
  <2>. QED
    BY <1>2, <2>1
<1>10. CASE Light(t) \/ Plug(t) \/ RejectCapacity(t) \/ ReturnIfSame(t)
            \/ HandleIfDifferent(t) \/ Record(t)
  <2>1. UNCHANGED timeVars
    BY <1>10, LightMoves, PlugMoves, OtherMoves DEF RejectCapacity
  <2>2. CASE Light(t)
    BY <1>1, <1>3, <2>1, <2>2
    DEF Light, UpdateColor, TurnOff, TurnedOff, TurnOn, TurnedOn, CallLight,
        Goto, Counting
  <2>3. CASE Plug(t) \/ RejectCapacity(t) \/ ReturnIfSame(t)
             \/ HandleIfDifferent(t) \/ Record(t)
    BY <1>1, <1>3, <2>1, <2>3
    DEF Plug, WakeupDevice, RememberPlug, RejectCapacity, ReturnIfSame,
        HandleIfDifferent, Record, Goto, Counting
  <2>. QED
    BY <1>10, <2>2, <2>3
<1>. QED
  BY <1>4, <1>5, <1>6, <1>7, <1>8, <1>9, <1>10
  DEF Step, HandleBatteryInfo, Time

(***************************************************************************)
(* The bound: each percent that is missing takes at most the whole time.   *)
(***************************************************************************)
Bound == (100 - lastCapacity) * chargeAge

LEMMA BoundedStepKeep ==
  ASSUME EstimateIsBounded, UNCHANGED timeVars,
         "time" \notin unsettled' => "time" \notin unsettled
  PROVE  EstimateIsBounded'
  BY DEF EstimateIsBounded, timeVars

LEMMA BoundedFall ==
  ASSUME TypeOK, CapacityIsPercent, EstimateIsBounded, NEW t \in Thread,
         FollowFall(t)
  PROVE  EstimateIsBounded'
<1>1. /\ lastCapacity \in Int /\ local[t].capacity \in Int /\ remainTime \in Int
      /\ chargeAge \in Nat /\ lastCapacity <= 100
  BY TimeTypes DEF CapacityIsPercent, BATTERY_FULL_CAPACITY
<1>2. /\ lastCapacity' = IF local[t].capacity < lastCapacity
                         THEN local[t].capacity ELSE lastCapacity
      /\ UNCHANGED <<remainTime, chargeFlag, chargeAge, unsettled>>
  BY DEF FollowFall
<1>3. /\ 100 - lastCapacity \in Nat /\ 100 - lastCapacity' \in Nat
      /\ 100 - lastCapacity <= 100 - lastCapacity'
  BY <1>1, <1>2
<1> DEFINE x == 100 - lastCapacity
           y == 100 - lastCapacity'
<1>4. x * chargeAge \in Nat /\ y * chargeAge \in Nat
      /\ x * chargeAge <= y * chargeAge
  <2>1. x \in Nat /\ y \in Nat /\ x <= y /\ chargeAge <= chargeAge
    BY <1>1, <1>3
  <2> HIDE DEF x, y
  <2>. QED
    BY <1>1, <2>1, ProductGrows
<1>5. "time" \notin unsettled =>
        /\ 0 <= remainTime /\ remainTime <= x * chargeAge
        /\ ~chargeFlag => remainTime = 0
  BY DEF EstimateIsBounded, BATTERY_FULL_CAPACITY
<1>6. "time" \notin unsettled => remainTime <= y * chargeAge
  <2> HIDE DEF x, y
  <2>. QED
    BY <1>1, <1>4, <1>5
<1>. QED
  BY <1>2, <1>5, <1>6 DEF EstimateIsBounded, BATTERY_FULL_CAPACITY

LEMMA BoundedBegin ==
  ASSUME TypeOK, EstimateIsBounded, NEW t \in Thread, BeginCharge(t)
  PROVE  EstimateIsBounded'
<1>1. CASE chargeFlag
  BY <1>1, BoundedStepKeep DEF BeginCharge
<1>2. CASE ~chargeFlag
  <2>1. /\ lastCapacity' = local[t].capacity /\ chargeAge' = 0
        /\ chargeFlag' /\ UNCHANGED <<remainTime, unsettled>>
    BY <1>2 DEF BeginCharge
  <2>2. local[t].capacity \in Int
    BY TimeTypes
  <2>3. (100 - lastCapacity') * chargeAge' = 0
    BY <2>1, <2>2
  <2>4. "time" \notin unsettled => remainTime = 0
    BY <1>2 DEF EstimateIsBounded
  <2>. QED
    BY <2>1, <2>3, <2>4 DEF EstimateIsBounded, BATTERY_FULL_CAPACITY
<1>. QED
  BY <1>1, <1>2

LEMMA BoundedForget ==
  ASSUME TypeOK, NEW t \in Thread, ForgetCharge(t)
  PROVE  EstimateIsBounded'
<1>1. lastCapacity \in Int
  BY TimeTypes
<1>2. remainTime' = 0 /\ chargeAge' = 0 /\ lastCapacity' = lastCapacity
  BY DEF ForgetCharge
<1>3. (100 - lastCapacity') * chargeAge' = 0
  BY <1>1, <1>2
<1>. QED
  BY <1>2, <1>3 DEF EstimateIsBounded, BATTERY_FULL_CAPACITY

LEMMA BoundedEstimate ==
  ASSUME TypeOK, CapacityIsPercent, ~joined, NEW t \in Thread, ChargeOf(t),
         Estimate(t)
  PROVE  EstimateIsBounded'
<1>1. /\ lastCapacity \in Int /\ local[t].capacity \in Int
      /\ lastAge \in Nat /\ chargeAge \in Nat
  BY TimeTypes
<1>2. /\ pc[t] = "divide"
      /\ remainTime' = (100 - local[t].capacity)
                         * Quotient(lastAge, local[t].capacity - lastCapacity)
      /\ lastCapacity' = local[t].capacity
      /\ UNCHANGED <<chargeFlag, chargeAge>>
  BY DEF Estimate, Goto, BATTERY_FULL_CAPACITY
<1>3. /\ chargeFlag /\ local[t].capacity - lastCapacity >= 1
      /\ lastAge <= chargeAge /\ local[t].capacity <= 100
  BY <1>2 DEF ChargeOf, Counting, CapacityIsPercent, BATTERY_FULL_CAPACITY
<1> DEFINE x == 100 - local[t].capacity
           risen == local[t].capacity - lastCapacity
           q == Quotient(lastAge, risen)
<1>4. x \in Nat /\ risen \in Int /\ risen >= 1
  BY <1>1, <1>3
<1>5. q \in Nat /\ q <= lastAge
  <2> HIDE DEF risen
  <2>. QED
    BY <1>1, <1>4, QuotientIsSmaller
<1>6. x * q \in Nat /\ x * q <= x * chargeAge
  <2>1. q <= chargeAge
    <3> HIDE DEF q
    <3>. QED
      BY <1>1, <1>3, <1>5
  <2>2. x <= x
    BY <1>4
  <2> HIDE DEF x, q
  <2>. QED
    BY <1>1, <1>4, <1>5, <2>1, <2>2, ProductGrows
<1>7. 0 <= x * q
  <2> HIDE DEF x, q
  <2>. QED
    BY <1>6
<1>. QED
  BY <1>2, <1>3, <1>6, <1>7 DEF EstimateIsBounded, BATTERY_FULL_CAPACITY

LEMMA BoundedTick ==
  ASSUME TypeOK, CapacityIsPercent, EstimateIsBounded, Tick
  PROVE  EstimateIsBounded'
<1>1. /\ lastCapacity \in Int /\ remainTime \in Int /\ chargeAge \in Nat
      /\ lastCapacity <= 100
  BY DEF TypeOK, CapacityIsPercent, BATTERY_FULL_CAPACITY
<1>2. /\ UNCHANGED <<lastCapacity, chargeFlag, remainTime, unsettled>>
      /\ chargeFlag => chargeAge' = chargeAge + 1
      /\ ~chargeFlag => chargeAge' = 0
  BY DEF Tick
<1> DEFINE x == 100 - lastCapacity
<1>3. x \in Nat
  BY <1>1
<1>4. "time" \notin unsettled =>
        /\ 0 <= remainTime /\ remainTime <= x * chargeAge
        /\ ~chargeFlag => remainTime = 0
  BY DEF EstimateIsBounded, BATTERY_FULL_CAPACITY
<1>5. "time" \notin unsettled => remainTime <= x * chargeAge'
  <2>1. CASE chargeFlag
    <3>1. chargeAge + 1 \in Nat /\ chargeAge <= chargeAge + 1 /\ x <= x
      BY <1>1, <1>3
    <3>2. x * chargeAge \in Nat /\ x * (chargeAge + 1) \in Nat
          /\ x * chargeAge <= x * (chargeAge + 1)
      <4> DEFINE b == chargeAge + 1
      <4>1. b \in Nat /\ chargeAge <= b
        BY <3>1
      <4> HIDE DEF x, b
      <4>2. x * chargeAge \in Nat /\ x * b \in Nat /\ x * chargeAge <= x * b
        BY <1>1, <1>3, <3>1, <4>1, ProductGrows
      <4>. QED
        BY <4>2 DEF b
    <3> HIDE DEF x
    <3>. QED
      BY <1>1, <1>2, <1>4, <2>1, <3>2
  <2>2. CASE ~chargeFlag
    <3> HIDE DEF x
    <3>1. x * chargeAge' = 0
      BY <1>2, <1>3, <2>2
    <3>. QED
      BY <1>4, <2>2, <3>1
  <2>. QED
    BY <2>1, <2>2
<1>. QED
  BY <1>2, <1>4, <1>5 DEF EstimateIsBounded, BATTERY_FULL_CAPACITY

(***************************************************************************)
(* Every step of a thread that is alone.                                   *)
(***************************************************************************)
LEMMA TimeStepOther ==
  ASSUME TypeOK, EstimateIsBounded, NEW t \in Thread, Moves(t),
         ChargeOf(t), FlagOf(t),
         Light(t) \/ Plug(t) \/ Record(t) \/ ReturnIfSame(t)
           \/ HandleIfDifferent(t)
  PROVE  EstimateIsBounded' /\ ChargeOf(t)' /\ FlagOf(t)'
<1>1. pc \in [Thread -> Label] /\ UNCHANGED <<batteryInfo, timeVars>>
  BY LightMoves, PlugMoves, OtherMoves DEF TypeOK, Moves
<1>2. "time" \notin unsettled' => "time" \notin unsettled
  <2>1. CASE Light(t)
    BY <2>1
    DEF Light, UpdateColor, TurnOff, TurnedOff, TurnOn, TurnedOn, CallLight,
        SettleLight, Settle
  <2>2. CASE Plug(t)
    BY <2>2 DEF Plug, WakeupDevice, RememberPlug, Settle
  <2>. QED
    BY <2>1, <2>2, OtherMoves
<1>3. /\ pc'[t] \notin Counting
      /\ \/ pc'[t] \notin {"idle", "compare", "record"}
         \/ /\ pc[t] = "compare" /\ pc'[t] = "idle"
            /\ lastBatteryInfo' = lastBatteryInfo
         \/ /\ pc[t] = "record" /\ pc'[t] = "idle"
            /\ lastBatteryInfo' = batteryInfo
  <2>1. CASE Light(t)
    BY <1>1, <2>1
    DEF Light, UpdateColor, TurnOff, TurnedOff, TurnOn, TurnedOn, CallLight,
        Goto, Counting
  <2>2. CASE Plug(t)
    BY <1>1, <2>2 DEF Plug, WakeupDevice, RememberPlug, Goto, Counting
  <2>3. CASE Record(t) \/ ReturnIfSame(t) \/ HandleIfDifferent(t)
    BY <1>1, <2>3 DEF Record, ReturnIfSame, HandleIfDifferent, Goto, Counting,
       infoVars
  <2>. QED
    BY <2>1, <2>2, <2>3
<1>4. EstimateIsBounded'
  BY <1>1, <1>2, BoundedStepKeep
<1>5. ChargeOf(t)'
  BY <1>3 DEF ChargeOf, Counting
<1>6. FlagOf(t)'
  <2>1. chargeFlag' = chargeFlag
    BY <1>1 DEF timeVars
  <2>2. CASE pc'[t] \notin {"idle", "compare", "record"}
    BY <2>2 DEF FlagOf
  <2>3. CASE pc[t] = "compare" /\ pc'[t] = "idle"
             /\ lastBatteryInfo' = lastBatteryInfo
    BY <1>1, <1>2, <2>1, <2>3 DEF FlagOf, IsCharging
  <2>4. CASE pc[t] = "record" /\ pc'[t] = "idle"
             /\ lastBatteryInfo' = batteryInfo
    BY <1>1, <1>2, <2>1, <2>4 DEF FlagOf, IsCharging
  <2>. QED
    BY <1>3, <2>2, <2>3, <2>4
<1>. QED
  BY <1>4, <1>5, <1>6

LEMMA TimeStepTime ==
  ASSUME TypeOK, CapacityIsPercent, EstimateIsBounded, ~joined,
         NEW t \in Thread, ChargeOf(t), FlagOf(t),
         pc[t] \in Counting => local[t] = batteryInfo, Time(t)
  PROVE  EstimateIsBounded' /\ ChargeOf(t)' /\ FlagOf(t)'
<1>1. pc \in [Thread -> Label] /\ UNCHANGED batteryInfo
  BY TimeMoves DEF TypeOK, Moves
<1>2. CASE RejectCapacity(t)
  <2>1. /\ pc'[t] = "record" /\ batteryInfo.capacity > BATTERY_FULL_CAPACITY
        /\ UNCHANGED timeVars /\ UNCHANGED unsettled
    BY <1>1, <1>2 DEF RejectCapacity, Goto
  <2>2. ~(batteryInfo.capacity <= BATTERY_FULL_CAPACITY)
    BY <2>1, TimeTypes DEF BATTERY_FULL_CAPACITY
  <2>. QED
    BY <1>1, <2>1, <2>2, BoundedStepKeep DEF ChargeOf, FlagOf, Counting
<1>3. CASE ForgetCharge(t)
  <2>1. /\ pc'[t] = "record" /\ chargeFlag' = FALSE
        /\ ~IsCharging(batteryInfo)
    BY <1>1, <1>3 DEF ForgetCharge, Goto
  <2>2. EstimateIsBounded'
    BY <1>3, BoundedForget
  <2>3. IsCharging(batteryInfo)' = IsCharging(batteryInfo)
    BY <1>1 DEF IsCharging
  <2>. QED
    BY <2>1, <2>2, <2>3 DEF ChargeOf, FlagOf, Counting, IsCharging
<1>4. CASE ConsiderCharge(t)
  <2>1. /\ pc'[t] = "begin" /\ IsCharging(batteryInfo)
        /\ UNCHANGED timeVars /\ UNCHANGED unsettled
    BY <1>1, <1>4 DEF ConsiderCharge, Goto
  <2>. QED
    BY <1>1, <2>1, BoundedStepKeep DEF ChargeOf, FlagOf, IsCharging, Counting
<1>5. CASE BeginCharge(t)
  <2>1. /\ pc[t] = "begin" /\ pc'[t] = "fall" /\ chargeFlag'
    <3>1. chargeFlag'
      BY <1>5 DEF BeginCharge, timeVars
    <3>. QED
      BY <1>1, <1>5, <3>1 DEF BeginCharge, Goto
  <2>. QED
    BY <1>1, <1>5, <2>1, BoundedBegin DEF ChargeOf, FlagOf, IsCharging, Counting
<1>6. CASE FollowFall(t)
  <2>1. /\ pc[t] = "fall" /\ pc'[t] = "rise" /\ chargeFlag' = chargeFlag
    BY <1>1, <1>6 DEF FollowFall, Goto
  <2>. QED
    BY <1>1, <1>6, <2>1, BoundedFall DEF ChargeOf, FlagOf, IsCharging, Counting
<1>7. CASE TestRise(t)
  <2>1. /\ pc[t] = "rise" /\ UNCHANGED timeVars /\ UNCHANGED unsettled
        /\ IsCharging(batteryInfo) /\ chargeFlag
    BY <1>7 DEF TestRise, Goto, ChargeOf, Counting
  <2>2. \/ /\ pc'[t] = "divide" /\ local' = local
           /\ local[t].capacity - lastCapacity >= 1
        \/ pc'[t] = "record"
    BY <1>1, <1>7 DEF TestRise, Goto, Rises
  <2>3. ChargeOf(t)'
    BY <1>1, <2>1, <2>2 DEF ChargeOf, Counting, IsCharging, timeVars
  <2>4. FlagOf(t)'
    BY <1>1, <2>1, <2>2 DEF FlagOf, IsCharging, timeVars
  <2>. QED
    BY <2>1, <2>3, <2>4, BoundedStepKeep
<1>8. CASE Estimate(t)
  <2>1. /\ pc[t] = "divide" /\ pc'[t] = "record" /\ chargeFlag' = chargeFlag
        /\ IsCharging(batteryInfo) /\ chargeFlag
    BY <1>1, <1>8 DEF Estimate, Goto, ChargeOf, Counting
  <2>2. EstimateIsBounded'
    BY <1>8, BoundedEstimate
  <2>3. ChargeOf(t)'
    BY <2>1 DEF ChargeOf, Counting
  <2>4. FlagOf(t)'
    BY <1>1, <2>1 DEF FlagOf, IsCharging
  <2>. QED
    BY <2>2, <2>3, <2>4
<1>. QED
  BY <1>2, <1>3, <1>4, <1>5, <1>6, <1>7, <1>8 DEF Time

LEMMA TimeStep ==
  ASSUME TypeOK, AloneInv, TimeInv, NEW t \in Thread, Step(t)
  PROVE  TimeInv'
<1>1. Moves(t)
  BY EveryStepMoves
<1>2. CapacityIsPercent'
  BY PercentStep DEF TimeInv
<1>3. CASE joined
  BY <1>1, <1>2, <1>3
  DEF Moves, AloneInv, TimeInv, ChargeIsFollowed, EstimateIsBounded,
      FlagIsCurrent, Alone, Parts
<1>4. CASE ~joined
  <2>1. \A u \in Thread : u # t => pc[u] = "idle" /\ pc'[u] = "idle"
    BY <1>1, <1>4, OthersAreIdle
  <2>2. ChargeOf(t) /\ FlagOf(t)
    BY <1>4, <2>1, TimeOfOne
  <2>3. pc[t] \in Counting => local[t] = batteryInfo
    BY <1>4 DEF AloneInv, Alone, Busy, Counting
  <2>4. EstimateIsBounded' /\ ChargeOf(t)' /\ FlagOf(t)'
    <3>1. CASE Time(t)
      BY <1>4, <2>2, <2>3, <3>1, TimeStepTime DEF TimeInv
    <3>2. CASE Light(t) \/ Plug(t) \/ Record(t) \/ ReturnIfSame(t)
               \/ HandleIfDifferent(t)
      BY <1>1, <2>2, <3>2, TimeStepOther DEF TimeInv
    <3>. QED
      BY <3>1, <3>2 DEF Step, HandleBatteryInfo
  <2>. QED
    BY <1>2, <2>1, <2>4, OneIsTime
<1>. QED
  BY <1>3, <1>4

LEMMA NoChargeYet ==
  ASSUME lastBatteryInfo = ConstructedInfo, chargeFlag = FALSE,
         \A t \in Thread : pc[t] = "idle"
  PROVE  FlagIsCurrent
<1>1. IsCharging(lastBatteryInfo) = FALSE
  BY Constructed DEF IsCharging
<1>. QED
  BY <1>1 DEF FlagIsCurrent

LEMMA TimeInit == Init => TimeInv
<1> SUFFICES ASSUME Init
             PROVE  TimeInv
  OBVIOUS
<1>1. FlagIsCurrent
  BY NoChargeYet DEF Init
<1>. QED
  BY <1>1 DEF Init, TimeInv, CapacityIsPercent, ChargeIsFollowed,
     EstimateIsBounded, Alone, Busy, BATTERY_FULL_CAPACITY

LEMMA TimeEnter ==
  ASSUME TypeOK, TimeInv, NEW t \in Thread,
         NEW label \in {"compare", "light"}, Enter(t, label)
  PROVE  TimeInv'
<1>1. /\ pc[t] = "idle" /\ pc'[t] = label
      /\ pc \in [Thread -> Label] /\ pc' = [pc EXCEPT ![t] = label]
      /\ UNCHANGED <<lastBatteryInfo, local>> /\ UNCHANGED timeVars
  BY DEF TypeOK, Enter, Goto
<1>2. CapacityIsPercent'
  BY <1>1 DEF TimeInv, CapacityIsPercent, timeVars
<1>3. CASE joined'
  <2>1. unsettled' = Parts
    BY <1>3 DEF Enter
  <2>. QED
    BY <1>2, <1>3, <2>1 DEF TimeInv, ChargeIsFollowed, EstimateIsBounded,
       FlagIsCurrent, Alone, Parts
<1>4. CASE ~joined'
  <2>1. /\ \A u \in Thread : u # t => pc'[u] = "idle"
        /\ Quiet /\ UNCHANGED unsettled
    BY <1>4, EnteringAlone
  <2>2. EstimateIsBounded'
    BY <1>1, <2>1, BoundedStepKeep DEF TimeInv
  <2>3. ChargeOf(t)'
    BY <1>1 DEF ChargeOf, Counting
  <2>4. ("time" \notin unsettled
           /\ lastBatteryInfo.capacity <= BATTERY_FULL_CAPACITY)
        => chargeFlag = IsCharging(lastBatteryInfo)
    BY <2>1 DEF TimeInv, FlagIsCurrent
  <2>5. FlagOf(t)'
    BY <1>1, <2>1, <2>4 DEF FlagOf, IsCharging, timeVars
  <2>. QED
    BY <1>2, <2>1, <2>2, <2>3, <2>5, OneIsTime
<1>. QED
  BY <1>3, <1>4

LEMMA TimeEnvironment ==
  ASSUME TypeOK, TimeInv, Environment
  PROVE  TimeInv'
<1>1. CASE Restart
  <2>1. /\ lastBatteryInfo' = ConstructedInfo /\ chargeFlag' = FALSE
        /\ \A t \in Thread : pc'[t] = "idle"
    BY <1>1 DEF Restart
  <2>2. IsCharging(lastBatteryInfo') = FALSE
    BY <2>1, Constructed DEF IsCharging
  <2>3. FlagIsCurrent'
    BY <2>1, <2>2 DEF FlagIsCurrent
  <2>. QED
    BY <1>1, <2>3 DEF Restart, TimeInv, CapacityIsPercent, ChargeIsFollowed,
       EstimateIsBounded, Alone, Busy, BATTERY_FULL_CAPACITY
<1>2. CASE Tick
  <2>1. /\ UNCHANGED <<batteryInfo, lastBatteryInfo, pc, local, lastCapacity,
                       chargeFlag, joined, unsettled>>
    BY <1>2 DEF Tick, infoVars
  <2>2. EstimateIsBounded'
    BY <1>2, BoundedTick DEF TimeInv
  <2>3. chargeFlag' => lastAge' <= chargeAge'
    BY <1>2 DEF Tick, TypeOK, TimeInv, CapacityIsPercent
  <2>4. CapacityIsPercent'
    BY <2>1, <2>3 DEF TimeInv, CapacityIsPercent
  <2>5. ChargeIsFollowed' /\ FlagIsCurrent'
    BY <2>1 DEF TimeInv, ChargeIsFollowed, FlagIsCurrent, Alone, Busy, Quiet,
       IsCharging
  <2>. QED
    BY <2>2, <2>4, <2>5 DEF TimeInv
<1>3. CASE InitLight
  <2>1. /\ UNCHANGED <<batteryInfo, lastBatteryInfo, pc, local, joined>>
        /\ UNCHANGED timeVars
        /\ "time" \notin unsettled' => "time" \notin unsettled
    BY <1>3 DEF InitLight, infoVars
  <2>2. EstimateIsBounded'
    BY <2>1, BoundedStepKeep DEF TimeInv
  <2>3. CapacityIsPercent' /\ ChargeIsFollowed' /\ FlagIsCurrent'
    BY <2>1 DEF TimeInv, CapacityIsPercent, ChargeIsFollowed, FlagIsCurrent,
       Alone, Busy, Quiet, IsCharging, timeVars
  <2>. QED
    BY <2>2, <2>3 DEF TimeInv
<1>. QED
  BY <1>1, <1>2, <1>3 DEF Environment

LEMMA TimeNext ==
  TypeOK /\ AloneInv /\ TimeInv /\ [Next]_vars => TimeInv'
<1>1. CASE UNCHANGED vars
  BY <1>1 DEF vars, infoVars, timeVars, TimeInv, CapacityIsPercent,
     ChargeIsFollowed, EstimateIsBounded, FlagIsCurrent, Alone, Busy, Quiet,
     IsCharging
<1>. QED
  BY <1>1, NextSteps, TimeStep, TimeEnter, TimeEnvironment

-----------------------------------------------------------------------------
(***************************************************************************)
(* IInv is an invariant: unless threads met, who handles a report is alone *)
(* with what it was told; the light, the plugged type and the estimate are *)
(* what the last undisturbed report made of them.                          *)
(***************************************************************************)
THEOREM Invariance == Spec => []IInv
<1>1. Init => IInv
  BY TypeInit, AloneInit, LightInit, PlugInit, TimeInit DEF IInv, PlugInv
<1>2. IInv /\ [Next]_vars => IInv'
  BY TypeNext, AloneNext, LightNext, PlugNext, TimeNext DEF IInv, PlugInv
<1>. QED
  BY <1>1, <1>2, PTL DEF Spec

(***************************************************************************)
(* The light shows what the last undisturbed report asks for.              *)
(***************************************************************************)
THEOREM LightShowsReport == Spec => []LightFollowsReport
<1>1. IInv => LightFollowsReport
  BY DEF IInv, LightInv, LightIsFollowed, LightFollowsReport
<1>. QED
  BY <1>1, Invariance, PTL

(***************************************************************************)
(* The remaining charge time is never negative and is that of the charge   *)
(* under way.                                                              *)
(***************************************************************************)
THEOREM EstimateIsCurrent == Spec => []EstimateIsOfThisCharge
<1>1. IInv => EstimateIsOfThisCharge
  BY DEF IInv, TimeInv, EstimateIsBounded, FlagIsCurrent, EstimateIsOfThisCharge
<1>. QED
  BY <1>1, Invariance, PTL

(***************************************************************************)
(* Any thresholds give a capacity the level of the first one it does not   *)
(* exceed.                                                                 *)
(***************************************************************************)
THEOREM LevelsAreFirst == Spec => []LevelIsFirstThreshold
<1>1. TypeOK => LevelIsFirstThreshold
  <2> SUFFICES ASSUME TypeOK, batteryInfo.capacity >= 0,
                      NEW conf \in ThresholdConfs
               PROVE  LET level == GetCapacityLevelInner(conf, batteryInfo.capacity)
                      IN  /\ \A j \in 1 .. 7 :
                               (j < level \/ level = 0)
                                 => conf[j] < batteryInfo.capacity
                          /\ level # 0 => batteryInfo.capacity <= conf[level]
    BY DEF LevelIsFirstThreshold
  <2>1. conf \in [1 .. 7 -> Int] /\ batteryInfo.capacity \in Int
    BY ThresholdAssumption, InfoFields DEF TypeOK
  <2> DEFINE level == GetCapacityLevelInner(conf, batteryInfo.capacity)
  <2>. QED
    BY <2>1, FirstLevel
<1>2. IInv => TypeOK
  BY DEF IInv
<1>. QED
  BY <1>1, <1>2, Invariance, PTL

=============================================================================
