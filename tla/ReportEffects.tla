--------------------------- MODULE ReportEffects ---------------------------
(***************************************************************************)
(* What HandleBatteryInfo does with a report besides the events and the    *)
(* capacity handling (services/native/src/battery_service.cpp, with        *)
(* battery_light.cpp and the light part of battery_config.cpp): it shows   *)
(* a colour, wakes the device when a charger comes or goes and estimates   *)
(* the remaining charge time; and what level a getter answers for a        *)
(* capacity.                                                               *)
(*                                                                         *)
(* lightColor_, g_lastPluggedType, lastCapacity_, lastTime_, chargeFlag_   *)
(* and remainTime_ belong to no lock: the threads that handle a report at  *)
(* once (see BatteryInfoFlow) interleave at each access.  The properties   *)
(* are about threads that had the handler to themselves, and about what    *)
(* they find: what others left behind when they met.                       *)
(***************************************************************************)
EXTENDS Integers, Sequences

CONSTANTS
  Thread,          \* threads that report a BatteryInfo to the service
  Reports,         \* what they may report
  LightLevels,     \* the light configuration's entries, as they are in JSON
  ThresholdConfs,  \* possible values of the seven capacity thresholds
  MaxTime          \* bound: the clock stops here

INVALID_BATT_INT_VALUE == -1
BATTERY_FULL_CAPACITY == 100
MAX_SOC_RANGE == 2
MAX_RGB_RANGE == 3
LIGHT_OFF == <<0, 0, 0>>

Info ==
  [capacity : Int,
   chargeState : {"NONE", "ENABLE", "DISABLE", "FULL", "BUTT"},
   plugged : {"NONE", "AC", "USB", "WIRELESS", "BUTT"}]

ConstructedInfo ==
  [capacity |-> INVALID_BATT_INT_VALUE, chargeState |-> "BUTT",
   plugged |-> "BUTT"]

(***************************************************************************)
(* ParseConfInner and ParseLightConf: the entries "low", "normal" and      *)
(* "high", without those that do not give two bounds and three bytes, or   *)
(* give something else than numbers.                                       *)
(***************************************************************************)
LightLevel == [soc : Seq(Int), rgb : Seq(0 .. 255), numeric : BOOLEAN]

ParseLightConf ==
  SelectSeq(LightLevels, LAMBDA level :
              /\ Len(level.soc) = MAX_SOC_RANGE
              /\ Len(level.rgb) = MAX_RGB_RANGE
              /\ level.numeric)

Rgb(i) == ParseLightConf[i].rgb

Colours == {LIGHT_OFF} \cup {Rgb(i) : i \in DOMAIN ParseLightConf}

(***************************************************************************)
(* The battery HDI may report any capacity and any state, BUTT included:    *)
(* its state RESERVED has the same value.  No light range is black.        *)
(***************************************************************************)
ASSUME ReportsAssumption == Reports \subseteq Info

ASSUME LightAssumption ==
  /\ LightLevels \in Seq(LightLevel)
  /\ ParseLightConf \in Seq(LightLevel)
  /\ \A i \in DOMAIN ParseLightConf : Rgb(i) # LIGHT_OFF

ASSUME ThresholdAssumption == ThresholdConfs \subseteq [1 .. 7 -> Int]

ASSUME MaxTimeAssumption == MaxTime \in Nat

VARIABLES
  batteryInfo,      \* batteryInfo_
  lastBatteryInfo,  \* lastBatteryInfo_
  pc,               \* the next step of each thread
  local,            \* the arguments of the call a thread is in
  ok,               \* whether a thread's last call on the light succeeded
  available,        \* available_: there is a battery light
  lightColor,       \* lightColor_
  shown,            \* the colour the battery light shows
  lastPluggedType,  \* g_lastPluggedType
  woken,            \* the threads that woke the device in this WakeupDevice
  lastCapacity,     \* lastCapacity_
  lastAge,          \* the time passed since lastTime_
  chargeFlag,       \* chargeFlag_
  remainTime,       \* remainTime_
  chargeAge,        \* history: the time passed since chargeFlag_ was set
  joined,           \* history: threads met since the handler was empty
  unsettled,        \* history: what may not be as the last report asks for
  refused           \* history: the last call on the light failed

infoVars == <<batteryInfo, lastBatteryInfo>>
lightVars == <<ok, available, lightColor, shown, refused>>
plugVars == <<lastPluggedType, woken>>
timeVars == <<lastCapacity, lastAge, chargeFlag, remainTime, chargeAge>>
vars ==
  <<infoVars, pc, local, lightVars, plugVars, timeVars, joined, unsettled>>

Label ==
  {"idle", "compare", "light", "off", "offDone", "on", "onDone", "wake",
   "plug", "time", "begin", "fall", "rise", "divide", "record"}

Parts == {"light", "plug", "time"}

TypeOK ==
  /\ batteryInfo \in Info
  /\ lastBatteryInfo \in Info
  /\ pc \in [Thread -> Label]
  /\ local \in [Thread -> Info]
  /\ ok \in [Thread -> BOOLEAN]
  /\ available \in BOOLEAN
  /\ lightColor \in Colours
  /\ shown \in Colours
  /\ lastPluggedType \in {"NONE", "AC", "USB", "WIRELESS", "BUTT"}
  /\ woken \subseteq Thread
  /\ lastCapacity \in Int
  /\ lastAge \in Nat
  /\ chargeFlag \in BOOLEAN
  /\ remainTime \in Int
  /\ chargeAge \in Nat
  /\ joined \in BOOLEAN
  /\ unsettled \subseteq Parts
  /\ refused \in BOOLEAN

Init ==
  /\ batteryInfo = ConstructedInfo
  /\ lastBatteryInfo = ConstructedInfo
  /\ pc = [t \in Thread |-> "idle"]
  /\ local = [t \in Thread |-> ConstructedInfo]
  /\ ok = [t \in Thread |-> TRUE]
  /\ available = FALSE
  /\ lightColor = LIGHT_OFF
  /\ shown = LIGHT_OFF
  /\ lastPluggedType = "NONE"
  /\ woken = {}
  /\ lastCapacity = 0
  /\ lastAge = 0
  /\ chargeFlag = FALSE
  /\ remainTime = 0
  /\ chargeAge = 0
  /\ joined = FALSE
  /\ unsettled = {}
  /\ refused = FALSE

(***************************************************************************)
(* A crash, at any step, and the start of another service process, which   *)
(* finds the light as the last one left it.                                *)
(***************************************************************************)
Restart ==
  /\ batteryInfo' = ConstructedInfo
  /\ lastBatteryInfo' = ConstructedInfo
  /\ pc' = [t \in Thread |-> "idle"]
  /\ local' = [t \in Thread |-> ConstructedInfo]
  /\ ok' = [t \in Thread |-> TRUE]
  /\ available' = FALSE
  /\ lightColor' = LIGHT_OFF
  /\ lastPluggedType' = "NONE"
  /\ woken' = {}
  /\ lastCapacity' = 0
  /\ lastAge' = 0
  /\ chargeFlag' = FALSE
  /\ remainTime' = 0
  /\ chargeAge' = 0
  /\ joined' = FALSE
  /\ unsettled' = {}
  /\ refused' = FALSE
  /\ UNCHANGED shown

Busy(t) == pc[t] # "idle"
Quiet == \A t \in Thread : ~Busy(t)
Alone(t) == Busy(t) /\ ~joined

Goto(t, from, to) ==
  /\ pc[t] = from
  /\ pc' = [pc EXCEPT ![t] = to]

(***************************************************************************)
(* The arguments of a call are read from batteryInfo_ and end with it.     *)
(***************************************************************************)
Call(t, arguments) == local' = [local EXCEPT ![t] = arguments]
Return(t) == local' = [local EXCEPT ![t] = ConstructedInfo]

(***************************************************************************)
(* A thread that has the handler to itself puts a part right.              *)
(***************************************************************************)
Settle(part) == unsettled' = IF joined THEN unsettled ELSE unsettled \ {part}

(***************************************************************************)
(* Time passes.  The bound: neither age exceeds MaxTime.                   *)
(***************************************************************************)
Tick ==
  /\ lastAge < MaxTime
  /\ chargeAge < MaxTime
  /\ lastAge' = lastAge + 1
  /\ chargeAge' = IF chargeFlag THEN chargeAge + 1 ELSE 0
  /\ UNCHANGED <<infoVars, pc, local, lightVars, plugVars, lastCapacity,
                 chargeFlag, remainTime, joined, unsettled>>

-----------------------------------------------------------------------------
(***************************************************************************)
(* A thread assigns batteryInfo_: an Update of the HDI is compared with    *)
(* the last handled information, a START report or a mock is not.  Fields  *)
(* that are not modelled may differ when the modelled ones agree.          *)
(***************************************************************************)
Enter(t, label) ==
  /\ Goto(t, "idle", label)
  /\ batteryInfo' \in Reports
  /\ joined' = ~Quiet
  /\ unsettled' = IF Quiet THEN unsettled ELSE Parts
  /\ UNCHANGED <<lastBatteryInfo, local, lightVars, plugVars, timeVars>>

ReturnIfSame(t) ==
  /\ Goto(t, "compare", "idle")
  /\ lastBatteryInfo = batteryInfo
  /\ UNCHANGED <<infoVars, local, lightVars, plugVars, timeVars, joined,
                 unsettled>>

HandleIfDifferent(t) ==
  /\ Goto(t, "compare", "light")
  /\ UNCHANGED <<infoVars, local, lightVars, plugVars, timeVars, joined,
                 unsettled>>

Record(t) ==
  /\ Goto(t, "record", "idle")
  /\ lastBatteryInfo' = batteryInfo
  /\ UNCHANGED <<batteryInfo, local, lightVars, plugVars, timeVars, joined,
                 unsettled>>

-----------------------------------------------------------------------------
(***************************************************************************)
(* UpdateColor.  The first configured range that contains the capacity     *)
(* gives the colour; a capacity in no range leaves the light as it is.     *)
(***************************************************************************)
LightsUp(info) == info.chargeState \in {"ENABLE", "FULL"}

InRange(i, capacity) ==
  /\ ParseLightConf[i].soc[1] <= capacity
  /\ capacity <= ParseLightConf[i].soc[2]

FirstRange(i, capacity) ==
  /\ i \in DOMAIN ParseLightConf
  /\ InRange(i, capacity)
  /\ \A j \in 1 .. i - 1 : ~InRange(j, capacity)

(***************************************************************************)
(* The service of the lights comes up and knows a battery light: what was  *)
(* reported until then was not shown.                                      *)
(***************************************************************************)
InitLight ==
  /\ ~available
  /\ available' = TRUE
  /\ unsettled' = unsettled \cup {"light"}
  /\ UNCHANGED <<infoVars, pc, local, ok, lightColor, shown, refused, plugVars,
                 timeVars, joined>>

MustChange(info) ==
  \/ ~LightsUp(info)
  \/ \E i \in DOMAIN ParseLightConf :
       FirstRange(i, info.capacity) /\ lightColor # Rgb(i)

UpdateColor(t) ==
  /\ IF available /\ MustChange(batteryInfo)
     THEN Goto(t, "light", "off") /\ Call(t, batteryInfo)
     ELSE Goto(t, "light", "wake") /\ UNCHANGED local
  /\ refused' = FALSE
  /\ UNCHANGED <<infoVars, ok, available, lightColor, shown, plugVars,
                 timeVars, joined, unsettled>>

(***************************************************************************)
(* A call on the light, which may fail, and then lightColor_.              *)
(***************************************************************************)
CallLight(t, from, to, colour) ==
  /\ Goto(t, from, to)
  /\ \E success \in BOOLEAN :
       /\ ok' = [ok EXCEPT ![t] = success]
       /\ shown' = IF success THEN colour ELSE shown
       /\ refused' = ~success
  /\ UNCHANGED <<infoVars, local, available, lightColor, plugVars,
                 timeVars, joined, unsettled>>

StoreColor(t, colour) ==
  /\ lightColor' = IF ok[t] THEN colour ELSE lightColor
  /\ ok' = [ok EXCEPT ![t] = TRUE]
  /\ UNCHANGED <<infoVars, available, shown, refused, plugVars, timeVars,
                 joined>>

SettleLight(t) == IF ok[t] THEN Settle("light") ELSE UNCHANGED unsettled

TurnOff(t) == CallLight(t, "off", "offDone", LIGHT_OFF)

(***************************************************************************)
(* With a bug: TurnOff keeps the colour.                                   *)
(***************************************************************************)
TurnedOffKeepsColor(t) ==
  /\ StoreColor(t, lightColor)
  /\ IF LightsUp(local[t])
     THEN Goto(t, "offDone", "on") /\ UNCHANGED <<local, unsettled>>
     ELSE Goto(t, "offDone", "wake") /\ Return(t) /\ SettleLight(t)

TurnedOff(t) ==
  /\ StoreColor(t, LIGHT_OFF)
  /\ IF LightsUp(local[t])
     THEN Goto(t, "offDone", "on") /\ UNCHANGED <<local, unsettled>>
     ELSE Goto(t, "offDone", "wake") /\ Return(t) /\ SettleLight(t)

TurnOn(t) ==
  \E i \in DOMAIN ParseLightConf :
    /\ FirstRange(i, local[t].capacity)
    /\ CallLight(t, "on", "onDone", Rgb(i))

TurnedOn(t) ==
  \E i \in DOMAIN ParseLightConf :
    /\ FirstRange(i, local[t].capacity)
    /\ Goto(t, "onDone", "wake")
    /\ StoreColor(t, Rgb(i))
    /\ Return(t)
    /\ SettleLight(t)

-----------------------------------------------------------------------------
(***************************************************************************)
(* WakeupDevice: the device is woken when a charger comes or goes.         *)
(***************************************************************************)
IsNowPlugged(type) == type \notin {"NONE", "BUTT"}

WakeupDevice(t) ==
  /\ Goto(t, "wake", "plug")
  /\ Call(t, [ConstructedInfo EXCEPT !.plugged = batteryInfo.plugged])
  /\ woken' = IF IsNowPlugged(lastPluggedType)
                   # IsNowPlugged(batteryInfo.plugged)
              THEN woken \cup {t} ELSE woken
  /\ UNCHANGED <<infoVars, lightVars, lastPluggedType, timeVars, joined,
                 unsettled>>

(***************************************************************************)
(* With a bug: only a charger that comes is remembered.                    *)
(***************************************************************************)
RememberPlugged(t) ==
  /\ Goto(t, "plug", "time")
  /\ lastPluggedType' = IF IsNowPlugged(local[t].plugged)
                        THEN local[t].plugged ELSE lastPluggedType
  /\ woken' = woken \ {t}
  /\ Return(t)
  /\ Settle("plug")
  /\ UNCHANGED <<infoVars, lightVars, timeVars, joined>>

RememberPlug(t) ==
  /\ Goto(t, "plug", "time")
  /\ lastPluggedType' = local[t].plugged
  /\ woken' = woken \ {t}
  /\ Return(t)
  /\ Settle("plug")
  /\ UNCHANGED <<infoVars, lightVars, timeVars, joined>>

-----------------------------------------------------------------------------
(***************************************************************************)
(* CalculateRemainingChargeTime.  A capacity above 100 changes nothing.    *)
(***************************************************************************)
IsCharging(info) == info.chargeState = "ENABLE"

RejectCapacity(t) ==
  /\ Goto(t, "time", "record")
  /\ batteryInfo.capacity > BATTERY_FULL_CAPACITY
  /\ UNCHANGED <<infoVars, local, lightVars, plugVars, timeVars, joined,
                 unsettled>>

ForgetCharge(t) ==
  /\ Goto(t, "time", "record")
  /\ batteryInfo.capacity <= BATTERY_FULL_CAPACITY
  /\ ~IsCharging(batteryInfo)
  /\ remainTime' = 0
  /\ chargeFlag' = FALSE
  /\ chargeAge' = 0
  /\ Settle("time")
  /\ UNCHANGED <<infoVars, local, lightVars, plugVars, lastCapacity, lastAge,
                 joined>>

ConsiderCharge(t) ==
  /\ Goto(t, "time", "begin")
  /\ batteryInfo.capacity <= BATTERY_FULL_CAPACITY
  /\ IsCharging(batteryInfo)
  /\ Call(t, batteryInfo)
  /\ UNCHANGED <<infoVars, lightVars, plugVars, timeVars, joined, unsettled>>

(***************************************************************************)
(* With a bug: a charge begins without the time being taken.               *)
(***************************************************************************)
BeginWithoutTime(t) ==
  /\ Goto(t, "begin", "fall")
  /\ IF chargeFlag
     THEN UNCHANGED timeVars
     ELSE /\ lastCapacity' = local[t].capacity
          /\ chargeFlag' = TRUE
          /\ chargeAge' = 0
          /\ UNCHANGED <<lastAge, remainTime>>
  /\ UNCHANGED <<infoVars, local, lightVars, plugVars, joined, unsettled>>

BeginCharge(t) ==
  /\ Goto(t, "begin", "fall")
  /\ IF chargeFlag
     THEN UNCHANGED timeVars
     ELSE /\ lastCapacity' = local[t].capacity
          /\ lastAge' = 0
          /\ chargeFlag' = TRUE
          /\ chargeAge' = 0
          /\ UNCHANGED remainTime
  /\ UNCHANGED <<infoVars, local, lightVars, plugVars, joined, unsettled>>

FollowFall(t) ==
  /\ Goto(t, "fall", "rise")
  /\ lastCapacity' = IF local[t].capacity < lastCapacity
                     THEN local[t].capacity ELSE lastCapacity
  /\ UNCHANGED <<infoVars, local, lightVars, plugVars, lastAge, chargeFlag,
                 remainTime, chargeAge, joined, unsettled>>

Rises(capacity) ==
  capacity - lastCapacity >= 1 /\ lastCapacity >= 0 /\ chargeFlag

TestRise(t) ==
  /\ IF Rises(local[t].capacity)
     THEN Goto(t, "rise", "divide") /\ UNCHANGED local
     ELSE Goto(t, "rise", "record") /\ Return(t)
  /\ UNCHANGED <<infoVars, lightVars, plugVars, timeVars, joined, unsettled>>

(***************************************************************************)
(* The division of C++ truncates.  Another thread may have changed the     *)
(* divisor since the test; a zero gives 0 on the processors that do not    *)
(* trap, on the others the process dies (Restart).                         *)
(***************************************************************************)
Quotient(a, b) ==
  IF b > 0 THEN a \div b ELSE IF b < 0 THEN -(a \div (-b)) ELSE 0

Estimate(t) ==
  /\ Goto(t, "divide", "record")
  /\ remainTime' =
       (BATTERY_FULL_CAPACITY - local[t].capacity)
         * Quotient(lastAge, local[t].capacity - lastCapacity)
  /\ lastCapacity' = local[t].capacity
  /\ lastAge' = 0
  /\ Return(t)
  /\ Settle("time")
  /\ UNCHANGED <<infoVars, lightVars, plugVars, chargeFlag, chargeAge, joined>>

-----------------------------------------------------------------------------
(***************************************************************************)
(* GetCapacityLevelInner.  The levels are "shutdown", "critical",          *)
(* "warning", "low", "normal", "high" and "full", 0 is LEVEL_NONE; the     *)
(* thresholds are used even when they are not in order.                    *)
(***************************************************************************)
IsCapacityLevelDefined(threshold) == threshold # INVALID_BATT_INT_VALUE

(***************************************************************************)
(* With a bug: a threshold does not belong to its level.                   *)
(***************************************************************************)
CompareExclusive(capacity, min, max) ==
  IsCapacityLevelDefined(max) /\ min <= capacity /\ capacity < max

CapacityLevelCompare(capacity, min, max) ==
  IsCapacityLevelDefined(max) /\ min < capacity /\ capacity <= max

InLevel(conf, i, capacity) ==
  CapacityLevelCompare(
    capacity, IF i = 1 THEN INVALID_BATT_INT_VALUE ELSE conf[i - 1], conf[i])

GetCapacityLevelInner(conf, capacity) ==
  IF \E i \in 1 .. 7 : InLevel(conf, i, capacity)
  THEN CHOOSE i \in 1 .. 7 :
         /\ InLevel(conf, i, capacity)
         /\ \A j \in 1 .. i - 1 : ~InLevel(conf, j, capacity)
  ELSE 0

-----------------------------------------------------------------------------
Light(t) ==
  UpdateColor(t) \/ TurnOff(t) \/ TurnedOff(t) \/ TurnOn(t) \/ TurnedOn(t)

Plug(t) == WakeupDevice(t) \/ RememberPlug(t)

Time(t) ==
  \/ RejectCapacity(t)
  \/ ForgetCharge(t)
  \/ ConsiderCharge(t)
  \/ BeginCharge(t)
  \/ FollowFall(t)
  \/ TestRise(t)
  \/ Estimate(t)

HandleBatteryInfo(t) == Light(t) \/ Plug(t) \/ Time(t) \/ Record(t)

Next ==
  \/ Tick
  \/ Restart
  \/ InitLight
  \/ \E t \in Thread :
       \/ Enter(t, "compare")
       \/ Enter(t, "light")
       \/ ReturnIfSame(t)
       \/ HandleIfDifferent(t)
       \/ HandleBatteryInfo(t)

Spec == Init /\ [][Next]_vars

-----------------------------------------------------------------------------
(***************************************************************************)
(* What the light must show for a report.                                  *)
(***************************************************************************)
Shows(colour, info) ==
  /\ ~LightsUp(info) => colour = LIGHT_OFF
  /\ LightsUp(info) =>
       \A i \in DOMAIN ParseLightConf :
         FirstRange(i, info.capacity) => colour = Rgb(i)

(***************************************************************************)
(* The light shows what the last handled report asks for, though           *)
(* UpdateColor leaves a light alone that should already show the colour    *)
(* (battery_light.cpp:112): through calls that failed, restarts of the     *)
(* service and lights that come up late.  After threads met, and after the *)
(* light came up, it does so once an undisturbed report has changed it.    *)
(***************************************************************************)
LightFollowsReport ==
  Quiet /\ available /\ "light" \notin unsettled /\ ~refused
    => Shows(shown, lastBatteryInfo)

(***************************************************************************)
(* The remaining charge time (battery_service_test.cpp:775 expects one     *)
(* that is not negative) is that of the charge under way: never more than  *)
(* if each missing percent took as long as the whole charge has lasted,    *)
(* and 0 when the last report is of a battery that is not charging.        *)
(***************************************************************************)
EstimateIsOfThisCharge ==
  Quiet /\ "time" \notin unsettled =>
    /\ remainTime >= 0
    /\ remainTime <= (BATTERY_FULL_CAPACITY - lastCapacity) * chargeAge
    /\ lastBatteryInfo.capacity <= BATTERY_FULL_CAPACITY
         => /\ chargeFlag = IsCharging(lastBatteryInfo)
            /\ ~chargeFlag => remainTime = 0

(***************************************************************************)
(* Whatever the seven thresholds are, in order or not, the level of a      *)
(* capacity is that of the first threshold that is not below it.           *)
(***************************************************************************)
LevelIsFirstThreshold ==
  batteryInfo.capacity >= 0 =>
    \A conf \in ThresholdConfs :
      LET level == GetCapacityLevelInner(conf, batteryInfo.capacity)
      IN  /\ \A j \in 1 .. 7 :
               (j < level \/ level = 0) => conf[j] < batteryInfo.capacity
          /\ level # 0 => batteryInfo.capacity <= conf[level]

-----------------------------------------------------------------------------
(***************************************************************************)
(* The inductive invariant.  Unless threads met, at most one thread is in  *)
(* the handler, and it handles the current batteryInfo_.                   *)
(***************************************************************************)
AloneInv ==
  /\ joined => unsettled = Parts
  /\ \A t, u \in Thread : Alone(t) /\ Busy(u) => t = u
  /\ \A t \in Thread : Alone(t) =>
       /\ pc[t] \in {"off", "offDone", "on", "onDone", "begin", "fall", "rise",
                    "divide"} => local[t] = batteryInfo
       /\ pc[t] = "plug" => local[t].plugged = batteryInfo.plugged

(***************************************************************************)
(* lightColor_ is what the light shows, or black, except between a call    *)
(* on the light and the assignment that follows it.                        *)
(***************************************************************************)
JustCalled(t) == pc[t] \in {"offDone", "onDone"} /\ ok[t]

ColorIsShown ==
  "light" \notin unsettled /\ (\A t \in Thread : ~JustCalled(t))
    => lightColor \in {LIGHT_OFF, shown}

CallsAreDone ==
  \A t \in Thread : Alone(t) =>
    /\ pc[t] \in {"off", "offDone", "on", "onDone"} => available
    /\ pc[t] \in {"on", "onDone"} => LightsUp(local[t])
    /\ pc[t] = "offDone" /\ ok[t] => shown = LIGHT_OFF
    /\ pc[t] = "onDone" /\ ok[t] =>
         \E i \in DOMAIN ParseLightConf :
           FirstRange(i, local[t].capacity) /\ shown = Rgb(i)
    /\ pc[t] \in {"offDone", "onDone"} => refused = ~ok[t]

LightIsFollowed ==
  "light" \notin unsettled /\ available /\ ~refused =>
    /\ Quiet => Shows(shown, lastBatteryInfo)
    /\ \A t \in Thread :
         /\ pc[t] = "compare" => Shows(shown, lastBatteryInfo)
         /\ pc[t] \in {"wake", "plug", "time", "begin", "fall", "rise",
                       "divide", "record"}
              => Shows(shown, batteryInfo)

LightInv == ColorIsShown /\ CallsAreDone /\ LightIsFollowed

(***************************************************************************)
(* The device is woken by an undisturbed thread exactly when a charger     *)
(* came or went since the last handled report.                             *)
(***************************************************************************)
WakesOnPlugChange ==
  \A t \in Thread :
    pc[t] = "plug" /\ "plug" \notin unsettled =>
      (t \in woken <=> IsNowPlugged(batteryInfo.plugged)
                         # IsNowPlugged(lastBatteryInfo.plugged))

PlugIsRemembered ==
  /\ \A t \in Thread : pc[t] # "plug" => t \notin woken
  /\ "plug" \notin unsettled =>
       /\ (Quiet \/ \E t \in Thread :
             pc[t] \in {"compare", "light", "off", "offDone", "on", "onDone",
                        "wake", "plug"})
            => IsNowPlugged(lastPluggedType)
                 = IsNowPlugged(lastBatteryInfo.plugged)
       /\ (\E t \in Thread :
             pc[t] \in {"time", "begin", "fall", "rise", "divide", "record"})
            => IsNowPlugged(lastPluggedType)
                 = IsNowPlugged(batteryInfo.plugged)

(***************************************************************************)
(* The estimate.                                                           *)
(***************************************************************************)
CapacityIsPercent ==
  /\ lastCapacity <= BATTERY_FULL_CAPACITY
  /\ chargeFlag => lastAge <= chargeAge
  /\ \A t \in Thread : pc[t] \in {"begin", "fall", "rise", "divide"}
       => local[t].capacity <= BATTERY_FULL_CAPACITY

ChargeIsFollowed ==
  \A t \in Thread : Alone(t) =>
    /\ pc[t] \in {"begin", "fall", "rise", "divide"} => IsCharging(batteryInfo)
    /\ pc[t] \in {"fall", "rise", "divide"} => chargeFlag
    /\ pc[t] = "divide" => local[t].capacity - lastCapacity >= 1

EstimateIsBounded ==
  "time" \notin unsettled =>
    /\ 0 <= remainTime
    /\ remainTime <= (BATTERY_FULL_CAPACITY - lastCapacity) * chargeAge
    /\ ~chargeFlag => remainTime = 0

FlagIsCurrent ==
  "time" \notin unsettled =>
    /\ (Quiet /\ lastBatteryInfo.capacity <= BATTERY_FULL_CAPACITY)
         => chargeFlag = IsCharging(lastBatteryInfo)
    /\ \A t \in Thread :
         /\ (pc[t] = "compare"
               /\ lastBatteryInfo.capacity <= BATTERY_FULL_CAPACITY)
              => chargeFlag = IsCharging(lastBatteryInfo)
         /\ (pc[t] = "record"
               /\ batteryInfo.capacity <= BATTERY_FULL_CAPACITY)
              => chargeFlag = IsCharging(batteryInfo)

TimeInv ==
  CapacityIsPercent /\ ChargeIsFollowed /\ EstimateIsBounded /\ FlagIsCurrent

IInv ==
  /\ TypeOK /\ AloneInv /\ LightInv
  /\ WakesOnPlugChange /\ PlugIsRemembered /\ TimeInv
=============================================================================
