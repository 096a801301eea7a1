--------------------------- MODULE ChargerThread ---------------------------
(***************************************************************************)
(* Power-off charging: the loop of the charger process                     *)
(* (charger/src/battery_thread.cpp, charger_thread.cpp), which polls the   *)
(* battery's sysfs files, listens for the kernel's uevents, shows the      *)
(* charging animation, and handles the power key.                          *)
(*                                                                         *)
(* The loop waits in epoll_wait, which only a uevent or its timeout ends.  *)
(* The power key does not: another thread, the input monitor, stores it in *)
(* g_keys without any synchronisation, and the loop looks at it whenever   *)
(* it passes by.                                                           *)
(*                                                                         *)
(* Times are relative to the present and saturate where the code no longer *)
(* distinguishes them.  The LED and the vibrator are left out.  DoReboot   *)
(* sends a request to init and returns, so the loop goes on after it.      *)
(***************************************************************************)
EXTENDS Integers

CONSTANTS
  Capacity, Temperature, ChargeState,  \* the battery's readings
  LackPower,          \* lackPowerCapacity_, the configured soc.shutdown
  LowTemp, HighTemp,  \* the configured temperature.low and temperature.high
  RebootTime,         \* REBOOT_TIME
  BacklightOffTime,   \* BACKLIGHT_OFF_TIME_MS
  FastInterval,       \* TIMER_FAST_SEC * SEC_TO_MSEC
  Disturbances,       \* what may happen besides changes of the battery
  NoTime              \* INVALID, as a time

ASSUME ReadingAssumption ==
  /\ Capacity \subseteq Int /\ Temperature \subseteq Int
  /\ ChargeState \subseteq {"NONE", "ENABLE", "DISABLE", "FULL", "RESERVED"}

ASSUME ConfigAssumption ==
  {LackPower, LowTemp, HighTemp} \subseteq Int

ASSUME TimeAssumption ==
  /\ {RebootTime, BacklightOffTime, FastInterval} \subseteq Nat \ {0}
  /\ NoTime \notin Int

ASSUME DisturbancesAssumption ==
  Disturbances \subseteq
    {"key", "readFailure", "lostUevent", "otherUevent", "interrupt"}

VARIABLES
  device,         \* what the sysfs files hold
  uevents,        \* the kinds of uevents in the socket
  isDown, isUp,   \* g_keys[KEY_POWER]
  keyAge,         \* how long ago g_keys[KEY_POWER].timestamp is
  stores,         \* the fields of g_keys the input monitor has yet to store
  heldFor,        \* history: how long the power key has been held
  torn,           \* history: g_keys was read while it was being stored
  pc,             \* the next step of the loop
  started,        \* started_
  capacity,       \* capacity_
  chargeState,    \* chargeState_
  changed,        \* isChargeStateChanged_
  epollInterval,  \* epollInterval_
  remaining,      \* the time that epoll_wait still waits, or -1
  keyWait,        \* keyWait_
  backlightWait,  \* backlightWait_
  turnOnByKeydown,
  screen,         \* screenState_ of the backlight
  shown,          \* what the animation shows
  asked           \* the requests sent with DoReboot

keyVars == <<isDown, isUp, keyAge, stores, heldFor, torn>>
batteryVars == <<capacity, chargeState, changed>>
waitVars == <<epollInterval, remaining>>
screenVars == <<keyWait, backlightWait, turnOnByKeydown, screen, shown>>
worldVars == <<device, uevents>>
vars == <<worldVars, keyVars, pc, started, batteryVars, waitVars, screenVars,
          asked>>

Reading ==
  [capacity: Capacity, temperature: Temperature, chargeState: ChargeState]

Displays == {"animation", "chargingPrompt", "notChargingPrompt"}

TypeOK ==
  /\ device \in Reading
  /\ uevents \subseteq {"power_supply", "other"}
  /\ {isDown, isUp, torn, started, changed, turnOnByKeydown} \subseteq BOOLEAN
  /\ keyAge \in 0 .. RebootTime
  /\ stores \subseteq {"timestamp", "isDown", "isUp"}
  /\ heldFor \in 0 .. RebootTime \cup {NoTime}
  /\ pc \in {"cycle", "charging", "key", "forget", "screen", "choose",
             "wait", "uevent"}
  /\ capacity \in Capacity \cup {-1}
  /\ chargeState \in ChargeState \cup {"RESERVED"}
  /\ epollInterval \in {-1, FastInterval}
  /\ remaining \in Nat \cup {-1}
  /\ keyWait \in -1 .. RebootTime \cup {NoTime}
  /\ backlightWait \in -(BacklightOffTime + 1) .. -1 \cup {NoTime}
  /\ screen \in {"on", "off"}
  /\ shown \subseteq Displays
  /\ asked \subseteq {"shutdown", "reboot"}

(***************************************************************************)
(* After ChargerThread::Init: the screen was turned on, nothing is shown.  *)
(***************************************************************************)
Init ==
  /\ device \in Reading
  /\ uevents = {}
  /\ isDown = FALSE /\ isUp = FALSE
  /\ keyAge = RebootTime
  /\ stores = {}
  /\ heldFor = NoTime
  /\ torn = FALSE
  /\ pc = "cycle"
  /\ started = FALSE
  /\ capacity = -1
  /\ chargeState = "RESERVED"
  /\ changed = FALSE
  /\ epollInterval = -1
  /\ remaining = -1
  /\ keyWait = NoTime
  /\ backlightWait = NoTime
  /\ turnOnByKeydown = FALSE
  /\ screen = "on"
  /\ shown = {}
  /\ asked = {}

Known(state) == state \notin {"NONE", "RESERVED"}

Goto(from, to) == pc = from /\ pc' = to

-----------------------------------------------------------------------------
(***************************************************************************)
(* The battery, the kernel, the passing of time.                           *)
(***************************************************************************)
DeviceChanges ==
  /\ device' \in Reading \ {device}
  /\ uevents' = uevents \cup {"power_supply"}
  /\ UNCHANGED <<keyVars, pc, started, batteryVars, waitVars, screenVars,
                 asked>>

OtherUevent ==
  /\ "otherUevent" \in Disturbances
  /\ uevents' = uevents \cup {"other"}
  /\ UNCHANGED <<device, keyVars, pc, started, batteryVars, waitVars,
                 screenVars, asked>>

(***************************************************************************)
(* A moment that comes nearer or lies further back, and a duration.        *)
(***************************************************************************)
Older(time, oldest) ==
  IF time \in {NoTime, oldest} THEN time ELSE time - 1

Longer(time) == IF time \in {NoTime, RebootTime} THEN time ELSE time + 1

(***************************************************************************)
(* Time passes while the loop waits, until its timeout, and while it polls *)
(* the files.  The rest of a pass takes milliseconds, far less than any of *)
(* the times the code compares.                                            *)
(***************************************************************************)
Tick ==
  /\ pc = "cycle" \/ (pc = "wait" /\ remaining # 0)
  /\ keyAge' = Longer(keyAge)
  /\ heldFor' = Longer(heldFor)
  /\ keyWait' = Older(keyWait, -1)
  /\ backlightWait' = Older(backlightWait, -(BacklightOffTime + 1))
  /\ remaining' = IF remaining > 0 THEN remaining - 1 ELSE remaining
  /\ UNCHANGED <<worldVars, isDown, isUp, stores, torn, pc, started,
                 batteryVars, epollInterval, turnOnByKeydown, screen, shown,
                 asked>>

-----------------------------------------------------------------------------
(***************************************************************************)
(* ChargerThreadInputMonitor::SetKeyState, in the input monitor's thread.  *)
(* Its stores to g_keys may become visible to the loop in any order.       *)
(***************************************************************************)
KeyEvent(down) ==
  /\ "key" \in Disturbances
  /\ stores = {}
  /\ isDown # down
  /\ heldFor' = IF down THEN 0 ELSE NoTime
  /\ UNCHANGED <<worldVars, isDown, isUp, keyAge, torn, pc, started,
                 batteryVars, waitVars, screenVars, asked>>

(***************************************************************************)
(* With a bug: the time of a press is not stored.                          *)
(***************************************************************************)
PressWithoutTime ==
  /\ KeyEvent(TRUE)
  /\ stores' = {"isDown", "isUp"}

PressKey ==
  /\ KeyEvent(TRUE)
  /\ stores' = {"timestamp", "isDown", "isUp"}

ReleaseKey ==
  /\ KeyEvent(FALSE)
  /\ stores' = {"isDown", "isUp"}

StoreKeyState ==
  /\ \E field \in stores :
       /\ stores' = stores \ {field}
       /\ isDown' = IF field = "isDown" THEN ~isDown ELSE isDown
       /\ isUp' = (field = "isUp" \/ isUp)
       /\ keyAge' = IF field = "timestamp" THEN heldFor ELSE keyAge
  /\ UNCHANGED <<worldVars, heldFor, torn, pc, started, batteryVars, waitVars,
                 screenVars, asked>>

ReadKeys ==
  /\ torn' = (torn \/ stores # {})
  /\ UNCHANGED <<isDown, keyAge, stores, heldFor>>

-----------------------------------------------------------------------------
(***************************************************************************)
(* With a bug: the animation starts over a prompt that is still shown.     *)
(***************************************************************************)
AnimationOverPrompt(state, soc) ==
  IF soc <= LackPower /\ state = "ENABLE" THEN {"chargingPrompt"}
  ELSE IF soc <= LackPower /\ state = "DISABLE" THEN {"notChargingPrompt"}
  ELSE IF soc > LackPower /\ state \in {"ENABLE", "FULL"}
       THEN shown \cup {"animation"}
  ELSE shown

(***************************************************************************)
(* UpdateAnimation: what is shown instead of what was shown.  A lack of    *)
(* power with a full battery, and a charger that does not charge a battery *)
(* that does not lack power, change nothing.                               *)
(***************************************************************************)
UpdateAnimation(state, soc) ==
  IF soc <= LackPower /\ state = "ENABLE" THEN {"chargingPrompt"}
  ELSE IF soc <= LackPower /\ state = "DISABLE" THEN {"notChargingPrompt"}
  ELSE IF soc > LackPower /\ state \in {"ENABLE", "FULL"} THEN {"animation"}
  ELSE shown

(***************************************************************************)
(* HandleTemperature and HandleCapacity.                                   *)
(***************************************************************************)
OutOfRange(temperature) ==
  /\ LowTemp # HighTemp
  /\ temperature <= LowTemp \/ temperature >= HighTemp

NotCharging(state, soc) ==
  soc > LackPower /\ state \in {"DISABLE", "NONE"}

(***************************************************************************)
(* UpdateBatteryInfo.  A file that cannot be read leaves the member, or    *)
(* the temperature 0, as it was.                                           *)
(***************************************************************************)
Read(value, old) ==
  IF "readFailure" \in Disturbances THEN {value, old} ELSE {value}

UpdateBatteryInfo ==
  \E temperature \in Read(device.temperature, 0) :
    /\ capacity' \in Read(device.capacity, capacity)
    /\ chargeState' \in Read(device.chargeState, chargeState)
    /\ changed' = (chargeState' # chargeState)
    /\ asked' =
         IF OutOfRange(temperature) \/ NotCharging(chargeState', capacity')
         THEN asked \cup {"shutdown"} ELSE asked
    /\ shown' = IF screen = "on" THEN UpdateAnimation(chargeState', capacity')
                                 ELSE shown

(***************************************************************************)
(* With a bug: the interval is fast for the wrong charge states.           *)
(***************************************************************************)
FastWhenUnknown(state) == IF Known(state) THEN -1 ELSE FastInterval

UpdateEpollInterval(state) == IF Known(state) THEN FastInterval ELSE -1

(***************************************************************************)
(* CycleMatters, when epoll_wait returned without an event.                *)
(***************************************************************************)
CycleMatters ==
  /\ Goto("cycle", "charging")
  /\ started' = TRUE
  /\ backlightWait' = IF started THEN backlightWait ELSE -1
  /\ UpdateBatteryInfo
  /\ epollInterval' = UpdateEpollInterval(chargeState')
  /\ UNCHANGED <<worldVars, keyVars, remaining, keyWait, turnOnByKeydown,
                 screen>>

-----------------------------------------------------------------------------
(***************************************************************************)
(* With a bug: the screen is turned on whether the state changed or not.   *)
(***************************************************************************)
TurnOnWhenKnown ==
  /\ Goto("charging", "key")
  /\ IF Known(chargeState)
     THEN /\ screen' = "on"
          /\ backlightWait' = -1
          /\ shown' = UpdateAnimation(chargeState, capacity)
          /\ changed' = FALSE
     ELSE UNCHANGED <<screen, backlightWait, shown, changed>>
  /\ UNCHANGED <<worldVars, keyVars, started, capacity, chargeState, waitVars,
                 keyWait, turnOnByKeydown, asked>>

HandleChargingState ==
  /\ Goto("charging", "key")
  /\ IF Known(chargeState) /\ changed
     THEN /\ screen' = "on"
          /\ backlightWait' = -1
          /\ shown' = UpdateAnimation(chargeState, capacity)
          /\ changed' = FALSE
     ELSE UNCHANGED <<screen, backlightWait, shown, changed>>
  /\ UNCHANGED <<worldVars, keyVars, started, capacity, chargeState, waitVars,
                 keyWait, turnOnByKeydown, asked>>

(***************************************************************************)
(* HandlePowerKeyState and HandlePowerKey, by what g_keys says: the key is *)
(* held long, held and the screen is dark, held and the screen is lit, was *)
(* released, or was not touched.  keyWait_ expires at the end.             *)
(***************************************************************************)
Unexpired(moment) == IF moment # NoTime /\ moment < 0 THEN NoTime ELSE moment

SetKeyWait(moment) ==
  IF keyWait = NoTime \/ moment < keyWait THEN moment ELSE keyWait

RebootByKey ==
  /\ Goto("key", "screen")
  /\ isDown /\ keyAge >= RebootTime
  /\ screen' = "off"
  /\ asked' = asked \cup {"reboot"}
  /\ keyWait' = Unexpired(keyWait)
  /\ ReadKeys
  /\ UNCHANGED <<worldVars, isUp, started, batteryVars, waitVars,
                 backlightWait, turnOnByKeydown, shown>>

(***************************************************************************)
(* With a bug: the key turns the screen on without starting its timeout.   *)
(***************************************************************************)
TurnOnWithoutTimeout ==
  /\ Goto("key", "screen")
  /\ isDown /\ keyAge < RebootTime /\ screen = "off"
  /\ keyWait' = RebootTime - keyAge
  /\ screen' = "on"
  /\ shown' = UpdateAnimation(chargeState, capacity)
  /\ turnOnByKeydown' = TRUE
  /\ ReadKeys
  /\ UNCHANGED <<worldVars, isUp, started, batteryVars, waitVars,
                 backlightWait, asked>>

TurnOnByKeydown ==
  /\ Goto("key", "screen")
  /\ isDown /\ keyAge < RebootTime /\ screen = "off"
  /\ keyWait' = Unexpired(SetKeyWait(RebootTime - keyAge))
  /\ screen' = "on"
  /\ shown' = UpdateAnimation(chargeState, capacity)
  /\ backlightWait' = -1
  /\ turnOnByKeydown' = TRUE
  /\ ReadKeys
  /\ UNCHANGED <<worldVars, isUp, started, batteryVars, waitVars, asked>>

PassKey ==
  /\ Goto("key", "screen")
  /\ IF isDown THEN keyAge < RebootTime /\ screen = "on" ELSE ~isUp
  /\ keyWait' = Unexpired(keyWait)
  /\ ReadKeys
  /\ UNCHANGED <<worldVars, isUp, started, batteryVars, waitVars,
                 backlightWait, turnOnByKeydown, screen, shown, asked>>

HandleKeyUp ==
  /\ Goto("key", "forget")
  /\ ~isDown /\ isUp
  /\ IF screen = "on" /\ ~turnOnByKeydown
     THEN screen' = "off" /\ backlightWait' = NoTime /\ shown' = {}
     ELSE /\ screen' = "on"
          /\ backlightWait' = -1
          /\ shown' = UpdateAnimation(chargeState, capacity)
  /\ ReadKeys
  /\ UNCHANGED <<worldVars, isUp, started, batteryVars, waitVars, keyWait,
                 turnOnByKeydown, asked>>

ForgetKeyUp ==
  /\ Goto("forget", "screen")
  /\ isUp' = FALSE
  /\ turnOnByKeydown' = FALSE
  /\ keyWait' = Unexpired(keyWait)
  /\ ReadKeys
  /\ UNCHANGED <<worldVars, started, batteryVars, waitVars, backlightWait,
                 screen, shown, asked>>

HandleScreenState ==
  /\ Goto("screen", "choose")
  /\ IF backlightWait # NoTime /\ backlightWait + BacklightOffTime < 0
     THEN screen' = "off" /\ backlightWait' = NoTime /\ shown' = {}
     ELSE UNCHANGED <<screen, backlightWait, shown>>
  /\ UNCHANGED <<worldVars, keyVars, started, batteryVars, waitVars, keyWait,
                 turnOnByKeydown, asked>>

-----------------------------------------------------------------------------
NextWait ==
  IF keyWait # NoTime /\ (backlightWait = NoTime \/ keyWait < backlightWait)
  THEN keyWait ELSE backlightWait

(***************************************************************************)
(* UpdateWaitInterval, and how LoopingThreadEntry chooses its timeout.     *)
(* backlightWait_ is the moment the screen was turned on, always past.     *)
(***************************************************************************)
UpdateWaitInterval ==
  IF NextWait = NoTime THEN -1 ELSE IF NextWait > 0 THEN NextWait ELSE 0

ChooseTimeout ==
  /\ Goto("choose", "wait")
  /\ LET wait == UpdateWaitInterval IN
       remaining' = IF epollInterval < 0 \/ (wait > 0 /\ wait < epollInterval)
                    THEN wait ELSE epollInterval
  /\ UNCHANGED <<worldVars, keyVars, started, batteryVars, epollInterval,
                 screenVars, asked>>

(***************************************************************************)
(* epoll_wait returns: without an event, with one, or interrupted.         *)
(***************************************************************************)
WaitEnds(to) ==
  /\ Goto("wait", to)
  /\ remaining' = -1
  /\ UNCHANGED <<worldVars, keyVars, started, batteryVars, epollInterval,
                 screenVars, asked>>

WaitTimesOut == remaining = 0 /\ WaitEnds("cycle")

WaitFindsEvent == uevents # {} /\ WaitEnds("uevent")

WaitInterrupted == "interrupt" \in Disturbances /\ WaitEnds("charging")

(***************************************************************************)
(* UeventCallback.  A message that is too long is not looked at.           *)
(***************************************************************************)
HandleUevent ==
  /\ Goto("uevent", "charging")
  /\ "power_supply" \in uevents
  /\ uevents' = uevents \ {"power_supply"}
  /\ UpdateBatteryInfo
  /\ UNCHANGED <<device, keyVars, started, waitVars, keyWait, backlightWait,
                 turnOnByKeydown, screen>>

IgnoreUevent ==
  /\ Goto("uevent", "charging")
  /\ \E kind \in uevents :
       /\ kind = "other" \/ "lostUevent" \in Disturbances
       /\ uevents' = uevents \ {kind}
  /\ UNCHANGED <<device, keyVars, started, batteryVars, waitVars, screenVars,
                 asked>>

-----------------------------------------------------------------------------
LoopStep ==
  \/ CycleMatters
  \/ HandleChargingState
  \/ RebootByKey
  \/ TurnOnByKeydown
  \/ PassKey
  \/ HandleKeyUp
  \/ ForgetKeyUp
  \/ HandleScreenState
  \/ ChooseTimeout
  \/ WaitTimesOut
  \/ WaitFindsEvent
  \/ WaitInterrupted
  \/ HandleUevent
  \/ IgnoreUevent

Next ==
  \/ DeviceChanges
  \/ OtherUevent
  \/ Tick
  \/ PressKey
  \/ ReleaseKey
  \/ StoreKeyState
  \/ LoopStep

Spec == Init /\ [][Next]_vars

(***************************************************************************)
(* The loop runs, time passes, and the input monitor ends its stores.  A   *)
(* loop that polls without waiting must not keep time from passing.        *)
(***************************************************************************)
FairSpec ==
  Spec /\ WF_vars(LoopStep) /\ SF_vars(Tick) /\ WF_vars(StoreKeyState)

-----------------------------------------------------------------------------
Waiting == pc = "wait"

(***************************************************************************)
(* When the loop waits with the screen on, the time at which it turns the  *)
(* screen off is set; whatever turned the screen on started that time.     *)
(***************************************************************************)
ScreenIsTimed == Waiting /\ screen = "on" => backlightWait # NoTime

(***************************************************************************)
(* When the loop waits, a lit screen shows what UpdateAnimation makes of   *)
(* the last state and capacity that were read, and nothing besides, and a  *)
(* dark screen shows nothing unless a reboot was asked for.                *)
(***************************************************************************)
DisplayIsCurrent ==
  Waiting =>
    /\ screen = "on" /\ Known(chargeState)
         => shown = UpdateAnimation(chargeState, capacity)
    /\ screen = "off" /\ "reboot" \notin asked => shown = {}
    /\ \A d, e \in shown : d = e

(***************************************************************************)
(* The device is rebooted only while the power key has been held for       *)
(* RebootTime, unless g_keys was ever read while it was being stored.      *)
(***************************************************************************)
HeldBeforeReboot ==
  [][("reboot" \in asked' \ asked /\ ~torn')
       => heldFor # NoTime /\ heldFor >= RebootTime]_asked

(***************************************************************************)
(* Who holds the power key gets a reboot, while the charge state is known: *)
(* the key does not wake the loop, so the loop must not wait forever.      *)
(***************************************************************************)
HeldKeyReboots ==
  ([]Known(device.chargeState) /\ <>[](heldFor # NoTime))
    => <>("reboot" \in asked)

(***************************************************************************)
(* If nobody touches the power key and the charge state stays as it is,    *)
(* the screen goes dark and stays so.                                      *)
(***************************************************************************)
ScreenTurnsOff ==
  (/\ <>[](stores = {} /\ heldFor = NoTime)
   /\ <>[][device'.chargeState = device.chargeState]_device)
    => <>[](screen = "off")

(***************************************************************************)
(* If nobody ever touches the power key, a battery whose charge state      *)
(* becomes known is read again and again, although a change of the state   *)
(* does not update the interval of a loop that waits for uevents only: the *)
(* screen that it lights ends the wait that would have no end.             *)
(***************************************************************************)
BatteryStaysWatched ==
  ([](heldFor = NoTime) /\ <>[]Known(device.chargeState))
    => []<>(pc \in {"cycle", "uevent"})

-----------------------------------------------------------------------------
(***************************************************************************)
(* The inductive invariant.  Whatever is yet to be stored, g_keys follows  *)
(* the key; the other parts hold at every step of the loop, not only when  *)
(* it waits.                                                               *)
(***************************************************************************)
KeysFollow ==
  /\ isDown <=> ("isDown" \in stores <=> heldFor = NoTime)
  /\ "timestamp" \in stores => heldFor # NoTime
  /\ heldFor # NoTime /\ "timestamp" \notin stores => keyAge <= heldFor

ScreenFollows ==
  /\ pc # "cycle" => started
  /\ started /\ screen = "on" => backlightWait # NoTime

DisplayFollows ==
  /\ screen = "on" /\ Known(chargeState)
       => shown = UpdateAnimation(chargeState, capacity)
  /\ screen = "off" /\ "reboot" \notin asked => shown = {}
  /\ \A d, e \in shown : d = e

IInv == TypeOK /\ KeysFollow /\ ScreenFollows /\ DisplayFollows
=============================================================================
