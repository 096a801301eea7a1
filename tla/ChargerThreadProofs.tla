------------------------ MODULE ChargerThreadProofs ------------------------
(***************************************************************************)
(* The screen, the display and the reboot of ChargerThread, for all times, *)
(* capacities, temperatures and configurations.                            *)
(***************************************************************************)
EXTENDS ChargerThread, TLAPS

(***************************************************************************)
(* The times are numbers, and none of them is INVALID.                     *)
(***************************************************************************)
LEMMA Times ==
  /\ RebootTime \in Nat /\ RebootTime > 0
  /\ BacklightOffTime \in Nat /\ BacklightOffTime > 0
  /\ FastInterval \in Nat /\ FastInterval > 0
  /\ \A n \in Int : n # NoTime
BY TimeAssumption

(***************************************************************************)
(* Whatever UpdateAnimation shows is one of the displays.                  *)
(***************************************************************************)
LEMMA AnimationIsDisplay ==
  ASSUME shown \subseteq Displays, NEW state, NEW soc
  PROVE  UpdateAnimation(state, soc) \subseteq Displays
BY DEF UpdateAnimation, Displays

(***************************************************************************)
(* The initial states satisfy the inductive invariant.                     *)
(***************************************************************************)
LEMMA InvInit == Init => IInv
<1> SUFFICES ASSUME Init PROVE IInv
  OBVIOUS
<1> USE DEF Init
<1>1. {isDown, isUp, torn, started, changed, turnOnByKeydown} \subseteq BOOLEAN
  OBVIOUS
<1>2. keyAge \in 0 .. RebootTime
  BY Times
<1>3. /\ chargeState \in ChargeState \cup {"RESERVED"}
      /\ epollInterval \in {-1, FastInterval}
      /\ remaining \in Nat \cup {-1}
  OBVIOUS
<1>4. TypeOK
  BY <1>1, <1>2, <1>3 DEF TypeOK
<1>5. KeysFollow /\ ScreenFollows /\ DisplayFollows
  BY DEF KeysFollow, ScreenFollows, DisplayFollows, Known
<1>. QED
  BY <1>4, <1>5 DEF IInv

(***************************************************************************)
(* Every step keeps the types.                                             *)
(***************************************************************************)
LEMMA TypeNext == TypeOK /\ KeysFollow /\ [Next]_vars => TypeOK'
<1> SUFFICES ASSUME TypeOK, KeysFollow, [Next]_vars PROVE TypeOK'
  OBVIOUS
<1> USE DEF TypeOK, worldVars, keyVars, batteryVars, waitVars,
           screenVars
<1>1. CASE DeviceChanges
  BY <1>1 DEF DeviceChanges
<1>2. CASE OtherUevent
  BY <1>2 DEF OtherUevent
<1>3. CASE Tick
  BY <1>3, Times DEF Tick, Older, Longer
<1>4. CASE PressKey
  BY <1>4, Times DEF PressKey, KeyEvent
<1>5. CASE ReleaseKey
  BY <1>5 DEF ReleaseKey, KeyEvent
<1>6. CASE StoreKeyState
  <2>. PICK field \in stores :
         /\ stores' = stores \ {field}
         /\ isDown' = IF field = "isDown" THEN ~isDown ELSE isDown
         /\ isUp' = (field = "isUp" \/ isUp)
         /\ keyAge' = IF field = "timestamp" THEN heldFor ELSE keyAge
    BY <1>6 DEF StoreKeyState
  <2>1. keyAge' \in 0 .. RebootTime /\ stores' \subseteq stores
    BY DEF KeysFollow
  <2>2. isDown' \in BOOLEAN /\ isUp' \in BOOLEAN
    OBVIOUS
  <2>. QED
    BY <1>6, <2>1, <2>2 DEF StoreKeyState
<1>7. CASE CycleMatters
  BY <1>7, Times, AnimationIsDisplay DEF CycleMatters, Goto,
      UpdateBatteryInfo, Read, UpdateEpollInterval, Reading
<1>8. CASE HandleChargingState
  <2>1. CASE Known(chargeState) /\ changed
    <3>1. backlightWait' = -1 /\ shown' \subseteq Displays
      BY <1>8, <2>1, AnimationIsDisplay DEF HandleChargingState
    <3>2. -1 \in -(BacklightOffTime + 1) .. -1
      BY Times
    <3>3. changed' \in BOOLEAN
      BY <1>8, <2>1 DEF HandleChargingState
    <3>. QED
      BY <1>8, <2>1, <3>1, <3>2, <3>3 DEF HandleChargingState, Goto
  <2>2. CASE ~(Known(chargeState) /\ changed)
    BY <1>8, <2>2 DEF HandleChargingState, Goto
  <2>. QED
    BY <2>1, <2>2
<1>9. CASE RebootByKey
  BY <1>9, Times DEF RebootByKey, Goto, Unexpired, ReadKeys
<1>10. CASE TurnOnByKeydown
  BY <1>10, Times, AnimationIsDisplay
     DEF TurnOnByKeydown, Goto, SetKeyWait, Unexpired,
      ReadKeys
<1>11. CASE PassKey
  BY <1>11, Times DEF PassKey, Goto, Unexpired, ReadKeys
<1>12. CASE HandleKeyUp
  BY <1>12, Times, AnimationIsDisplay DEF HandleKeyUp, Goto, ReadKeys
<1>13. CASE ForgetKeyUp
  BY <1>13, Times DEF ForgetKeyUp, Goto, Unexpired, ReadKeys
<1>14. CASE HandleScreenState
  BY <1>14 DEF HandleScreenState, Goto
<1>15. CASE ChooseTimeout
  BY <1>15, Times DEF ChooseTimeout, Goto, UpdateWaitInterval, NextWait
<1>16. CASE WaitTimesOut
  BY <1>16 DEF WaitTimesOut, WaitEnds, Goto
<1>17. CASE WaitFindsEvent
  BY <1>17 DEF WaitFindsEvent, WaitEnds, Goto
<1>18. CASE WaitInterrupted
  BY <1>18 DEF WaitInterrupted, WaitEnds, Goto
<1>19. CASE HandleUevent
  BY <1>19, AnimationIsDisplay DEF HandleUevent, Goto, UpdateBatteryInfo,
      Read, Reading
<1>20. CASE IgnoreUevent
  BY <1>20 DEF IgnoreUevent, Goto
<1>21. CASE UNCHANGED vars
  BY <1>21 DEF vars
<1>. QED
  BY <1>1, <1>2, <1>3, <1>4, <1>5, <1>6, <1>7, <1>8, <1>9, <1>10, <1>11,
     <1>12, <1>13, <1>14, <1>15, <1>16, <1>17, <1>18, <1>19, <1>20, <1>21
  DEF Next, LoopStep

(***************************************************************************)
(* Every step of the loop and of the input monitor keeps g_keys in         *)
(* agreement with the key.                                                 *)
(***************************************************************************)
LEMMA KeysNext == TypeOK /\ KeysFollow /\ [Next]_vars => KeysFollow'
<1> SUFFICES ASSUME TypeOK, KeysFollow, [Next]_vars PROVE KeysFollow'
  OBVIOUS
<1> USE DEF TypeOK, KeysFollow, worldVars, keyVars, batteryVars, waitVars,
           screenVars
<1>1. CASE DeviceChanges
  BY <1>1 DEF DeviceChanges
<1>2. CASE OtherUevent
  BY <1>2 DEF OtherUevent
<1>3. CASE Tick
  BY <1>3, Times DEF Tick, Older, Longer
<1>4. CASE PressKey
  <2>1. ~isDown
    BY <1>4 DEF PressKey, KeyEvent
  <2>2. ~isDown'
    BY <1>4, <2>1 DEF PressKey, KeyEvent
  <2>3. "isDown" \in stores' /\ "timestamp" \in stores'
    BY <1>4 DEF PressKey
  <2>4. heldFor' = 0 /\ heldFor' # NoTime
    BY <1>4, Times DEF PressKey, KeyEvent
  <2>. QED
    BY <2>2, <2>3, <2>4
<1>5. CASE ReleaseKey
  BY <1>5, Times DEF ReleaseKey, KeyEvent
<1>6. CASE StoreKeyState
  <2>. PICK field \in stores :
         /\ stores' = stores \ {field}
         /\ isDown' = IF field = "isDown" THEN ~isDown ELSE isDown
         /\ keyAge' = IF field = "timestamp" THEN heldFor ELSE keyAge
    BY <1>6 DEF StoreKeyState
  <2>1. heldFor' = heldFor
    BY <1>6 DEF StoreKeyState
  <2>2. (isDown <=> ("isDown" \in stores <=> heldFor = NoTime))'
    BY <2>1
  <2>3. ("timestamp" \in stores => heldFor # NoTime)'
    BY <2>1
  <2>4. (heldFor # NoTime /\ "timestamp" \notin stores => keyAge <= heldFor)'
    BY <2>1, Times
  <2>. QED
    BY <2>2, <2>3, <2>4
<1>7. CASE CycleMatters
  BY <1>7 DEF CycleMatters, Goto, UpdateBatteryInfo, Read, UpdateEpollInterval
<1>8. CASE HandleChargingState
  BY <1>8 DEF HandleChargingState, Goto
<1>9. CASE RebootByKey
  BY <1>9 DEF RebootByKey, Goto, Unexpired, ReadKeys
<1>10. CASE TurnOnByKeydown
  BY <1>10 DEF TurnOnByKeydown, Goto, ReadKeys
<1>11. CASE PassKey
  BY <1>11 DEF PassKey, Goto, Unexpired, ReadKeys
<1>12. CASE HandleKeyUp
  BY <1>12 DEF HandleKeyUp, Goto, ReadKeys
<1>13. CASE ForgetKeyUp
  BY <1>13 DEF ForgetKeyUp, Goto, Unexpired, ReadKeys
<1>14. CASE HandleScreenState
  BY <1>14 DEF HandleScreenState, Goto
<1>15. CASE ChooseTimeout
  BY <1>15 DEF ChooseTimeout, Goto, UpdateWaitInterval, NextWait
<1>16. CASE WaitTimesOut
  BY <1>16 DEF WaitTimesOut, WaitEnds, Goto
<1>17. CASE WaitFindsEvent
  BY <1>17 DEF WaitFindsEvent, WaitEnds, Goto
<1>18. CASE WaitInterrupted
  BY <1>18 DEF WaitInterrupted, WaitEnds, Goto
<1>19. CASE HandleUevent
  BY <1>19 DEF HandleUevent, Goto, UpdateBatteryInfo, Read
<1>20. CASE IgnoreUevent
  BY <1>20 DEF IgnoreUevent, Goto
<1>21. CASE UNCHANGED vars
  BY <1>21 DEF vars
<1>. QED
  BY <1>1, <1>2, <1>3, <1>4, <1>5, <1>6, <1>7, <1>8, <1>9, <1>10, <1>11,
     <1>12, <1>13, <1>14, <1>15, <1>16, <1>17, <1>18, <1>19, <1>20, <1>21
  DEF Next, LoopStep

(***************************************************************************)
(* Every step that turns the screen on sets the time to turn it off.       *)
(***************************************************************************)
LEMMA ScreenNext == TypeOK /\ ScreenFollows /\ [Next]_vars => ScreenFollows'
<1> SUFFICES ASSUME TypeOK, ScreenFollows, [Next]_vars PROVE ScreenFollows'
  OBVIOUS
<1> USE DEF TypeOK, ScreenFollows, worldVars, keyVars, batteryVars, waitVars,
           screenVars
<1>1. CASE DeviceChanges
  BY <1>1 DEF DeviceChanges
<1>2. CASE OtherUevent
  BY <1>2 DEF OtherUevent
<1>3. CASE Tick
  BY <1>3, Times DEF Tick, Older, Longer
<1>4. CASE PressKey
  BY <1>4 DEF PressKey, KeyEvent
<1>5. CASE ReleaseKey
  BY <1>5 DEF ReleaseKey, KeyEvent
<1>6. CASE StoreKeyState
  BY <1>6 DEF StoreKeyState
<1>7. CASE CycleMatters
  BY <1>7, Times DEF CycleMatters, Goto, UpdateBatteryInfo, Read,
      UpdateEpollInterval
<1>8. CASE HandleChargingState
  BY <1>8, Times DEF HandleChargingState, Goto
<1>9. CASE RebootByKey
  BY <1>9 DEF RebootByKey, Goto, Unexpired, ReadKeys
<1>10. CASE TurnOnByKeydown
  BY <1>10, Times DEF TurnOnByKeydown, Goto, ReadKeys
<1>11. CASE PassKey
  BY <1>11 DEF PassKey, Goto, Unexpired, ReadKeys
<1>12. CASE HandleKeyUp
  BY <1>12, Times DEF HandleKeyUp, Goto, ReadKeys
<1>13. CASE ForgetKeyUp
  BY <1>13 DEF ForgetKeyUp, Goto, Unexpired, ReadKeys
<1>14. CASE HandleScreenState
  BY <1>14 DEF HandleScreenState, Goto
<1>15. CASE ChooseTimeout
  BY <1>15 DEF ChooseTimeout, Goto, UpdateWaitInterval, NextWait
<1>16. CASE WaitTimesOut
  BY <1>16 DEF WaitTimesOut, WaitEnds, Goto
<1>17. CASE WaitFindsEvent
  BY <1>17 DEF WaitFindsEvent, WaitEnds, Goto
<1>18. CASE WaitInterrupted
  BY <1>18 DEF WaitInterrupted, WaitEnds, Goto
<1>19. CASE HandleUevent
  BY <1>19 DEF HandleUevent, Goto, UpdateBatteryInfo, Read
<1>20. CASE IgnoreUevent
  BY <1>20 DEF IgnoreUevent, Goto
<1>21. CASE UNCHANGED vars
  BY <1>21 DEF vars
<1>. QED
  BY <1>1, <1>2, <1>3, <1>4, <1>5, <1>6, <1>7, <1>8, <1>9, <1>10, <1>11,
     <1>12, <1>13, <1>14, <1>15, <1>16, <1>17, <1>18, <1>19, <1>20, <1>21
  DEF Next, LoopStep

(***************************************************************************)
(* Three ways to keep the display in agreement with what was read: touch   *)
(* neither, show what UpdateAnimation says, or show nothing in the dark.   *)
(***************************************************************************)
LEMMA DisplayFrame ==
  DisplayFollows /\ UNCHANGED <<chargeState, capacity, screen, shown, asked>>
    => DisplayFollows'
BY DEF DisplayFollows, UpdateAnimation

LEMMA AnimationSettles ==
  ASSUME DisplayFollows, screen' = "on",
         shown' = UpdateAnimation(chargeState', capacity')
  PROVE  DisplayFollows'
BY DEF DisplayFollows, UpdateAnimation

LEMMA ScreenDarkens ==
  ASSUME screen' = "off", shown' = {}
  PROVE  DisplayFollows'
BY DEF DisplayFollows

(***************************************************************************)
(* Every step of the loop is one of the three, or the reboot.              *)
(***************************************************************************)
LEMMA DisplayNext == TypeOK /\ DisplayFollows /\ [Next]_vars => DisplayFollows'
<1> SUFFICES ASSUME TypeOK, DisplayFollows, [Next]_vars PROVE DisplayFollows'
  OBVIOUS
<1> USE DEF worldVars, keyVars, batteryVars, waitVars, screenVars
<1>1. CASE DeviceChanges
  BY <1>1, DisplayFrame DEF DeviceChanges
<1>2. CASE OtherUevent
  BY <1>2, DisplayFrame DEF OtherUevent
<1>3. CASE Tick
  BY <1>3, DisplayFrame DEF Tick
<1>4. CASE PressKey
  BY <1>4, DisplayFrame DEF PressKey, KeyEvent
<1>5. CASE ReleaseKey
  BY <1>5, DisplayFrame DEF ReleaseKey, KeyEvent
<1>6. CASE StoreKeyState
  BY <1>6, DisplayFrame DEF StoreKeyState
<1>7. CASE CycleMatters
  <2>1. /\ screen' = screen
        /\ shown' = IF screen = "on"
                    THEN UpdateAnimation(chargeState', capacity') ELSE shown
        /\ "reboot" \in asked' <=> "reboot" \in asked
    BY <1>7 DEF CycleMatters, UpdateBatteryInfo
  <2>2. CASE screen = "on"
    BY <2>1, <2>2, AnimationSettles
  <2>3. CASE screen = "off"
    BY <2>1, <2>3 DEF DisplayFollows
  <2>. QED
    BY <2>2, <2>3 DEF TypeOK
<1>8. CASE HandleChargingState
  <2>1. CASE Known(chargeState) /\ changed
    BY <1>8, <2>1, AnimationSettles DEF HandleChargingState
  <2>2. CASE ~(Known(chargeState) /\ changed)
    BY <1>8, <2>2, DisplayFrame DEF HandleChargingState
  <2>. QED
    BY <2>1, <2>2
<1>9. CASE RebootByKey
  BY <1>9 DEF RebootByKey, DisplayFollows
<1>10. CASE TurnOnByKeydown
  BY <1>10, AnimationSettles DEF TurnOnByKeydown
<1>11. CASE PassKey
  BY <1>11, DisplayFrame DEF PassKey
<1>12. CASE HandleKeyUp
  <2>1. CASE screen = "on" /\ ~turnOnByKeydown
    BY <1>12, <2>1, ScreenDarkens DEF HandleKeyUp
  <2>2. CASE ~(screen = "on" /\ ~turnOnByKeydown)
    BY <1>12, <2>2, AnimationSettles DEF HandleKeyUp
  <2>. QED
    BY <2>1, <2>2
<1>13. CASE ForgetKeyUp
  BY <1>13, DisplayFrame DEF ForgetKeyUp
<1>14. CASE HandleScreenState
  <2>1. CASE backlightWait # NoTime /\ backlightWait + BacklightOffTime < 0
    BY <1>14, <2>1, ScreenDarkens DEF HandleScreenState
  <2>2. CASE ~(backlightWait # NoTime /\ backlightWait + BacklightOffTime < 0)
    BY <1>14, <2>2, DisplayFrame DEF HandleScreenState
  <2>. QED
    BY <2>1, <2>2
<1>15. CASE ChooseTimeout
  BY <1>15, DisplayFrame DEF ChooseTimeout
<1>16. CASE WaitTimesOut
  BY <1>16, DisplayFrame DEF WaitTimesOut, WaitEnds
<1>17. CASE WaitFindsEvent
  BY <1>17, DisplayFrame DEF WaitFindsEvent, WaitEnds
<1>18. CASE WaitInterrupted
  BY <1>18, DisplayFrame DEF WaitInterrupted, WaitEnds
<1>19. CASE HandleUevent
  <2>1. /\ screen' = screen
        /\ shown' = IF screen = "on"
                    THEN UpdateAnimation(chargeState', capacity') ELSE shown
        /\ "reboot" \in asked' <=> "reboot" \in asked
    BY <1>19 DEF HandleUevent, UpdateBatteryInfo
  <2>2. CASE screen = "on"
    BY <2>1, <2>2, AnimationSettles
  <2>3. CASE screen = "off"
    BY <2>1, <2>3 DEF DisplayFollows
  <2>. QED
    BY <2>2, <2>3 DEF TypeOK
<1>20. CASE IgnoreUevent
  BY <1>20, DisplayFrame DEF IgnoreUevent
<1>21. CASE UNCHANGED vars
  BY <1>21, DisplayFrame DEF vars
<1>. QED
  BY <1>1, <1>2, <1>3, <1>4, <1>5, <1>6, <1>7, <1>8, <1>9, <1>10, <1>11,
     <1>12, <1>13, <1>14, <1>15, <1>16, <1>17, <1>18, <1>19, <1>20, <1>21
  DEF Next, LoopStep

-----------------------------------------------------------------------------
(***************************************************************************)
(* The inductive invariant holds in every behaviour.                       *)
(***************************************************************************)
THEOREM InductiveInvariant == Spec => []IInv
<1>1. IInv /\ [Next]_vars => IInv'
  BY TypeNext, KeysNext, ScreenNext, DisplayNext DEF IInv
<1>. QED
  BY InvInit, <1>1, PTL DEF Spec

(***************************************************************************)
(* Every variable of the charger keeps its type.                           *)
(***************************************************************************)
THEOREM TypeCorrect == Spec => []TypeOK
<1>1. IInv => TypeOK
  BY DEF IInv
<1>. QED
  BY InductiveInvariant, <1>1, PTL

(***************************************************************************)
(* Whenever the loop waits with the screen on, it knows when to turn it    *)
(* off.                                                                    *)
(***************************************************************************)
THEOREM ScreenAlwaysTimed == Spec => []ScreenIsTimed
<1>1. IInv => ScreenIsTimed
  BY DEF IInv, ScreenFollows, ScreenIsTimed, Waiting
<1>. QED
  BY InductiveInvariant, <1>1, PTL

(***************************************************************************)
(* Whenever the loop waits, what is shown agrees with what was read.       *)
(***************************************************************************)
THEOREM DisplayAlwaysCurrent == Spec => []DisplayIsCurrent
<1>1. IInv => DisplayIsCurrent
  BY DEF IInv, DisplayFollows, DisplayIsCurrent
<1>. QED
  BY InductiveInvariant, <1>1, PTL

(***************************************************************************)
(* A step that asks for the reboot finds the key held for RebootTime.      *)
(***************************************************************************)
LEMMA RebootStep ==
  IInv /\ [Next]_vars =>
    [("reboot" \in asked' \ asked /\ ~torn')
       => heldFor # NoTime /\ heldFor >= RebootTime]_asked
<1> SUFFICES ASSUME IInv, [Next]_vars, "reboot" \in asked' \ asked, ~torn'
             PROVE  heldFor # NoTime /\ heldFor >= RebootTime
  OBVIOUS
<1>1. RebootByKey
  <2>1. asked' # asked
    OBVIOUS
  <2>2. LoopStep
    BY <2>1 DEF Next, vars, DeviceChanges, OtherUevent, Tick, PressKey,
                ReleaseKey, KeyEvent, StoreKeyState
  <2>3. "reboot" \in asked' => "reboot" \in asked \/ ~UpdateBatteryInfo
    BY DEF UpdateBatteryInfo
  <2>4. ~CycleMatters /\ ~HandleUevent
    BY <2>3 DEF CycleMatters, HandleUevent
  <2>. QED
    BY <2>1, <2>2, <2>4
       DEF LoopStep, HandleChargingState, TurnOnByKeydown, PassKey,
           HandleKeyUp, ForgetKeyUp, HandleScreenState, ChooseTimeout,
           WaitTimesOut, WaitFindsEvent, WaitInterrupted, WaitEnds,
           IgnoreUevent
<1>2. stores = {} /\ isDown /\ keyAge >= RebootTime
  BY <1>1 DEF RebootByKey, ReadKeys
<1>. QED
  BY <1>2, Times DEF IInv, TypeOK, KeysFollow

(***************************************************************************)
(* The device is rebooted only while the power key was held long enough,   *)
(* unless the loop read g_keys in the middle of SetKeyState.               *)
(***************************************************************************)
THEOREM RebootOnlyIfHeld == Spec => HeldBeforeReboot
BY InductiveInvariant, RebootStep, PTL DEF Spec, HeldBeforeReboot
=============================================================================
