-------------------------- MODULE MCBatteryNotify --------------------------
(***************************************************************************)
(* Small instances of BatteryNotify.                                       *)
(***************************************************************************)
EXTENDS BatteryNotify

CONSTANTS report, init

MCReport == {report}
MCInit == {init}
NoThread == {}

(***************************************************************************)
(* What happens after batteryInfo_ changed under a publisher cannot        *)
(* violate an invariant that assumes it did not, nor a promise about what  *)
(* was said before: no state after it is explored.                         *)
(***************************************************************************)
NotTornYet == ~torn
=============================================================================
