-------------------------- MODULE MCReportEffects --------------------------
(***************************************************************************)
(* Two threads (the battery HDI's and one of Dump); a light configuration  *)
(* with malformed entries, overlapping ranges and a gap; thresholds in     *)
(* order, out of order, undefined and of one value.                        *)
(***************************************************************************)
EXTENDS ReportEffects, TLC

CONSTANTS Hdi, Ipc

MCThread == {Hdi, Ipc}
Report(capacity, chargeState, plugged) ==
  [capacity |-> capacity, chargeState |-> chargeState, plugged |-> plugged]
MCReports ==
  {Report(98, "ENABLE", "AC"), Report(99, "ENABLE", "AC"),
   Report(98, "NONE", "NONE"), Report(101, "FULL", "BUTT"),
   ConstructedInfo}

Level(begin, end, rgb) ==
  [soc |-> <<begin, end>>, rgb |-> rgb, numeric |-> TRUE]
MCLightLevels ==
  <<Level(0, 98, <<255, 0, 0>>), Level(0, 100, <<255, 0>>),
    [Level(0, 100, <<0, 0, 255>>) EXCEPT !.numeric = FALSE],
    Level(98, 99, <<0, 255, 0>>)>>

MCThresholdConfs ==
  {<<5, 10, 20, 50, 80, 97, 98>>, <<99, 98, 97, 98, 99, 100, 101>>,
   <<-1, 98, -1, 97, -1, 101, 99>>, <<97, 97, 97, 97, 97, 97, 97>>}

Symmetry == Permutations(MCThread)
=============================================================================
