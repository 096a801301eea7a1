--------------------------- MODULE MCHdiLifeCycle ---------------------------
(***************************************************************************)
(* Small instances of HdiLifeCycle.  The listeners are interchangeable in  *)
(* the runs without liveness.                                              *)
(***************************************************************************)
EXTENDS HdiLifeCycle, TLC

CONSTANTS l1, l2, w1, c1

MCListener == {l1, l2}
MCOneListener == {l1}
MCWorker == {w1}
MCClient == {c1}
Symmetry == Permutations(MCListener)
=============================================================================
