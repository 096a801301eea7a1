----------------------- MODULE MCLowCapacityShutdown -----------------------
(***************************************************************************)
(* Small instances of LowCapacityShutdown.                                 *)
(***************************************************************************)
EXTENDS LowCapacityShutdown

CONSTANTS hdi, init, dump, t1, t2

MCCapacity == {1, 2}
MCHdi == {hdi}
MCInit == {init}
MCDump == {dump}
NoThread == {}

(***************************************************************************)
(* What happens after two threads met in the handler cannot violate an     *)
(* invariant that assumes they did not, nor ExhaustedShutsDown, which      *)
(* assumes that they never do: no state after it is explored.              *)
(***************************************************************************)
NoOverlapYet == ~overlap
=============================================================================
