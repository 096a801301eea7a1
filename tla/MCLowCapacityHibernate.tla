----------------------- MODULE MCLowCapacityHibernate -----------------------
(***************************************************************************)
(* Small instances of LowCapacityHibernate.                                *)
(***************************************************************************)
EXTENDS LowCapacityHibernate

CONSTANTS hdi, init, dump

MCHdi == {hdi}
MCInit == {init}
MCDump == {dump}
NoThread == {}
MCCapacity == {0, 1, 2}

(***************************************************************************)
(* No state after the first meeting of two parties is explored: two of the *)
(* invariants and the liveness property assume that there was none, and    *)
(* that TimerOnlyWhenExhausted also holds after a meeting of others than   *)
(* two threads of the handler is a theorem of LowCapacityHibernateProofs.  *)
(***************************************************************************)
SequentialYet == Sequential
============================================================================
