-------------------------- MODULE MCChargerThread --------------------------
(***************************************************************************)
(* Small instances of ChargerThread.  One unit of time stands for a second *)
(* or two: only the order of the moments matters.                          *)
(***************************************************************************)
EXTENDS ChargerThread

MCLowTemp == -5
=============================================================================
