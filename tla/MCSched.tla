------------------------------ MODULE MCSched ------------------------------
(* Instances of Sched for TLC.                                             *)
EXTENDS Sched, TLC

CONSTANTS main, t1, t2, chan
=============================================================================
