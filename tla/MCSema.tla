------------------------------- MODULE MCSema -------------------------------
(* An instance of Sema for TLC.                                              *)
EXTENDS Sema

CONSTANTS main, t1, t2
=============================================================================
