------------------------------ MODULE MCTimeout ------------------------------
(* Instances of Timeout for TLC.                                            *)
EXTENDS Timeout, TLC

CONSTANTS a, b

\* The contexts of the program are interchangeable.
Symmetry == Permutations({a, b})
=============================================================================
