------------------------------ MODULE MCAccounting ------------------------------
(* Symmetry for the run without liveness: workers are interchangeable.      *)
EXTENDS Accounting, TLC

Symmetry == Permutations(Workers)
=============================================================================
