----------------------------- MODULE MCHookGuard -----------------------------
(***************************************************************************)
(* Small instances of HookGuard for TLC.                                   *)
(***************************************************************************)
EXTENDS HookGuard, TLC

(* Nothing distinguishes the elements of these sets, and no property of a  *)
(* run that uses the symmetry is a liveness property.                      *)
Symmetry == Permutations(Workers) \cup Permutations(Requests)
              \cup Permutations(Events) \cup Permutations(Data)
=============================================================================
