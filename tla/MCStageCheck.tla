---------------------------- MODULE MCStageCheck ----------------------------
(* Finite instances of StageCheck. *)
EXTENDS StageCheck, TLC

CallerSymmetry == Permutations(Callers)
=============================================================================
