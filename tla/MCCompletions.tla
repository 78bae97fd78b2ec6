----------------------------- MODULE MCCompletions -----------------------------
(***************************************************************************)
(* Instances of Completions for TLC.                                       *)
(***************************************************************************)
EXTENDS Completions, TLC

Symmetry == Permutations(Services)
=============================================================================
