----------------------------- MODULE MCVibeChat -----------------------------
(* VibeChat for TLC: the runs are interchangeable. *)
EXTENDS VibeChat, TLC

RunSymmetry == Permutations(Run)
=============================================================================
