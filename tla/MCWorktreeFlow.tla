--------------------------- MODULE MCWorktreeFlow ---------------------------
(***************************************************************************)
(* The instance of WorktreeFlow for TLC: the tasks are alike.              *)
(***************************************************************************)
EXTENDS WorktreeFlow, TLC

Symmetry == Permutations(Tasks)
=============================================================================
