--------------------------- MODULE MCSkillPublish ---------------------------
(***************************************************************************)
(* The instance of SkillPublish for TLC: processes and drafts are alike.   *)
(***************************************************************************)
EXTENDS SkillPublish, TLC

Symmetry == Permutations(Procs) \cup Permutations(Drafts)
=============================================================================
