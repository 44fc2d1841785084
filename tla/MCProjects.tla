----------------------------- MODULE MCProjects -----------------------------
(***************************************************************************)
(* The instance of Projects for TLC.                                       *)
(***************************************************************************)
EXTENDS Projects, TLC

CONSTANTS p1, p2, codex, claude

Symmetry == Permutations(Procs) \cup Permutations(Agents)

\* What an ended call remembered is never looked at again, and an unregistration alone
\* looks at the registry it found.
Local(p) ==
  IF at[p] = "idle" THEN <<>>
  ELSE <<at[p], op[p], root[p], IF op[p] = "unregister" THEN before[p] ELSE <<>>,
         IF at[p] \in {"look", "register", "select", "lock", "prepare", "scripts", "merge"}
         THEN <<>> ELSE snap[p],
         docsLeft[p], scriptsLeft[p], IF read[p].agents = {} THEN <<>> ELSE read[p],
         wrote[p], moved[p], conflict[p]>>

View == <<registry, projectLock, files, [p \in Procs |-> Local(p)], edits, calls, incidents,
          released, created, blurred>>
=============================================================================
