--------------------------- MODULE MCMemoryReview ---------------------------
(***************************************************************************)
(* Instances of MemoryReview for TLC: two projects, one candidate of each  *)
(* project's own and one or two personal ones, and the sets of calls the   *)
(* runs make.                                                              *)
(***************************************************************************)
EXTENDS MemoryReview, TLC

CONSTANTS p1, p2, a, b, own, mine, twin, x, y, codex, claude

\* own is a proposal of project a; mine and twin are personal, and twin
\* proposes the text of mine for the other personal document.
MCStore     == [c \in Cands |-> IF c = own THEN a ELSE PERSONAL_PROPOSALS]
MCSuggested == [c \in Cands |-> IF c = own THEN a
                                ELSE IF c = mine THEN PERSONAL_LONG ELSE PERSONAL_SHORT]
MCBody      == [c \in Cands |-> IF c = own THEN x ELSE y]

Symmetry == Permutations(Procs)

Call(kind, proj, cand, doc, content, agent) ==
  [kind |-> kind, proj |-> proj, cand |-> cand,
   doc |-> doc, content |-> content, agent |-> agent]

InScope(calls) == {k \in calls : Visible(k.cand, k.proj)}

Plain(kinds)    == {Call(k, j, NONE, NONE, NONE, NONE) : k \in kinds, j \in Projects}
Deciding(kinds) == InScope({Call(k, j, c, NONE, NONE, NONE) :
                              k \in kinds, j \in Projects, c \in Cands})
Submitting      == InScope({Call("propose", j, c, NONE, NONE, g) :
                              j \in Projects, c \in Cands, g \in Agents})
Approving(docs) == InScope({Call("approve", j, c, d, t, NONE) :
                              j \in Projects, c \in Cands, d \in docs, t \in Contents})
Editing(docs)   == {Call("edit", j, NONE, d, t, NONE) :
                      j \in Projects, d \in docs, t \in Discardable}

\* Two projects decide about one personal candidate; hooks refresh their queues.
SharedCalls     == Approving({PERSONAL_LONG}) \cup Deciding({"reject", "reset"}) \cup Plain({"hook"})
\* Everything that runs beside a review: submissions by two agents, edits,
\* retention, noise clean-up, hooks, reminders.  No reset.
ConcurrentCalls == Submitting \cup {k \in Approving({PERSONAL_LONG}) : k.content = y}
                   \cup Editing({PERSONAL_LONG})
                   \cup Deciding({"defer"}) \cup Plain({"hook", "noise", "prune", "remind", "refresh"})
LivenessCalls   == Approving({PERSONAL_LONG}) \cup Deciding({"reset"}) \cup Plain({"hook"})
ShortCalls      == Approving({PERSONAL_SHORT}) \cup Deciding({"reset"})
ForgetCalls     == Plain({"hook"}) \cup Deciding({"reject"})
PruneCalls      == Approving({PERSONAL_SHORT}) \cup Plain({"prune"})
=============================================================================
