------------------------------ MODULE MCUIGate ------------------------------
(***************************************************************************)
(* Instances of UIGate for TLC.                                            *)
(***************************************************************************)
EXTENDS UIGate, TLC

CONSTANTS p1, p2, t1, d1, d2, d3, f1, f2, k5, k6

\* The two approvals of the baseline differ in their keys only.
Symmetry == Permutations(Procs) \cup Permutations({k5, k6})

\* d1 and d2 declare one file, d3 declares both.
ScopeOf == (d1 :> {f1}) @@ (d2 :> {f1}) @@ (d3 :> {f1, f2})

Request(op, key, task, digest, mode) ==
  [op |-> op, key |-> key, task |-> task, digest |-> digest, mode |-> mode]

\* The life of a package, with a retried approval, and the settings and the
\* baseline of the project, which is approved again after a relock.
GateCalls ==
  {Request("create", "k1", t1, d1, NONE), Request("approve", "k2", t1, d1, NONE),
   Request("rejected", "k3", t1, NONE, NONE), Request("revise", "k4", t1, d3, NONE),
   Request("baseline", k5, t1, d1, NONE), Request("baseline", k6, t1, d1, NONE),
   Request("set_mode", "k7", NONE, NONE, "project_global"),
   Request("relock", "k8", NONE, NONE, NONE), Request("enable", "k9", NONE, NONE, NONE)}
GateKeys == {c.key : c \in GateCalls}
RetriedKeys == {"k2"}

\* Once a refresh has overlapped another change no property looks at the
\* published context any more, nor at what only it shows; and in a project with
\* a global baseline the decision is the same for every file.
Shown(c) == IF overlapped THEN [c EXCEPT !.smoke = "not_run"] ELSE c
ShownDraft(p) ==
  IF overlapped /\ pc[p] = "publish" THEN Unread ELSE [draft[p] EXCEPT !.config = Shown(@)]
ShownJob(p) ==
  IF pc[p] \in {"approvals", "digest", "allowed"}
     /\ "project_global" \in {draft[p].config.mode, verdict[p].mode}
    THEN NONE ELSE job[p]
View == <<packages, Shown(config), approvals, gateLock, IF overlapped THEN Unread ELSE context,
          pc, [p \in Procs |-> ShownJob(p)], seen, [p \in Procs |-> ShownDraft(p)], verdict,
          before, given, closed, unlocked, overlapped, crashes>>
=============================================================================
