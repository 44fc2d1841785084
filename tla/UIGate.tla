------------------------------- MODULE UIGate -------------------------------
(***************************************************************************)
(* The gate that holds back changes of formal frontend code until their    *)
(* design is approved: src/scripts/ui_design_gate.py, the hook that takes  *)
(* the same decision inside an agent (templates/ui_design), and the        *)
(* publication of the effective context (memory_project.py).               *)
(*                                                                         *)
(* One project.  Its state is in files: the design packages, config.json,  *)
(* approvals.json and effective-context.json.  Mutations (console, command *)
(* line) run under gate.lock, an O_EXCL file that nobody removes when its  *)
(* holder dies.  Decisions read the files under no lock, one after the     *)
(* other, and designers edit design documents whenever they like.          *)
(*                                                                         *)
(* A package is its digest: one value stands for the normalized manifest   *)
(* and the design files, and Scope gives the file patterns it declares.    *)
(* The parsing of tool calls is the choice of what a tool use touches.     *)
(***************************************************************************)
EXTENDS Naturals

CONSTANTS
  Procs,        \* slots in which calls run
  Tasks,        \* design task ids
  Baseline,     \* project_global_baseline_task of config.json
  Digests,      \* contents of design packages
  Files,        \* formal frontend files
  Scope,        \* Scope[d]: the files that the patterns of content d match
  Keys,         \* idempotency keys
  Calls,        \* mutations that are requested, and requested again
  UNRESOLVED,   \* a mutating shell command whose paths cannot be resolved
  MISSING,      \* no such package
  BROKEN,       \* a declared design file is not there (yet)
  NONE, Free, Stale,
  Retried,      \* bound: keys that are sent again while they run or when they were answered
  MaxCrashes    \* bound: calls that die or that an error of the file system ends

Modes    == {"design_package", "project_global"}
Verdicts == {"rejected", "revision_requested", "invalidated"}
Ops      == {"create", "revise", "approve", "baseline", "set_mode", "set_paths",
             "enable", "relock"} \cup Verdicts
CallType == [op : Ops, key : Keys, task : Tasks \cup {NONE},
             digest : Digests \cup {NONE}, mode : Modes \cup {NONE}]

ASSUME GateAssumption ==
  /\ Baseline \in Tasks /\ Scope \in [Digests -> SUBSET Files]
  /\ Calls \subseteq CallType /\ Retried \subseteq Keys /\ MaxCrashes \in Nat
  /\ {MISSING, BROKEN, NONE} \cap Digests = {} /\ UNRESOLVED \notin Files
  /\ NONE \notin Calls /\ Free # Stale /\ {Free, Stale} \cap Procs = {}
  /\ \A c \in Calls : /\ c.op \in {"create", "revise", "approve", "baseline"} => c.digest \in Digests
                      /\ c.op = "set_mode" => c.mode \in Modes
                      /\ c.op \in {"create", "revise", "approve", "baseline"} \cup Verdicts
                           => c.task \in Tasks

VARIABLES
  packages,   \* packages[t]: the digest of the package of t, MISSING or BROKEN
  config,     \* config.json: gate mode, hard gate enabled, relocked, smoke test of the hooks
  approvals,  \* approvals.json: per package, of the project, replies per key
  context,    \* effective-context.json: the config and approvals it shows
  gateLock,   \* gate.lock
  pc, job,    \* where a process is; its call, or the target of its tool use
  seen,       \* the digest a verdict read before it waited for the lock
  draft,      \* config.json and approvals.json as a process read or changed them
  verdict,    \* the decision just taken: the design it rests on, as it was then
  given,      \* <<t, d>>: an approval of content d of t was recorded (history)
  closed,     \* <<t, why>>: t was closed since its last approval, by a verdict or by
              \* a relock; NONE stands for the project (history)
  unlocked,   \* a baseline approval has unlocked the configuration since the last relock
              \* and is not recorded: it is on its way, or broken off (history)
  before,     \* what was closed when the running decision began (history)
  overlapped, \* a refresh overlapped another change, or a call broke off (history)
  crashes

files  == <<packages, config, approvals, context, gateLock>>
locals == <<pc, job, seen, draft, verdict, before>>
history == <<given, closed, unlocked, overlapped, crashes>>
vars   == <<files, locals, history>>

Unapproved == [status |-> "none", digest |-> NONE, mode |-> NONE]
NoVerdict  == [mode |-> NONE, task |-> NONE, digest |-> NONE]
NoApprovals == [package |-> [t \in Tasks |-> Unapproved],
                global  |-> Unapproved,
                replies |-> [k \in Keys |-> NONE]]
FirstConfig == [mode |-> "design_package", hard |-> FALSE, relocked |-> TRUE,
                smoke |-> "not_run"]
Unread == [config |-> FirstConfig, approvals |-> NoApprovals]

\* What publish_effective_ui_context shows of the gate (the replies are left out).
Snapshot == [config |-> config, approvals |-> [approvals EXCEPT !.replies = NoApprovals.replies]]

Goto(p, label) == pc' = [pc EXCEPT ![p] = label]

Init ==
  /\ packages = [t \in Tasks |-> MISSING]
  /\ config = FirstConfig /\ approvals = NoApprovals
  /\ context = Unread
  /\ gateLock = Free
  /\ pc = [p \in Procs |-> "idle"] /\ job = [p \in Procs |-> NONE]
  /\ seen = [p \in Procs |-> NONE] /\ draft = [p \in Procs |-> Unread]
  /\ verdict = [p \in Procs |-> NoVerdict]
  /\ given = {} /\ closed = {} /\ unlocked = FALSE /\ before = [p \in Procs |-> {}]
  /\ overlapped = FALSE /\ crashes = 0

Return(p) ==
  /\ Goto(p, "idle")
  /\ job' = [job EXCEPT ![p] = NONE] /\ seen' = [seen EXCEPT ![p] = NONE]
  /\ draft' = [draft EXCEPT ![p] = Unread]
  /\ verdict' = [verdict EXCEPT ![p] = NoVerdict] /\ before' = [before EXCEPT ![p] = {}]

-----------------------------------------------------------------------------
\* Mutations: _mutate, with one callback per operation.

\* approve and the verdicts first read the package, the baseline approval the
\* configuration; what is missing or does not fit raises before any lock.
Start(p) ==
  /\ pc[p] = "idle"
  /\ \E c \in Calls :
       /\ approvals.replies[c.key] # NONE \/ c \in {job[q] : q \in Procs} => c.key \in Retried
       /\ c.op \in {"approve"} \cup Verdicts => packages[c.task] \in Digests
       /\ c.op = "baseline" => config.mode = "project_global" /\ c.task = Baseline
       /\ job' = [job EXCEPT ![p] = c]
       /\ seen' = [seen EXCEPT ![p] = IF c.op \in Verdicts THEN packages[c.task] ELSE NONE]
  /\ Goto(p, "lock")
  /\ UNCHANGED <<files, draft, verdict, before, history>>

\* The result of an earlier call with this key is returned again, and another
\* call with it is refused.  A slip: only the operation is compared.
ComparesOperation(p, a) == a.replies[job[p].key] # NONE
                           /\ a.replies[job[p].key].op # job[p].op
Answered(p, a) == a.replies[job[p].key] # NONE

\* A slip: approvals are loaded before the lock is there.
LoadBeforeLock(p) ==
  /\ pc[p] = "lock" /\ ~Answered(p, approvals)
  /\ gateLock' = p
  /\ draft' = [draft EXCEPT ![p].approvals = approvals]
  /\ Goto(p, "change") /\ UNCHANGED <<job, seen, verdict, before>>
  /\ UNCHANGED <<packages, config, approvals, context, history>>

LoadUnderLock(p) ==
  /\ pc[p] = "lock" /\ gateLock = Free
  /\ IF Answered(p, approvals)
       THEN Return(p) /\ UNCHANGED gateLock
       ELSE /\ gateLock' = p
            /\ draft' = [draft EXCEPT ![p].approvals = approvals]
            /\ Goto(p, "change") /\ UNCHANGED <<job, seen, verdict, before>>
  /\ UNCHANGED <<packages, config, approvals, context, history>>

LockTimeout(p) ==
  /\ pc[p] = "lock" /\ gateLock # Free
  /\ Return(p)
  /\ UNCHANGED <<files, history>>

\* A slip: the name of the operation is recorded.
OperationAsStatus(p, status, d) == [status |-> job[p].op, digest |-> d, mode |-> NONE]

\* The record that a callback puts under a task.
Record(p, status, d) ==
  [status |-> status, digest |-> d,
   mode |-> IF status = "approved" THEN config.mode ELSE NONE]

ChangeRecord(p, r) ==
  /\ draft' = [draft EXCEPT ![p].approvals.package[job[p].task] = r]
  /\ Goto(p, "save")

\* A callback that raises: the lock is released, nothing else was changed.
Refuse(p) == Return(p) /\ gateLock' = Free

\* create_design_package: a staged directory renamed into place.
Create(p) ==
  /\ pc[p] = "change" /\ job[p].op = "create"
  /\ IF packages[job[p].task] # MISSING
       THEN Refuse(p) /\ UNCHANGED packages
       ELSE /\ packages' = [packages EXCEPT ![job[p].task] = job[p].digest]
            /\ Goto(p, "save") /\ UNCHANGED <<job, seen, draft, verdict, before, gateLock>>
  /\ UNCHANGED <<config, approvals, context, history>>

\* revise_design_package: the manifest, the files it adds, then a pending record.
ReviseManifest(p) ==
  /\ pc[p] = "change" /\ job[p].op = "revise"
  /\ IF packages[job[p].task] = MISSING
       THEN Refuse(p) /\ UNCHANGED packages
       ELSE /\ packages' = [packages EXCEPT ![job[p].task] = BROKEN]
            /\ Goto(p, "revising") /\ UNCHANGED <<job, seen, draft, verdict, before, gateLock>>
  /\ UNCHANGED <<config, approvals, context, history>>

ReviseFiles(p) ==
  /\ pc[p] = "revising"
  /\ packages' = [packages EXCEPT ![job[p].task] = job[p].digest]
  /\ ChangeRecord(p, Record(p, "pending_approval", job[p].digest))
  /\ UNCHANGED <<config, approvals, context, gateLock, job, seen, verdict, before, history>>

\* A slip: approve trusts the digest the caller expects.
TrustsCaller(p) == packages[job[p].task] \in Digests
AsExpected(p)   == packages[job[p].task] = job[p].digest

\* approve_design_package: the content must still be what the user looked at.
Approve(p) ==
  /\ pc[p] = "change" /\ job[p].op = "approve"
  /\ IF AsExpected(p)
       THEN ChangeRecord(p, Record(p, "approved", packages[job[p].task])) /\ UNCHANGED <<job, seen, verdict, before, gateLock>>
       ELSE Refuse(p)
  /\ UNCHANGED <<packages, config, approvals, context, history>>

\* _record_decision: the digest is the one read before the lock was taken.
RecordVerdict(p) ==
  /\ pc[p] = "change" /\ job[p].op \in Verdicts
  /\ ChangeRecord(p, Record(p, job[p].op, seen[p]))
  /\ UNCHANGED <<files, job, seen, verdict, before, history>>

\* The project's settings: mode and paths relock; new paths also disable the
\* hard gate until both installed hooks pass their smoke test again.
NewConfig(c) ==
  CASE c.op = "set_mode"  -> [config EXCEPT !.mode = c.mode, !.relocked = TRUE]
    [] c.op = "set_paths" -> [config EXCEPT !.relocked = TRUE, !.hard = FALSE, !.smoke = "not_run"]
    [] c.op = "relock"    -> [config EXCEPT !.relocked = TRUE]
    [] c.op = "enable"    -> [config EXCEPT !.hard = TRUE, !.smoke = "passed"]

\* enable_hard_gate is refused when the paths are not configured yet, or by a failed
\* smoke test, which it writes to config.json first; a refused call refreshes nothing.
Configure(p) ==
  /\ pc[p] = "change" /\ job[p].op \in {"set_mode", "set_paths", "relock", "enable"}
  /\ \/ /\ config' = NewConfig(job[p]) /\ Goto(p, "save")
        /\ UNCHANGED <<job, seen, draft, verdict, before, gateLock>>
     \/ /\ job[p].op = "enable" /\ Refuse(p)
        /\ config' \in {config, [config EXCEPT !.smoke = "failed"]}
  /\ UNCHANGED <<packages, approvals, context, history>>

\* approve_project_baseline unlocks the configuration before it is approved.
ApproveBaseline(p) ==
  /\ pc[p] = "change" /\ job[p].op = "baseline"
  /\ IF AsExpected(p)
       THEN /\ config' = [config EXCEPT !.relocked = FALSE]
            /\ draft' = [draft EXCEPT ![p].approvals.global =
                           [status |-> "approved", digest |-> job[p].digest, mode |-> "project_global"]]
            /\ unlocked' = TRUE
            /\ Goto(p, "save") /\ UNCHANGED <<job, seen, verdict, before, gateLock>>
       ELSE Refuse(p) /\ UNCHANGED <<config, unlocked>>
  /\ UNCHANGED <<packages, approvals, context, given, closed, overlapped, crashes>>

\* approvals.json is replaced with the change and the reply; the lock goes.
Closing(c) ==
  CASE c.op = "approve" -> closed \ {<<c.task, "verdict">>, <<c.task, "relock">>}
    [] c.op \in Verdicts \cup {"revise"} -> closed \cup {<<c.task, "verdict">>}
    [] c.op = "baseline" -> closed \ {<<NONE, "relock">>}
    [] c.op \in {"relock", "set_mode", "set_paths"} ->
         closed \cup {<<t, "relock">> : t \in Tasks \cup {NONE}}
    [] OTHER -> closed

Save(p) ==
  LET c == job[p] IN
  /\ pc[p] = "save"
  /\ approvals' = [draft[p].approvals EXCEPT !.replies[c.key] = c]
  /\ given' = IF c.op \in {"approve", "baseline"} THEN given \cup {<<c.task, c.digest>>} ELSE given
  /\ closed' = Closing(c) /\ before' = [q \in Procs |-> before[q] \cap Closing(c)]
  /\ unlocked' = (unlocked /\ c.op \notin {"baseline", "relock", "set_mode", "set_paths"})
  /\ overlapped' = (overlapped \/ \E q \in Procs : pc[q] \in {"refresh", "publish"})
  /\ gateLock' = Free /\ draft' = [draft EXCEPT ![p] = Unread] /\ seen' = [seen EXCEPT ![p] = NONE]
  /\ Goto(p, "refresh")
  /\ UNCHANGED <<packages, config, context, job, verdict, crashes>>

\* _refresh_context, outside the lock: read the files, then replace the
\* published context.
Refresh(p) ==
  /\ pc[p] = "refresh"
  /\ draft' = [draft EXCEPT ![p] = Snapshot]
  /\ overlapped' = (overlapped \/ gateLock # Free)
  /\ Goto(p, "publish")
  /\ UNCHANGED <<files, job, seen, verdict, before, given, closed, unlocked, crashes>>

\* A slip: a context with the same configuration is not written again.
PublishNewConfig(p) ==
  /\ pc[p] = "publish"
  /\ context' = IF draft[p].config = context.config THEN context ELSE draft[p]
  /\ Return(p)
  /\ UNCHANGED <<packages, config, approvals, gateLock, history>>

PublishContext(p) ==
  /\ pc[p] = "publish"
  /\ context' = draft[p]
  /\ Return(p)
  /\ UNCHANGED <<packages, config, approvals, gateLock, history>>

-----------------------------------------------------------------------------
\* Decisions: decide_tool_use, and decide in the hook.  A tool use that only
\* reads, touches no formal file, or finds the hard gate off is allowed
\* whatever the files say and is left out.

\* The configuration decides first: a locked project denies, and so does a
\* command without paths outside a project with a global baseline.
DecideByConfig(p) ==
  /\ pc[p] = "idle" /\ config.hard
  /\ config.mode = "project_global" => ~config.relocked
  /\ \E f \in Files \cup {UNRESOLVED} :
       /\ f = UNRESOLVED => config.mode = "project_global"
       /\ job' = [job EXCEPT ![p] = [op |-> "use", file |-> f]]
  /\ draft' = [draft EXCEPT ![p].config = config]
  /\ before' = [before EXCEPT ![p] = closed \ (IF unlocked THEN {<<NONE, "relock">>} ELSE {})]
  /\ Goto(p, "approvals")
  /\ UNCHANGED <<files, seen, verdict, history>>

\* _load_approvals.
DecideReadApprovals(p) ==
  /\ pc[p] = "approvals"
  /\ draft' = [draft EXCEPT ![p].approvals = Snapshot.approvals]
  /\ Goto(p, "digest")
  /\ UNCHANGED <<files, job, seen, verdict, before, history>>

\* _design_package_path_decision: approved packages that declare the file and
\* are still what was approved.
ApprovingPackages(p) ==
  {t \in Tasks :
     LET r == draft[p].approvals.package[t] IN
     /\ r.status = "approved" /\ r.mode = "design_package"
     /\ job[p].file \in Scope[r.digest]
     /\ packages[t] = r.digest}

\* _project_global_gate_status: the baseline is approved and unchanged.
BaselineHolds(p) ==
  LET r == draft[p].approvals.global IN
  r.status = "approved" /\ packages[Baseline] = r.digest

\* Only an allowing decision is remembered; a denial ends the call.
Decide(p) ==
  /\ pc[p] = "digest"
  /\ IF draft[p].config.mode = "project_global"
       THEN IF BaselineHolds(p)
              THEN /\ verdict' = [verdict EXCEPT ![p] =
                        [mode |-> "project_global", task |-> Baseline,
                         digest |-> packages[Baseline]]]
                   /\ draft' = [draft EXCEPT ![p] = Unread]
                   /\ Goto(p, "allowed") /\ UNCHANGED <<job, seen, before>>
              ELSE Return(p)
       ELSE \/ \E t \in ApprovingPackages(p) :
                 /\ verdict' = [verdict EXCEPT ![p] =
                        [mode |-> "design_package", task |-> t,
                         digest |-> packages[t]]]
                 /\ draft' = [draft EXCEPT ![p] = Unread]
                 /\ Goto(p, "allowed") /\ UNCHANGED <<job, seen, before>>
            \/ ApprovingPackages(p) = {} /\ Return(p)
  /\ UNCHANGED <<files, history>>

Proceed(p) == pc[p] = "allowed" /\ Return(p) /\ UNCHANGED <<files, history>>

-----------------------------------------------------------------------------
\* A designer edits a design file or adds one that is missing; what the manifest
\* declares is changed by revisions only.
EditDesign(t) ==
  /\ packages[t] # MISSING
  /\ \E d \in Digests :
       /\ packages[t] \in Digests => Scope[d] = Scope[packages[t]]
       /\ packages' = [packages EXCEPT ![t] = d]
  /\ UNCHANGED <<config, approvals, context, gateLock, locals, history>>

\* A mutation breaks off: it dies and its lock file stays, or an error of the file system
\* ends it and the lock goes.  (A decision that breaks off changes nothing.)
Crash(p) ==
  /\ pc[p] \in {"change", "revising", "save", "refresh", "publish"}
  /\ crashes < MaxCrashes
  /\ crashes' = crashes + 1
  /\ gateLock' \in IF gateLock = p THEN {Stale, Free} ELSE {gateLock}
  /\ overlapped' = TRUE
  /\ Return(p)
  /\ UNCHANGED <<packages, config, approvals, context, given, closed, unlocked>>

Next ==
  \/ \E p \in Procs :
       \/ Start(p) \/ LoadUnderLock(p) \/ LockTimeout(p)
       \/ Create(p) \/ ReviseManifest(p) \/ ReviseFiles(p) \/ Approve(p)
       \/ RecordVerdict(p) \/ Configure(p) \/ ApproveBaseline(p)
       \/ Save(p) \/ Refresh(p) \/ PublishContext(p)
       \/ DecideByConfig(p) \/ DecideReadApprovals(p) \/ Decide(p) \/ Proceed(p)
       \/ Crash(p)
  \/ \E t \in Tasks : EditDesign(t)

Spec == Init /\ [][Next]_vars
-----------------------------------------------------------------------------
\* Properties

\* Every file holds what its readers accept.
TypeOK ==
  /\ packages \in [Tasks -> Digests \cup {MISSING, BROKEN}]
  /\ config \in [mode : Modes, hard : BOOLEAN, relocked : BOOLEAN,
                 smoke : {"not_run", "passed", "failed"}]
  /\ \A t \in Tasks : approvals.package[t].status
        \in {"none", "pending_approval", "approved"} \cup Verdicts
  /\ approvals.replies \in [Keys -> Calls \cup {NONE}]
  /\ gateLock \in Procs \cup {Free, Stale}

\* A formal file is changed only under a design that a user approved by its
\* digest, that is still the same when it is judged, that covers the file, and
\* that no verdict or revision (for the baseline: no relock) recorded before
\* the decision began has closed without an approval since.  A relock does not
\* count once a later baseline approval has unlocked config.json: the code does
\* so before it records the approval, so an older one opens the gate until
\* then, and for good when the call breaks off in between.
AllowedIsApproved ==
  \A p \in Procs : pc[p] = "allowed" =>
    LET v == verdict[p] IN
    /\ <<v.task, v.digest>> \in given
    /\ v.mode = "design_package" => /\ job[p].file \in Scope[v.digest]
                                    /\ <<v.task, "verdict">> \notin before[p]
    /\ v.mode = "project_global" => <<NONE, "relock">> \notin before[p]

\* With no change under way, and unless refreshes overlapped other changes or a
\* call broke off, the context published to the agents shows the files: all of
\* them but a failed smoke test, whose refused call publishes nothing.
ContextCurrent ==
  (\A p \in Procs : pc[p] \in {"idle", "lock", "approvals", "digest", "allowed"}) /\ ~overlapped
    => \/ context = Snapshot
       \/ config.smoke = "failed" /\ [context EXCEPT !.config.smoke = "failed"] = Snapshot

\* An idempotency key takes effect once: a retry, even beside the first call,
\* never revives an approval that was rejected meanwhile.
EffectOnce ==
  [][\A p \in Procs : pc[p] = "save" /\ pc'[p] = "refresh"
                         => approvals.replies[job[p].key] = NONE]_vars

\* A call never takes back what another call recorded: a package record changes
\* by a call about that package, the project's approval by a baseline approval.
RecordsKept ==
  [][\A p \in Procs : pc[p] = "save" /\ pc'[p] = "refresh" =>
       /\ \A t \in Tasks : approvals'.package[t] = approvals.package[t]
                            \/ (job[p].task = t /\ job[p].op # "baseline")
       /\ approvals'.global = approvals.global \/ job[p].op = "baseline"
       /\ \A k \in Keys \ {job[p].key} : approvals'.replies[k] = approvals.replies[k]]_vars
=============================================================================
