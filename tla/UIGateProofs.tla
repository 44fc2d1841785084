---------------------------- MODULE UIGateProofs ----------------------------
(***************************************************************************)
(* Proofs about UIGate, for every set of processes, tasks, contents, calls *)
(* and keys.                                                               *)
(***************************************************************************)
EXTENDS UIGate, TLAPS

-----------------------------------------------------------------------------
(* The invariants *)

Records == [status : {"none", "pending_approval", "approved"} \cup Verdicts,
            digest : Digests \cup {MISSING, BROKEN, NONE}, mode : Modes \cup {NONE}]
ApprovalFiles == [package : [Tasks -> Records], global : Records, replies : [Keys -> Calls \cup {NONE}]]
ConfigFiles == [mode : Modes, hard : BOOLEAN, relocked : BOOLEAN,
                smoke : {"not_run", "passed", "failed"}]
Drafts == [config : ConfigFiles, approvals : ApprovalFiles]
Uses == [op : {"use"}, file : Files \cup {UNRESOLVED}]

\* Where a mutation holds the lock, where it is under way, where a decision is.
Locked == {"change", "revising", "save"}
Mutating == Locked \cup {"lock", "refresh", "publish"}
Deciding == {"approvals", "digest", "allowed"}

Typed ==
  /\ packages \in [Tasks -> Digests \cup {MISSING, BROKEN}]
  /\ config \in ConfigFiles /\ approvals \in ApprovalFiles
  /\ gateLock \in Procs \cup {Free, Stale}
  /\ pc \in [Procs -> {"idle"} \cup Mutating \cup Deciding]
  /\ job \in [Procs -> Calls \cup Uses \cup {NONE}]
  /\ seen \in [Procs -> Digests \cup {NONE}] /\ draft \in [Procs -> Drafts]
  /\ verdict \in [Procs -> [mode : Modes \cup {NONE}, task : Tasks \cup {NONE},
                            digest : Digests \cup {MISSING, BROKEN, NONE}]]
  /\ before \in [Procs -> SUBSET ((Tasks \cup {NONE}) \X {"verdict", "relock"})]
  /\ closed \subseteq (Tasks \cup {NONE}) \X {"verdict", "relock"}
  /\ \A p \in Procs : pc[p] \in Mutating => job[p] \in Calls

\* The lock is held by the mutation that is between taking and releasing it.
LockHeld == \A p \in Procs : (gateLock = p) <=> pc[p] \in Locked

\* What a mutation under the lock knows: nobody has answered its key, and what it is about
\* to write differs from the file in what the call is about.
CallKnown(p) ==
  LET c == job[p]
      d == draft[p].approvals
  IN  /\ c.op = "baseline" => c.task = Baseline
      /\ pc[p] \in Locked =>
           /\ approvals.replies[c.key] = NONE
           /\ d.replies = approvals.replies
           /\ d.global = approvals.global \/ c.op = "baseline"
           /\ \A t \in Tasks : d.package[t] = approvals.package[t]
                                \/ (c.task = t /\ c.op \in {"approve", "revise"} \cup Verdicts)
      /\ pc[p] = "change" => d = approvals
      /\ pc[p] = "revising" => c.op = "revise"
      /\ pc[p] = "save" =>
           /\ c.op = "approve" => d.package[c.task].digest = c.digest
           /\ c.op \in {"revise"} \cup Verdicts => d.package[c.task].status # "approved"
           /\ c.op = "baseline" => d.global.digest = c.digest
           /\ c.op \in {"relock", "set_mode", "set_paths"} => config.relocked

LockInv == Typed /\ LockHeld /\ \A p \in Procs : pc[p] \in Mutating => CallKnown(p)

\* What is recorded as approved was given and has not been closed since; a project that is
\* open although it was relocked is so by a baseline approval that is not recorded; what a
\* decision takes for closed is closed.
Recorded ==
  /\ \A t \in Tasks : approvals.package[t].status = "approved" =>
       <<t, approvals.package[t].digest>> \in given /\ <<t, "verdict">> \notin closed
  /\ approvals.global.status = "approved" => <<Baseline, approvals.global.digest>> \in given
  /\ ~config.relocked => unlocked \/ <<NONE, "relock">> \notin closed
  /\ \A p \in Procs : before[p] \subseteq closed

\* What a decision has read so far.
DecisionKnown(p) ==
  LET d == draft[p].approvals
  IN  /\ pc[p] \in {"approvals", "digest"} /\ draft[p].config.mode = "project_global"
           => <<NONE, "relock">> \notin before[p]
      /\ pc[p] = "digest" =>
           /\ \A t \in Tasks : d.package[t].status = "approved" =>
                <<t, d.package[t].digest>> \in given /\ <<t, "verdict">> \notin before[p]
           /\ d.global.status = "approved" => <<Baseline, d.global.digest>> \in given

GateInv == Recorded /\ (\A p \in Procs : DecisionKnown(p)) /\ AllowedIsApproved

\* The context s shows the files, or all of them but a failed smoke test.
Shows(s) == \/ s = Snapshot
            \/ config.smoke = "failed" /\ [s EXCEPT !.config.smoke = "failed"] = Snapshot

\* Unless refreshes overlapped: one refresh at a time, what it is about to publish shows the
\* files unless a configuration has just been written, and with no change and no refresh
\* under way the published context does.
ContextInv ==
  ~overlapped =>
    /\ \A p, q \in Procs : pc[p] \in {"refresh", "publish"} /\ pc[q] \in {"refresh", "publish"} => p = q
    /\ (\A q \in Procs : pc[q] # "save") =>
         /\ \A p \in Procs : pc[p] = "publish" => Shows(draft[p])
         /\ (\A p \in Procs : pc[p] \notin {"refresh", "publish"}) => Shows(context)
-----------------------------------------------------------------------------
(* The lock *)

\* No record, no draft and no configuration is out of its type at first.
LEMMA Blank ==
  /\ Unapproved \in Records /\ NoApprovals \in ApprovalFiles /\ FirstConfig \in ConfigFiles
  /\ Unread \in Drafts
<1>1. Unapproved \in Records
  BY DEF Unapproved, Records
<1>2. NoApprovals \in ApprovalFiles
  BY <1>1 DEF NoApprovals, ApprovalFiles
<1>3. FirstConfig \in ConfigFiles
  BY DEF FirstConfig, ConfigFiles, Modes
<1>. QED BY <1>1, <1>2, <1>3 DEF Unread, Drafts

\* What a context shows has the types of the files it is read from.
LEMMA SnapshotTyped ==
  ASSUME Typed
  PROVE  /\ Snapshot \in Drafts
         /\ Snapshot.approvals.package = approvals.package
         /\ Snapshot.approvals.global = approvals.global
         /\ Snapshot.config = config
<1>. DEFINE a == [approvals EXCEPT !.replies = NoApprovals.replies]
<1>1. NoApprovals.replies \in [Keys -> Calls \cup {NONE}]
  BY DEF NoApprovals
<1>2. a \in ApprovalFiles /\ a.package = approvals.package /\ a.global = approvals.global
  BY <1>1 DEF Typed, ApprovalFiles
<1>. QED BY <1>2 DEF Snapshot, Typed, Drafts

\* Init holds no lock and runs no call.
LEMMA InitLockInv == ASSUME Init PROVE LockInv
<1>. USE GateAssumption
<1>1. Typed
  BY Blank DEF Init, Typed, NoVerdict, Mutating, Locked, Deciding
<1>2. LockHeld
  BY DEF Init, LockHeld, Locked
<1>. QED BY <1>1, <1>2 DEF Init, LockInv, Mutating, Locked

\* A step of p keeps the invariant when it keeps the types and the lock, lets the others be,
\* touches the files only when no other call holds the lock, and knows its own call.
LEMMA Others ==
  ASSUME LockInv, NEW p \in Procs, Typed', LockHeld',
         \A q \in Procs \ {p} : pc'[q] = pc[q] /\ job'[q] = job[q] /\ draft'[q] = draft[q],
         \A q \in Procs \ {p} : pc[q] \in Locked => approvals' = approvals /\ config' = config,
         pc'[p] \in Mutating => CallKnown(p)'
  PROVE  LockInv'
<1>1. ASSUME NEW q \in Procs \ {p}, pc'[q] \in Mutating PROVE CallKnown(q)'
  <2>1. CallKnown(q)
    BY <1>1 DEF LockInv
  <2>2. CASE pc[q] \in Locked
    BY <1>1, <2>1, <2>2 DEF CallKnown
  <2>3. CASE pc[q] \notin Locked
    BY <1>1, <2>1, <2>3 DEF CallKnown, Locked
  <2>. QED BY <2>2, <2>3
<1>. QED BY <1>1 DEF LockInv

\* While p holds the lock, no other call is where it holds it.
LEMMA Alone ==
  ASSUME LockInv, NEW p \in Procs, pc[p] \in Locked, NEW q \in Procs \ {p}
  PROVE  gateLock = p /\ pc[q] \notin Locked
BY DEF LockInv, LockHeld

\* A process that returns has left its call and nothing of it behind.
LEMMA Returned ==
  ASSUME Typed, NEW p \in Procs, Return(p)
  PROVE  /\ pc' \in [Procs -> {"idle"} \cup Mutating \cup Deciding]
         /\ job' \in [Procs -> Calls \cup Uses \cup {NONE}]
         /\ seen' \in [Procs -> Digests \cup {NONE}] /\ draft' \in [Procs -> Drafts]
         /\ verdict' \in [Procs -> [mode : Modes \cup {NONE}, task : Tasks \cup {NONE},
                                    digest : Digests \cup {MISSING, BROKEN, NONE}]]
         /\ before' \in [Procs -> SUBSET ((Tasks \cup {NONE}) \X {"verdict", "relock"})]
         /\ pc'[p] = "idle"
         /\ \A q \in Procs \ {p} : /\ pc'[q] = pc[q] /\ job'[q] = job[q] /\ draft'[q] = draft[q]
                                   /\ verdict'[q] = verdict[q] /\ before'[q] = before[q]
         /\ before'[p] = {}
         /\ \A q \in Procs : pc'[q] \in Mutating => job'[q] \in Calls
<1>. USE DEF Typed, Return, Goto
<1>1. NoVerdict \in [mode : Modes \cup {NONE}, task : Tasks \cup {NONE},
                     digest : Digests \cup {MISSING, BROKEN, NONE}]
  BY DEF NoVerdict
<1>2. /\ pc' \in [Procs -> {"idle"} \cup Mutating \cup Deciding]
      /\ job' \in [Procs -> Calls \cup Uses \cup {NONE}]
      /\ seen' \in [Procs -> Digests \cup {NONE}]
  OBVIOUS
<1>3. draft' \in [Procs -> Drafts]
  BY Blank
<1>4. verdict' \in [Procs -> [mode : Modes \cup {NONE}, task : Tasks \cup {NONE},
                              digest : Digests \cup {MISSING, BROKEN, NONE}]]
  BY <1>1
<1>5. before' \in [Procs -> SUBSET ((Tasks \cup {NONE}) \X {"verdict", "relock"})]
  OBVIOUS
<1>6. /\ pc'[p] = "idle" /\ before'[p] = {}
      /\ \A q \in Procs \ {p} : /\ pc'[q] = pc[q] /\ job'[q] = job[q] /\ draft'[q] = draft[q]
                                /\ verdict'[q] = verdict[q] /\ before'[q] = before[q]
  OBVIOUS
<1>7. "idle" \notin Mutating
  BY DEF Mutating, Locked
<1>. QED BY <1>2, <1>3, <1>4, <1>5, <1>6, <1>7

\* A call that ends, with its lock if it had one, and changes nothing on its last step
\* except that under the lock it may write the configuration.
LEMMA Ended ==
  ASSUME LockInv, NEW p \in Procs, Return(p),
         config' = config \/ (pc[p] \in Locked /\ config' \in ConfigFiles),
         UNCHANGED <<packages, approvals>>, closed' = closed,
         gateLock' \in Procs \cup {Free, Stale},
         IF pc[p] \in Locked THEN gateLock' \in {Free, Stale} ELSE gateLock' = gateLock
  PROVE  LockInv'
<1>. USE GateAssumption
<1>1. Typed'
  BY Returned DEF LockInv, Typed
<1>2. LockHeld'
  BY Returned, Alone DEF LockInv, LockHeld, Locked
<1>3. "idle" \notin Mutating
  BY DEF Mutating, Locked
<1>4. \A q \in Procs \ {p} : pc[q] \in Locked => approvals' = approvals /\ config' = config
  BY Alone
<1>. QED BY <1>1, <1>2, <1>3, <1>4, Returned, Others DEF LockInv
\* Start: a call begins to wait for the lock with a request of Calls.
LEMMA StartLockInv ==
  ASSUME LockInv, NEW p \in Procs, Start(p) PROVE LockInv'
<1>. USE GateAssumption DEF LockInv
<1>1. PICK c \in Calls :
        /\ c.op \in {"approve"} \cup Verdicts => packages[c.task] \in Digests
        /\ c.op = "baseline" => config.mode = "project_global" /\ c.task = Baseline
        /\ job' = [job EXCEPT ![p] = c]
        /\ seen' = [seen EXCEPT ![p] = IF c.op \in Verdicts THEN packages[c.task] ELSE NONE]
  BY DEF Start
<1>2. /\ pc' = [pc EXCEPT ![p] = "lock"] /\ pc[p] = "idle"
      /\ UNCHANGED <<packages, config, approvals, gateLock, draft, verdict, before, closed>>
  BY DEF Start, Goto, files, history
<1>3. /\ job'[p] = c /\ pc'[p] = "lock"
      /\ \A q \in Procs \ {p} : pc'[q] = pc[q] /\ job'[q] = job[q] /\ draft'[q] = draft[q]
  BY <1>1, <1>2 DEF Typed
<1>4. Typed'
  <2>1. seen' \in [Procs -> Digests \cup {NONE}]
    BY <1>1 DEF Typed
  <2>2. /\ pc' \in [Procs -> {"idle"} \cup Mutating \cup Deciding]
        /\ job' \in [Procs -> Calls \cup Uses \cup {NONE}]
    BY <1>1, <1>2 DEF Typed, Mutating
  <2>3. \A q \in Procs : pc'[q] \in Mutating => job'[q] \in Calls
    BY <1>1, <1>3 DEF Typed
  <2>. QED BY <2>1, <2>2, <2>3, <1>2 DEF Typed
<1>5. LockHeld'
  BY <1>2, <1>3 DEF LockHeld, Locked
<1>6. CallKnown(p)'
  BY <1>1, <1>3 DEF CallKnown, Locked
<1>. QED BY <1>2, <1>3, <1>4, <1>5, <1>6, Others

\* LoadUnderLock: the approvals are read again under the lock.
LEMMA LoadLockInv ==
  ASSUME LockInv, NEW p \in Procs, LoadUnderLock(p) PROVE LockInv'
<1>. USE GateAssumption DEF LockInv
<1>1. pc[p] = "lock" /\ gateLock = Free /\ UNCHANGED <<packages, config, approvals, closed>>
  BY DEF LoadUnderLock, history
<1>2. CASE Answered(p, approvals)
  BY <1>1, <1>2, Ended DEF LoadUnderLock, Locked, Typed
<1>3. CASE ~Answered(p, approvals)
  <2>1. /\ gateLock' = p /\ pc' = [pc EXCEPT ![p] = "change"]
        /\ draft' = [draft EXCEPT ![p].approvals = approvals]
        /\ UNCHANGED <<job, seen, verdict, before>>
    BY <1>3 DEF LoadUnderLock, Goto
  <2>2. /\ pc'[p] = "change" /\ draft'[p].approvals = approvals
        /\ \A q \in Procs \ {p} : pc'[q] = pc[q] /\ job'[q] = job[q] /\ draft'[q] = draft[q]
    BY <2>1 DEF Typed, Drafts
  <2>3. Typed'
    <3>1. draft' \in [Procs -> Drafts]
      BY <2>1 DEF Typed, Drafts
    <3>2. pc' \in [Procs -> {"idle"} \cup Mutating \cup Deciding]
      BY <2>1 DEF Typed, Mutating, Locked
    <3>3. \A q \in Procs : pc'[q] \in Mutating => job'[q] \in Calls
      BY <1>1, <2>1, <2>2 DEF Typed, Mutating, Locked
    <3>. QED BY <3>1, <3>2, <3>3, <2>1, <1>1 DEF Typed
  <2>4. LockHeld'
    BY <1>1, <2>1, <2>2 DEF LockHeld, Locked
  <2>5. CallKnown(p)'
    <3>1. CallKnown(p)
      BY <1>1 DEF Mutating
    <3>. QED BY <1>1, <1>3, <2>1, <2>2, <3>1 DEF CallKnown, Locked, Answered
  <2>. QED BY <1>1, <2>2, <2>3, <2>4, <2>5, Others
<1>. QED BY <1>2, <1>3

\* The callbacks that change a package only, and keep the approvals as they read them.
LEMMA PackageLockInv ==
  ASSUME LockInv, NEW p \in Procs, NEW l \in {"revising", "save"}, pc[p] = "change",
         IF l = "revising" THEN job[p].op = "revise" ELSE job[p].op = "create",
         packages' \in [Tasks -> Digests \cup {MISSING, BROKEN}],
         pc' = [pc EXCEPT ![p] = l],
         UNCHANGED <<config, approvals, gateLock, job, seen, draft, verdict, before, closed>>
  PROVE  LockInv'
<1>. USE DEF LockInv
<1>1. /\ pc'[p] = l
      /\ \A q \in Procs \ {p} : pc'[q] = pc[q] /\ job'[q] = job[q] /\ draft'[q] = draft[q]
  BY DEF Typed
<1>2. Typed'
  <2>1. pc' \in [Procs -> {"idle"} \cup Mutating \cup Deciding]
    BY DEF Typed, Mutating, Locked
  <2>2. \A q \in Procs : pc'[q] \in Mutating => job'[q] \in Calls
    BY <1>1 DEF Typed, Mutating, Locked
  <2>. QED BY <2>1, <2>2 DEF Typed
<1>3. LockHeld'
  BY <1>1 DEF LockHeld, Locked
<1>4. CallKnown(p)'
  <2>1. CallKnown(p)
    BY DEF Mutating, Locked
  <2>. QED BY <1>1, <2>1 DEF CallKnown, Locked, Verdicts
<1>. QED BY <1>1, <1>2, <1>3, <1>4, Others

\* The callbacks that put a record r under their own task.
LEMMA RecordLockInv ==
  ASSUME LockInv, NEW p \in Procs, NEW r \in Records,
         pc[p] \in {"change", "revising"}, job[p].op \in {"approve", "revise"} \cup Verdicts,
         job[p].task \in Tasks,
         job[p].op = "approve" => r.digest = job[p].digest,
         job[p].op # "approve" => r.status # "approved",
         ChangeRecord(p, r),
         packages' \in [Tasks -> Digests \cup {MISSING, BROKEN}],
         UNCHANGED <<config, approvals, gateLock, job, seen, verdict, before, closed>>
  PROVE  LockInv'
<1>. USE DEF LockInv
<1>. DEFINE t == job[p].task
            a == [draft[p].approvals EXCEPT !.package[t] = r]
<1>1. /\ draft' = [draft EXCEPT ![p] = [draft[p] EXCEPT !.approvals = a]]
      /\ pc' = [pc EXCEPT ![p] = "save"]
  BY DEF ChangeRecord, Goto
<1>2. draft[p] \in Drafts /\ draft[p].approvals \in ApprovalFiles
  BY DEF Typed, Drafts
<1>3. /\ a \in ApprovalFiles /\ a.replies = draft[p].approvals.replies
      /\ a.global = draft[p].approvals.global /\ a.package[t] = r
      /\ \A u \in Tasks \ {t} : a.package[u] = draft[p].approvals.package[u]
  BY <1>2 DEF ApprovalFiles
<1>4. /\ draft' \in [Procs -> Drafts] /\ draft'[p].approvals = a /\ pc'[p] = "save"
      /\ \A q \in Procs \ {p} : pc'[q] = pc[q] /\ job'[q] = job[q] /\ draft'[q] = draft[q]
  BY <1>1, <1>2, <1>3 DEF Typed, Drafts
<1>5. Typed'
  <2>1. pc' \in [Procs -> {"idle"} \cup Mutating \cup Deciding]
    BY <1>1 DEF Typed, Mutating, Locked
  <2>2. \A q \in Procs : pc'[q] \in Mutating => job'[q] \in Calls
    BY <1>4 DEF Typed, Mutating, Locked
  <2>. QED BY <1>4, <2>1, <2>2 DEF Typed
<1>6. LockHeld'
  BY <1>4 DEF LockHeld, Locked
<1>7. CallKnown(p)'
  <2>1. CallKnown(p)
    BY DEF Mutating, Locked
  <2>2. pc[p] \in Locked /\ pc'[p] \in Locked
    BY <1>4 DEF Locked
  <2>. QED BY <1>3, <1>4, <2>1, <2>2 DEF CallKnown, Verdicts
<1>. QED BY <1>4, <1>5, <1>6, <1>7, Others
\* Create, ReviseManifest, ReviseFiles: a package is made or revised under the lock.
LEMMA PackagesLockInv ==
  ASSUME LockInv, NEW p \in Procs, Create(p) \/ ReviseManifest(p) \/ ReviseFiles(p)
  PROVE  LockInv'
<1>. USE GateAssumption DEF LockInv
<1>1. ASSUME Refuse(p), pc[p] = "change", UNCHANGED <<packages, config, approvals, closed>>
      PROVE  LockInv'
  BY <1>1, Ended DEF Refuse, Locked
<1>2. CASE Create(p)
  <2>1. CASE packages[job[p].task] # MISSING
    BY <1>1, <1>2, <2>1 DEF Create, history
  <2>2. CASE packages[job[p].task] = MISSING
    <3>1. /\ pc[p] = "change" /\ job[p].op = "create" /\ job[p] \in Calls
          /\ job[p].task \in Tasks /\ job[p].digest \in Digests
      BY <1>2 DEF Create, Typed, Mutating, Locked
    <3>2. /\ packages' \in [Tasks -> Digests \cup {MISSING, BROKEN}]
          /\ pc' = [pc EXCEPT ![p] = "save"]
          /\ UNCHANGED <<config, approvals, gateLock, job, seen, draft, verdict, before, closed>>
      <4>1. packages' = [packages EXCEPT ![job[p].task] = job[p].digest]
        BY <1>2, <2>2 DEF Create
      <4>2. packages' \in [Tasks -> Digests \cup {MISSING, BROKEN}]
        BY <3>1, <4>1 DEF Typed
      <4>. QED BY <1>2, <2>2, <4>2 DEF Create, Goto, history
    <3>. QED BY <3>1, <3>2, PackageLockInv
  <2>. QED BY <2>1, <2>2
<1>3. CASE ReviseManifest(p)
  <2>1. CASE packages[job[p].task] = MISSING
    BY <1>1, <1>3, <2>1 DEF ReviseManifest, history
  <2>2. CASE packages[job[p].task] # MISSING
    <3>1. /\ pc[p] = "change" /\ job[p].op = "revise"
          /\ packages' = [packages EXCEPT ![job[p].task] = BROKEN]
          /\ pc' = [pc EXCEPT ![p] = "revising"]
          /\ UNCHANGED <<config, approvals, gateLock, job, seen, draft, verdict, before, closed>>
      BY <1>3, <2>2 DEF ReviseManifest, Goto, history
    <3>2. packages' \in [Tasks -> Digests \cup {MISSING, BROKEN}]
      BY <3>1 DEF Typed
    <3>. QED BY <3>1, <3>2, PackageLockInv
  <2>. QED BY <2>1, <2>2
<1>4. CASE ReviseFiles(p)
  <2>1. /\ pc[p] = "revising" /\ job[p] \in Calls /\ job[p].op = "revise"
        /\ job[p].task \in Tasks /\ job[p].digest \in Digests
    BY <1>4 DEF ReviseFiles, Typed, CallKnown, Mutating, Locked
  <2>2. DEFINE r == Record(p, "pending_approval", job[p].digest)
  <2>3. r \in Records /\ r.status # "approved"
    BY <2>1 DEF Record, Records
  <2>4. /\ packages' \in [Tasks -> Digests \cup {MISSING, BROKEN}] /\ ChangeRecord(p, r)
        /\ UNCHANGED <<config, approvals, gateLock, job, seen, verdict, before, closed>>
    BY <1>4, <2>1 DEF ReviseFiles, Typed, history
  <2>. HIDE DEF r
  <2>. QED BY <2>1, <2>3, <2>4, RecordLockInv
<1>. QED BY <1>2, <1>3, <1>4

\* Approve and RecordVerdict: the record that a user's decision puts under its task.
LEMMA UserLockInv ==
  ASSUME LockInv, NEW p \in Procs, Approve(p) \/ RecordVerdict(p) PROVE LockInv'
<1>. USE GateAssumption DEF LockInv
<1>1. CASE Approve(p)
  <2>1. /\ pc[p] = "change" /\ job[p] \in Calls /\ job[p].op = "approve"
        /\ job[p].task \in Tasks /\ job[p].digest \in Digests
        /\ UNCHANGED <<packages, config, approvals, closed>>
    BY <1>1 DEF Approve, Typed, Mutating, Locked, history
  <2>2. CASE ~AsExpected(p)
    BY <1>1, <2>1, <2>2, Ended DEF Approve, Refuse, Locked
  <2>3. CASE AsExpected(p)
    <3>1. DEFINE r == Record(p, "approved", packages[job[p].task])
    <3>2. r \in Records /\ r.digest = job[p].digest
      BY <2>1, <2>3 DEF Record, Records, AsExpected, Typed, ConfigFiles
    <3>3. ChangeRecord(p, r) /\ UNCHANGED <<gateLock, job, seen, verdict, before>>
      BY <1>1, <2>3 DEF Approve
    <3>. HIDE DEF r
    <3>. QED BY <2>1, <3>2, <3>3, RecordLockInv DEF Typed
  <2>. QED BY <2>2, <2>3
<1>2. CASE RecordVerdict(p)
  <2>1. /\ pc[p] = "change" /\ job[p] \in Calls /\ job[p].op \in Verdicts
        /\ job[p].task \in Tasks /\ seen[p] \in Digests \cup {NONE}
        /\ UNCHANGED <<packages, config, approvals, gateLock, job, seen, verdict, before, closed>>
    BY <1>2 DEF RecordVerdict, Typed, Mutating, Locked, files, history
  <2>2. DEFINE r == Record(p, job[p].op, seen[p])
  <2>3. r \in Records /\ r.status # "approved"
    BY <2>1 DEF Record, Records, Verdicts
  <2>4. ChangeRecord(p, r) /\ job[p].op # "approve"
    BY <1>2, <2>1 DEF RecordVerdict, Verdicts
  <2>. HIDE DEF r
  <2>. QED BY <2>1, <2>3, <2>4, RecordLockInv DEF Typed
<1>. QED BY <1>1, <1>2

\* Configure: config.json is written under the lock, before the reply is saved.
LEMMA ConfigureLockInv ==
  ASSUME LockInv, NEW p \in Procs, Configure(p) PROVE LockInv'
<1>. USE GateAssumption DEF LockInv
<1>1. /\ pc[p] = "change" /\ job[p] \in Calls
      /\ job[p].op \in {"set_mode", "set_paths", "relock", "enable"}
      /\ UNCHANGED <<packages, approvals, closed, unlocked>>
  BY DEF Configure, Typed, Mutating, Locked, history
<1>2. CASE Refuse(p) /\ config' \in {config, [config EXCEPT !.smoke = "failed"]}
  <2>1. config' \in ConfigFiles
    BY <1>2 DEF Typed, ConfigFiles
  <2>2. pc[p] \in Locked
    BY <1>1 DEF Locked
  <2>. QED BY <1>1, <1>2, <2>1, <2>2, Ended DEF Refuse, Typed
<1>3. CASE /\ config' = NewConfig(job[p]) /\ pc' = [pc EXCEPT ![p] = "save"]
           /\ UNCHANGED <<job, seen, draft, verdict, before, gateLock>>
  <2>1. config' \in ConfigFiles
        /\ (job[p].op \in {"relock", "set_mode", "set_paths"} => config'.relocked)
    <3>1. job[p].op = "set_mode" => job[p].mode \in Modes
      BY <1>1
    <3>2. config \in ConfigFiles
      BY DEF Typed
    <3>. QED BY <1>1, <1>3, <3>1, <3>2 DEF NewConfig, ConfigFiles
  <2>2. /\ pc'[p] = "save"
        /\ \A q \in Procs \ {p} : pc'[q] = pc[q] /\ job'[q] = job[q] /\ draft'[q] = draft[q]
    BY <1>3 DEF Typed
  <2>3. Typed'
    <3>1. pc' \in [Procs -> {"idle"} \cup Mutating \cup Deciding]
      BY <1>3 DEF Typed, Mutating, Locked
    <3>2. \A q \in Procs : pc'[q] \in Mutating => job'[q] \in Calls
      BY <1>1, <1>3, <2>2 DEF Typed
    <3>. QED BY <1>1, <1>3, <2>1, <3>1, <3>2 DEF Typed
  <2>4. LockHeld'
    BY <1>1, <1>3, <2>2 DEF LockHeld, Locked
  <2>5. CallKnown(p)'
    <3>1. CallKnown(p)
      BY <1>1 DEF Mutating, Locked
    <3>. QED BY <1>1, <1>3, <2>1, <2>2, <3>1 DEF CallKnown, Locked, Verdicts
  <2>6. \A q \in Procs \ {p} : pc[q] \in Locked => approvals' = approvals /\ config' = config
    BY <1>1, Alone DEF Locked
  <2>. QED BY <2>2, <2>3, <2>4, <2>5, <2>6, Others
<1>. QED BY <1>2, <1>3 DEF Configure, Goto

\* ApproveBaseline: the configuration is unlocked, the approval drafted.
LEMMA BaselineLockInv ==
  ASSUME LockInv, NEW p \in Procs, ApproveBaseline(p) PROVE LockInv'
<1>. USE GateAssumption DEF LockInv
<1>1. /\ pc[p] = "change" /\ job[p] \in Calls /\ job[p].op = "baseline"
      /\ job[p].digest \in Digests /\ UNCHANGED <<packages, approvals>>
  BY DEF ApproveBaseline, Typed, Mutating, Locked
<1>2. CASE ~AsExpected(p)
  BY <1>1, <1>2, Ended DEF ApproveBaseline, Refuse, Locked
<1>3. CASE AsExpected(p)
  <2>. DEFINE r == [status |-> "approved", digest |-> job[p].digest, mode |-> "project_global"]
              a == [draft[p].approvals EXCEPT !.global = r]
  <2>1. /\ config' = [config EXCEPT !.relocked = FALSE]
        /\ draft' = [draft EXCEPT ![p] = [draft[p] EXCEPT !.approvals = a]]
        /\ unlocked' = TRUE
        /\ pc' = [pc EXCEPT ![p] = "save"]
        /\ UNCHANGED <<job, seen, verdict, before, closed, gateLock>>
    BY <1>3 DEF ApproveBaseline, Goto
  <2>2. r \in Records
    BY <1>1 DEF Records, Modes
  <2>3. draft[p] \in Drafts /\ draft[p].approvals \in ApprovalFiles
    BY DEF Typed, Drafts
  <2>4. /\ a \in ApprovalFiles /\ a.replies = draft[p].approvals.replies
        /\ a.package = draft[p].approvals.package /\ a.global = r
    BY <2>2, <2>3 DEF ApprovalFiles
  <2>5. /\ draft' \in [Procs -> Drafts] /\ draft'[p].approvals = a /\ pc'[p] = "save"
        /\ \A q \in Procs \ {p} : pc'[q] = pc[q] /\ job'[q] = job[q] /\ draft'[q] = draft[q]
    BY <2>1, <2>3, <2>4 DEF Typed, Drafts
  <2>6. Typed'
    <3>1. pc' \in [Procs -> {"idle"} \cup Mutating \cup Deciding]
      BY <2>1 DEF Typed, Mutating, Locked
    <3>2. \A q \in Procs : pc'[q] \in Mutating => job'[q] \in Calls
      BY <1>1, <2>1, <2>5 DEF Typed
    <3>3. config' \in ConfigFiles
      BY <2>1 DEF Typed, ConfigFiles
    <3>4. before' \in [Procs -> SUBSET ((Tasks \cup {NONE}) \X {"verdict", "relock"})]
          /\ closed' \subseteq (Tasks \cup {NONE}) \X {"verdict", "relock"}
      BY <2>1 DEF Typed
    <3>. QED BY <1>1, <2>1, <2>5, <3>1, <3>2, <3>3, <3>4 DEF Typed
  <2>7. LockHeld'
    BY <1>1, <2>1, <2>5 DEF LockHeld, Locked
  <2>8. CallKnown(p)'
    <3>1. CallKnown(p)
      BY <1>1 DEF Mutating, Locked
    <3>2. a.global.digest = job[p].digest
      BY <2>4
    <3>. QED BY <1>1, <2>1, <2>4, <2>5, <3>1, <3>2 DEF CallKnown, Locked, Verdicts
  <2>9. \A q \in Procs \ {p} : pc[q] \in Locked => approvals' = approvals /\ config' = config
    BY <1>1, Alone DEF Locked
  <2>. QED BY <2>5, <2>6, <2>7, <2>8, <2>9, Others
<1>. QED BY <1>2, <1>3

\* What Save makes of the history stays in its type.
LEMMA ClosingTyped ==
  ASSUME Typed, NEW c \in Calls
  PROVE  Closing(c) \subseteq (Tasks \cup {NONE}) \X {"verdict", "relock"}
<1>1. c.op \in Verdicts \cup {"revise"} => c.task \in Tasks
  BY GateAssumption
<1>2. CASE c.op = "approve"
  BY <1>2 DEF Typed, Closing, Verdicts
<1>3. CASE c.op \in Verdicts \cup {"revise"}
  BY <1>1, <1>3 DEF Typed, Closing, Verdicts
<1>4. CASE c.op \in {"relock", "set_mode", "set_paths"}
  BY <1>4 DEF Typed, Closing, Verdicts
<1>5. CASE c.op \notin {"approve", "revise", "relock", "set_mode", "set_paths"} \cup Verdicts
  BY <1>5 DEF Typed, Closing
<1>. QED BY <1>2, <1>3, <1>4, <1>5

\* Save: approvals.json is replaced and the lock goes.
LEMMA SaveLockInv ==
  ASSUME LockInv, NEW p \in Procs, Save(p) PROVE LockInv'
<1>. USE GateAssumption DEF LockInv
<1>. DEFINE c == job[p]
            a == [draft[p].approvals EXCEPT !.replies[c.key] = c]
<1>1. /\ pc[p] = "save" /\ approvals' = a
      /\ closed' = Closing(c) /\ before' = [q \in Procs |-> before[q] \cap Closing(c)]
      /\ gateLock' = Free /\ draft' = [draft EXCEPT ![p] = Unread]
      /\ seen' = [seen EXCEPT ![p] = NONE] /\ pc' = [pc EXCEPT ![p] = "refresh"]
      /\ UNCHANGED <<packages, config, context, job, verdict>>
  BY DEF Save, Goto
<1>2. c \in Calls /\ c.key \in Keys
  BY <1>1 DEF Typed, Mutating, Locked, CallType
<1>3. a \in ApprovalFiles
  BY <1>2 DEF Typed, Drafts, ApprovalFiles
<1>4. /\ pc'[p] = "refresh"
      /\ \A q \in Procs \ {p} : pc'[q] = pc[q] /\ job'[q] = job[q] /\ draft'[q] = draft[q]
  BY <1>1 DEF Typed
<1>5. Typed'
  <2>1. pc' \in [Procs -> {"idle"} \cup Mutating \cup Deciding]
    BY <1>1 DEF Typed, Mutating, Locked
  <2>2. \A q \in Procs : pc'[q] \in Mutating => job'[q] \in Calls
    BY <1>1, <1>2, <1>4 DEF Typed
  <2>3. draft' \in [Procs -> Drafts]
    BY <1>1, Blank DEF Typed
  <2>4. before' \in [Procs -> SUBSET ((Tasks \cup {NONE}) \X {"verdict", "relock"})]
        /\ closed' \subseteq (Tasks \cup {NONE}) \X {"verdict", "relock"}
    BY <1>1, <1>2, ClosingTyped DEF Typed
  <2>5. seen' \in [Procs -> Digests \cup {NONE}]
    BY <1>1 DEF Typed
  <2>. QED BY <1>1, <1>3, <2>1, <2>2, <2>3, <2>4, <2>5 DEF Typed
<1>6. LockHeld'
  BY <1>1, <1>4, Alone DEF LockHeld, Locked
<1>7. CallKnown(p)'
  <2>1. CallKnown(p)
    BY <1>1 DEF Mutating, Locked
  <2>. QED BY <1>1, <1>4, <2>1 DEF CallKnown, Locked
<1>8. \A q \in Procs \ {p} : pc[q] \in Locked => approvals' = approvals /\ config' = config
  BY <1>1, Alone DEF Locked
<1>. QED BY <1>4, <1>5, <1>6, <1>7, <1>8, Others
\* Refresh and the two reads of a decision: a process reads into its draft.
LEMMA ReadLockInv ==
  ASSUME LockInv, NEW p \in Procs, Refresh(p) \/ DecideByConfig(p) \/ DecideReadApprovals(p)
  PROVE  LockInv'
<1>. USE GateAssumption DEF LockInv
<1>1. /\ UNCHANGED <<packages, config, approvals, gateLock, seen, verdict, closed>>
      /\ pc[p] \in {"refresh", "idle", "approvals"} /\ pc'[p] \in {"publish", "approvals", "digest"}
      /\ \A q \in Procs \ {p} : pc'[q] = pc[q] /\ job'[q] = job[q] /\ draft'[q] = draft[q]
      /\ pc' \in [Procs -> {"idle"} \cup Mutating \cup Deciding]
      /\ pc'[p] = "publish" => pc[p] = "refresh" /\ job' = job
  <2>. USE DEF Goto, Typed, files, history, Mutating, Locked, Deciding
  <2>1. CASE Refresh(p)
    BY <2>1 DEF Refresh
  <2>2. CASE DecideByConfig(p)
    BY <2>2 DEF DecideByConfig
  <2>3. CASE DecideReadApprovals(p)
    BY <2>3 DEF DecideReadApprovals
  <2>. QED BY <2>1, <2>2, <2>3
<1>2. draft' \in [Procs -> Drafts]
  <2>1. CASE Refresh(p)
    BY <2>1, SnapshotTyped DEF Refresh, Typed
  <2>2. CASE DecideByConfig(p)
    <3>1. draft \in [Procs -> Drafts] /\ config \in ConfigFiles
      BY DEF Typed
    <3>2. draft' = [draft EXCEPT ![p].config = config]
      BY <2>2 DEF DecideByConfig
    <3>. QED BY <3>1, <3>2 DEF Drafts
  <2>3. CASE DecideReadApprovals(p)
    <3>1. draft \in [Procs -> Drafts] /\ Snapshot.approvals \in ApprovalFiles
      BY SnapshotTyped DEF Drafts, Typed
    <3>2. draft' = [draft EXCEPT ![p].approvals = Snapshot.approvals]
      BY <2>3 DEF DecideReadApprovals
    <3>. QED BY <3>1, <3>2 DEF Drafts
  <2>. QED BY <2>1, <2>2, <2>3
<1>3. /\ job' \in [Procs -> Calls \cup Uses \cup {NONE}]
      /\ before' \in [Procs -> SUBSET ((Tasks \cup {NONE}) \X {"verdict", "relock"})]
  <2>1. CASE Refresh(p) \/ DecideReadApprovals(p)
    BY <2>1 DEF Refresh, DecideReadApprovals, Typed
  <2>2. CASE DecideByConfig(p)
    BY <2>2 DEF DecideByConfig, Typed, Uses
  <2>. QED BY <2>1, <2>2
<1>4. \A q \in Procs : pc'[q] \in Mutating => job'[q] \in Calls
  BY <1>1 DEF Typed, Mutating, Locked
<1>5. Typed'
  BY <1>1, <1>2, <1>3, <1>4 DEF Typed
<1>6. LockHeld'
  BY <1>1 DEF LockHeld, Locked
<1>7. pc'[p] \in Mutating => CallKnown(p)'
  <2>1. pc'[p] \in Mutating => CallKnown(p)
    BY <1>1 DEF Mutating, Locked
  <2>. QED BY <1>1, <2>1 DEF CallKnown, Mutating, Locked
<1>. QED BY <1>1, <1>5, <1>6, <1>7, Others

\* LockTimeout, PublishContext, Proceed, a denying Decide and Crash end a call.
LEMMA EndLockInv ==
  ASSUME LockInv, NEW p \in Procs,
         LockTimeout(p) \/ PublishContext(p) \/ Proceed(p) \/ Crash(p)
           \/ (Decide(p) /\ Return(p))
  PROVE  LockInv'
<1>. USE GateAssumption
<1>1. Return(p) /\ UNCHANGED <<packages, config, approvals>> /\ closed' = closed
  BY DEF LockTimeout, PublishContext, Proceed, Crash, Decide, files, history
<1>2. /\ gateLock' \in Procs \cup {Free, Stale}
      /\ IF pc[p] \in Locked THEN gateLock' \in {Free, Stale} ELSE gateLock' = gateLock
  <2>1. CASE Crash(p)
    BY <2>1 DEF Crash, LockInv, LockHeld, Typed
  <2>2. CASE ~Crash(p)
    BY <2>2 DEF LockTimeout, PublishContext, Proceed, Decide, files, LockInv, Typed, Locked
  <2>. QED BY <2>1, <2>2
<1>. QED BY <1>1, <1>2, Ended

\* Decide, allowing: the design it rests on is remembered.
LEMMA AllowLockInv ==
  ASSUME LockInv, NEW p \in Procs, Decide(p), ~Return(p) PROVE LockInv'
<1>. USE GateAssumption DEF LockInv
<1>. DEFINE Rests(m, t) == [mode |-> m, task |-> t, digest |-> packages[t]]
<1>1. PICK m \in Modes, t \in Tasks : verdict' = [verdict EXCEPT ![p] = Rests(m, t)]
  <2>1. CASE draft[p].config.mode = "project_global"
    <3>1. verdict' = [verdict EXCEPT ![p] = Rests("project_global", Baseline)]
      BY <2>1 DEF Decide
    <3>. QED BY <3>1 DEF Modes
  <2>2. CASE draft[p].config.mode # "project_global"
    <3>1. PICK t \in ApprovingPackages(p) :
            verdict' = [verdict EXCEPT ![p] = Rests("design_package", t)]
      BY <2>2 DEF Decide
    <3>. QED BY <3>1 DEF ApprovingPackages, Modes
  <2>. QED BY <2>1, <2>2
<1>2. /\ UNCHANGED <<packages, config, approvals, gateLock, job, seen, before, closed>>
      /\ pc[p] = "digest" /\ pc' = [pc EXCEPT ![p] = "allowed"]
      /\ draft' = [draft EXCEPT ![p] = Unread]
  BY DEF Decide, Goto, files, history
<1>3. /\ pc'[p] = "allowed"
      /\ \A q \in Procs \ {p} : pc'[q] = pc[q] /\ job'[q] = job[q] /\ draft'[q] = draft[q]
  BY <1>2 DEF Typed
<1>4. Typed'
  <2>1. pc' \in [Procs -> {"idle"} \cup Mutating \cup Deciding]
    BY <1>2 DEF Typed, Deciding
  <2>2. \A q \in Procs : pc'[q] \in Mutating => job'[q] \in Calls
    BY <1>2, <1>3 DEF Typed, Mutating, Locked
  <2>3. draft' \in [Procs -> Drafts]
    BY <1>2, Blank DEF Typed
  <2>4. verdict' \in [Procs -> [mode : Modes \cup {NONE}, task : Tasks \cup {NONE},
                                digest : Digests \cup {MISSING, BROKEN, NONE}]]
    <3>1. Rests(m, t) \in [mode : Modes \cup {NONE}, task : Tasks \cup {NONE},
                           digest : Digests \cup {MISSING, BROKEN, NONE}]
      BY DEF Typed
    <3>. QED BY <1>1, <3>1 DEF Typed
  <2>. QED BY <1>2, <2>1, <2>2, <2>3, <2>4 DEF Typed
<1>5. LockHeld'
  BY <1>2, <1>3 DEF LockHeld, Locked
<1>6. pc'[p] \notin Mutating
  BY <1>3 DEF Mutating, Locked
<1>. QED BY <1>2, <1>3, <1>4, <1>5, <1>6, Others

\* A designer's edit touches neither the lock nor what is written under it.
LEMMA EditLockInv ==
  ASSUME LockInv, NEW t \in Tasks, EditDesign(t) PROVE LockInv'
<1>1. /\ packages' \in [Tasks -> Digests \cup {MISSING, BROKEN}]
      /\ UNCHANGED <<config, approvals, gateLock, pc, job, seen, draft, verdict, before, closed>>
  BY DEF LockInv, Typed, EditDesign, locals, history
<1>. QED BY <1>1 DEF LockInv, Typed, LockHeld, CallKnown

\* A step that changes nothing.
LEMMA StutterLockInv ==
  ASSUME LockInv, UNCHANGED vars PROVE LockInv'
BY DEF LockInv, Typed, LockHeld, CallKnown, vars, files, locals, history

LEMMA NextLockInv ==
  ASSUME LockInv, [Next]_vars PROVE LockInv'
BY StartLockInv, LoadLockInv, PackagesLockInv, UserLockInv, ConfigureLockInv, BaselineLockInv,
   SaveLockInv, ReadLockInv, EndLockInv, AllowLockInv, EditLockInv, StutterLockInv DEF Next

\* The lock is held by the mutation that is under it, and that mutation knows that its key
\* is unanswered and what of the approvals it is about to replace.
THEOREM LockIsHeld == Spec => []LockInv
<1>1. Init => LockInv
  BY InitLockInv
<1>2. LockInv /\ [Next]_vars => LockInv'
  BY NextLockInv
<1>. QED BY <1>1, <1>2, PTL DEF Spec

\* Type correctness: every file holds what its readers accept.
THEOREM TypeCorrect == Spec => []TypeOK
<1>1. LockInv => TypeOK
  BY DEF LockInv, Typed, TypeOK, ConfigFiles, ApprovalFiles, Records
<1>. QED BY <1>1, LockIsHeld, PTL

-----------------------------------------------------------------------------
(* What a save does *)

\* Only a save leads from where the reply is written to the refresh.
LEMMA SavingStep ==
  ASSUME LockInv, [Next]_vars, NEW p \in Procs, pc[p] = "save", pc'[p] = "refresh"
  PROVE  Save(p)
<1>1. pc \in [Procs -> {"idle"} \cup Mutating \cup Deciding]
  BY DEF LockInv, Typed
<1>2. ASSUME NEW q \in Procs, q # p PROVE ~(\E l : pc' = [pc EXCEPT ![q] = l])
  BY <1>1, <1>2
<1>3. ~(\E l : l # "refresh" /\ pc' = [pc EXCEPT ![p] = l])
  BY <1>1
<1>4. pc' # pc
  OBVIOUS
<1>5. ASSUME NEW q \in Procs,
             \/ Start(q) \/ LoadUnderLock(q) \/ LockTimeout(q)
             \/ Create(q) \/ ReviseManifest(q) \/ ReviseFiles(q) \/ Approve(q)
             \/ RecordVerdict(q) \/ Configure(q) \/ ApproveBaseline(q)
             \/ Refresh(q) \/ PublishContext(q)
             \/ DecideByConfig(q) \/ DecideReadApprovals(q) \/ Decide(q) \/ Proceed(q)
             \/ Crash(q)
      PROVE  \E l : l # "refresh" /\ pc' = [pc EXCEPT ![q] = l]
  BY <1>5 DEF Start, LoadUnderLock, LockTimeout, Create, ReviseManifest, ReviseFiles, Approve,
              RecordVerdict, Configure, ApproveBaseline, Refresh, PublishContext, DecideByConfig,
              DecideReadApprovals, Decide, Proceed, Crash, Goto, Return, Refuse, ChangeRecord
<1>6. ASSUME NEW q \in Procs, Save(q) PROVE pc' = [pc EXCEPT ![q] = "refresh"]
  BY <1>6 DEF Save, Goto
<1>7. ASSUME NEW t \in Tasks, EditDesign(t) PROVE pc' = pc
  BY <1>7 DEF EditDesign, locals
<1>. QED BY <1>2, <1>3, <1>4, <1>5, <1>6, <1>7 DEF Next, vars, locals

\* An idempotency key takes effect once (_mutate reads the replies again under the lock).
THEOREM KeysTakeEffectOnce == Spec => EffectOnce
<1>1. ASSUME LockInv, [Next]_vars
      PROVE  [\A p \in Procs : pc[p] = "save" /\ pc'[p] = "refresh"
                                 => approvals.replies[job[p].key] = NONE]_vars
  BY <1>1 DEF LockInv, CallKnown, Mutating, Locked
<1>. QED BY <1>1, LockIsHeld, PTL DEF Spec, EffectOnce

\* A call never takes back what another call recorded: what it writes is what it read under
\* the lock, except for its own task, its own reply or, for a baseline, the project's record.
THEOREM OthersAreKept == Spec => RecordsKept
<1>. DEFINE Kept ==
       \A p \in Procs : pc[p] = "save" /\ pc'[p] = "refresh" =>
         /\ \A t \in Tasks : approvals'.package[t] = approvals.package[t]
                              \/ (job[p].task = t /\ job[p].op # "baseline")
         /\ approvals'.global = approvals.global \/ job[p].op = "baseline"
         /\ \A k \in Keys \ {job[p].key} : approvals'.replies[k] = approvals.replies[k]
<1>1. ASSUME LockInv, [Next]_vars PROVE [Kept]_vars
  <2>1. ASSUME NEW p \in Procs, pc[p] = "save", pc'[p] = "refresh"
        PROVE  /\ \A t \in Tasks : approvals'.package[t] = approvals.package[t]
                                    \/ (job[p].task = t /\ job[p].op # "baseline")
               /\ approvals'.global = approvals.global \/ job[p].op = "baseline"
               /\ \A k \in Keys \ {job[p].key} : approvals'.replies[k] = approvals.replies[k]
    <3>1. approvals' = [draft[p].approvals EXCEPT !.replies[job[p].key] = job[p]]
      BY <1>1, <2>1, SavingStep DEF Save
    <3>2. draft[p].approvals \in ApprovalFiles
      BY <1>1 DEF LockInv, Typed, Drafts
    <3>3. /\ approvals'.package = draft[p].approvals.package
          /\ approvals'.global = draft[p].approvals.global
          /\ \A k \in Keys \ {job[p].key} : approvals'.replies[k] = draft[p].approvals.replies[k]
      BY <3>1, <3>2 DEF ApprovalFiles
    <3>4. CallKnown(p) /\ pc[p] \in Locked
      BY <1>1, <2>1 DEF LockInv, Mutating, Locked
    <3>. QED BY <3>3, <3>4 DEF CallKnown, Verdicts
  <2>. QED BY <2>1
<1>. QED BY <1>1, LockIsHeld, PTL DEF Spec, RecordsKept
-----------------------------------------------------------------------------
(* The gate *)

LEMMA InitGateInv == ASSUME Init PROVE GateInv
<1>1. Recorded
  BY DEF Init, Recorded, NoApprovals, Unapproved, FirstConfig
<1>. QED BY <1>1 DEF Init, GateInv, DecisionKnown, AllowedIsApproved

\* A step of p alone: the other decisions know as much as before when what they rest on is
\* not taken back and nothing is closed behind them.
LEMMA Decisions ==
  ASSUME LockInv, GateInv, NEW p \in Procs, Recorded', given \subseteq given',
         \A q \in Procs \ {p} : /\ pc'[q] = pc[q] /\ job'[q] = job[q] /\ draft'[q] = draft[q]
                                /\ verdict'[q] = verdict[q] /\ before'[q] \subseteq before[q],
         DecisionKnown(p)',
         pc'[p] = "allowed" =>
           LET v == verdict'[p] IN
           /\ <<v.task, v.digest>> \in given'
           /\ v.mode = "design_package" => /\ job'[p].file \in Scope[v.digest]
                                           /\ <<v.task, "verdict">> \notin before'[p]
           /\ v.mode = "project_global" => <<NONE, "relock">> \notin before'[p]
  PROVE  GateInv'
<1>1. ASSUME NEW q \in Procs \ {p} PROVE DecisionKnown(q)'
  BY DEF GateInv, DecisionKnown
<1>2. ASSUME NEW q \in Procs \ {p}, pc'[q] = "allowed"
      PROVE  LET v == verdict'[q] IN
             /\ <<v.task, v.digest>> \in given'
             /\ v.mode = "design_package" => /\ job'[q].file \in Scope[v.digest]
                                             /\ <<v.task, "verdict">> \notin before'[q]
             /\ v.mode = "project_global" => <<NONE, "relock">> \notin before'[q]
  BY <1>2 DEF GateInv, AllowedIsApproved
<1>. QED BY <1>1, <1>2 DEF GateInv, AllowedIsApproved

\* A step of p that neither records, nor closes, nor decides anything.
LEMMA Quiet ==
  ASSUME LockInv, GateInv, NEW p \in Procs,
         config'.relocked = config.relocked, UNCHANGED <<approvals, given, closed, unlocked>>,
         pc'[p] \notin Deciding,
         before'[p] \subseteq closed,
         \A q \in Procs \ {p} : /\ pc'[q] = pc[q] /\ job'[q] = job[q] /\ draft'[q] = draft[q]
                                /\ verdict'[q] = verdict[q] /\ before'[q] = before[q]
  PROVE  GateInv'
<1>1. Recorded'
  BY DEF GateInv, Recorded
<1>2. DecisionKnown(p)' /\ pc'[p] # "allowed"
  BY DEF DecisionKnown, Deciding
<1>. QED BY <1>1, <1>2, Decisions

\* A call that ends.
LEMMA EndGateInv ==
  ASSUME LockInv, GateInv, NEW p \in Procs, Return(p),
         config'.relocked = config.relocked, UNCHANGED <<approvals, given, closed, unlocked>>
  PROVE  GateInv'
<1>1. "idle" \notin Deciding
  BY DEF Deciding
<1>. QED BY <1>1, Returned, Quiet DEF LockInv

\* The steps of a mutation up to its save that leave config.json alone, and its refresh.
LEMMA MutateGateInv ==
  ASSUME LockInv, GateInv, NEW p \in Procs,
         \/ Start(p) \/ LoadUnderLock(p) \/ Create(p) \/ ReviseManifest(p) \/ ReviseFiles(p)
         \/ Approve(p) \/ RecordVerdict(p) \/ Refresh(p)
  PROVE  GateInv'
<1>1. CASE Return(p)
  BY <1>1, EndGateInv DEF Start, LoadUnderLock, Create, ReviseManifest, ReviseFiles, Approve,
                          RecordVerdict, Refresh, files, history
<1>2. CASE ~Return(p)
  <2>1. UNCHANGED <<config, approvals, given, closed, unlocked, verdict, before>>
    BY <1>2 DEF Start, LoadUnderLock, Create, ReviseManifest, ReviseFiles, Approve,
                RecordVerdict, Refresh, Refuse, files, history
  <2>2. \E l \in {"lock", "change", "revising", "save", "publish"} : pc' = [pc EXCEPT ![p] = l]
    BY <1>2 DEF Start, LoadUnderLock, Create, ReviseManifest, ReviseFiles, Approve,
                RecordVerdict, Refresh, Refuse, ChangeRecord, Goto
  <2>3. pc'[p] \notin Deciding /\ \A q \in Procs \ {p} : pc'[q] = pc[q]
    BY <2>2 DEF LockInv, Typed, Deciding
  <2>4. \A q \in Procs \ {p} : job'[q] = job[q] /\ draft'[q] = draft[q]
    BY <1>2 DEF Start, LoadUnderLock, Create, ReviseManifest, ReviseFiles, Approve,
                RecordVerdict, Refresh, Refuse, ChangeRecord, files, LockInv, Typed
  <2>5. before'[p] \subseteq closed
    BY <2>1 DEF GateInv, Recorded
  <2>. QED BY <2>1, <2>3, <2>4, <2>5, Quiet
<1>. QED BY <1>1, <1>2

\* Configure never unlocks a project.
LEMMA ConfigureGateInv ==
  ASSUME LockInv, GateInv, NEW p \in Procs, Configure(p) PROVE GateInv'
<1>1. CASE Return(p) /\ config' \in {config, [config EXCEPT !.smoke = "failed"]}
  <2>1. config'.relocked = config.relocked
    BY <1>1 DEF LockInv, Typed, ConfigFiles
  <2>. QED BY <1>1, <2>1, EndGateInv DEF Configure, history
<1>2. CASE config' = NewConfig(job[p]) /\ Goto(p, "save")
           /\ UNCHANGED <<job, seen, draft, verdict, before, gateLock>>
  <2>1. ~config'.relocked => ~config.relocked
    BY <1>2 DEF Configure, NewConfig, LockInv, Typed, ConfigFiles
  <2>2. UNCHANGED <<approvals, given, closed, unlocked>>
    BY DEF Configure, history
  <2>3. Recorded'
    BY <1>2, <2>1, <2>2 DEF GateInv, Recorded
  <2>4. pc'[p] = "save" /\ \A q \in Procs \ {p} : pc'[q] = pc[q]
    BY <1>2 DEF Goto, LockInv, Typed
  <2>5. DecisionKnown(p)'
    BY <2>4 DEF DecisionKnown
  <2>. QED BY <1>2, <2>2, <2>3, <2>4, <2>5, Decisions
<1>. QED BY <1>1, <1>2 DEF Configure, Refuse

\* ApproveBaseline: the configuration is unlocked before the approval is recorded.
LEMMA BaselineGateInv ==
  ASSUME LockInv, GateInv, NEW p \in Procs, ApproveBaseline(p) PROVE GateInv'
<1>1. CASE ~AsExpected(p)
  BY <1>1, EndGateInv DEF ApproveBaseline, Refuse
<1>2. CASE AsExpected(p)
  <2>1. /\ config' = [config EXCEPT !.relocked = FALSE]
        /\ unlocked' = TRUE
        /\ pc' = [pc EXCEPT ![p] = "save"]
        /\ UNCHANGED <<approvals, given, closed, before, job, verdict>>
        /\ \A q \in Procs \ {p} : draft'[q] = draft[q]
    BY <1>2 DEF ApproveBaseline, Goto, LockInv, Typed
  <2>2. Recorded'
    BY <2>1 DEF GateInv, Recorded
  <2>3. pc'[p] = "save" /\ \A q \in Procs \ {p} : pc'[q] = pc[q]
    BY <2>1 DEF LockInv, Typed
  <2>4. DecisionKnown(p)'
    BY <2>3 DEF DecisionKnown
  <2>5. \A q \in Procs \ {p} : before'[q] \subseteq before[q]
    BY <2>1
  <2>. QED BY <2>1, <2>2, <2>3, <2>4, <2>5, Decisions
<1>. QED BY <1>1, <1>2

\* Save: what becomes approved was given with this call and is closed by nothing; a verdict
\* closes no task that is still recorded as approved, and a relocking call found the
\* configuration relocked.
LEMMA SaveGateInv ==
  ASSUME LockInv, GateInv, NEW p \in Procs, Save(p) PROVE GateInv'
<1>. DEFINE c == job[p]
            d == draft[p].approvals
<1>1. /\ pc[p] = "save" /\ approvals' = [d EXCEPT !.replies[c.key] = c]
      /\ given' = IF c.op \in {"approve", "baseline"} THEN given \cup {<<c.task, c.digest>>}
                                                      ELSE given
      /\ closed' = Closing(c) /\ before' = [q \in Procs |-> before[q] \cap Closing(c)]
      /\ draft' = [draft EXCEPT ![p] = Unread] /\ pc' = [pc EXCEPT ![p] = "refresh"]
      /\ UNCHANGED <<config, job, verdict>>
  BY DEF Save, Goto
<1>2. CallKnown(p) /\ pc[p] \in Locked /\ c \in Calls
  BY <1>1 DEF LockInv, Typed, Mutating, Locked
<1>3. approvals'.package = d.package /\ approvals'.global = d.global
  <2>1. d \in ApprovalFiles
    BY DEF LockInv, Typed, Drafts
  <2>. QED BY <1>1, <2>1 DEF ApprovalFiles
<1>4. ASSUME NEW t \in Tasks, approvals'.package[t].status = "approved"
      PROVE  <<t, approvals'.package[t].digest>> \in given' /\ <<t, "verdict">> \notin closed'
  <2>1. CASE c.task = t /\ c.op = "approve"
    BY <1>1, <1>2, <1>3, <2>1 DEF CallKnown, Closing, Verdicts
  <2>2. CASE ~(c.task = t /\ c.op = "approve")
    <3>1. ~(c.task = t /\ c.op \in {"revise"} \cup Verdicts)
      BY <1>1, <1>2, <1>3, <1>4 DEF CallKnown
    <3>2. approvals'.package[t] = approvals.package[t]
      BY <1>2, <1>3, <2>2, <3>1 DEF CallKnown
    <3>3. <<t, approvals.package[t].digest>> \in given /\ <<t, "verdict">> \notin closed
      BY <1>4, <3>2 DEF GateInv, Recorded
    <3>4. <<t, "verdict">> \notin Closing(c)
      BY <3>1, <3>3 DEF Closing, Verdicts
    <3>. QED BY <1>1, <3>2, <3>3, <3>4
  <2>. QED BY <2>1, <2>2
<1>5. approvals'.global.status = "approved" => <<Baseline, approvals'.global.digest>> \in given'
  <2>1. CASE c.op = "baseline"
    BY <1>1, <1>2, <1>3, <2>1 DEF CallKnown
  <2>2. CASE c.op # "baseline"
    BY <1>1, <1>2, <1>3, <2>2 DEF CallKnown, GateInv, Recorded
  <2>. QED BY <2>1, <2>2
<1>6. ~config'.relocked => unlocked' \/ <<NONE, "relock">> \notin closed'
  <2>1. ASSUME ~config.relocked PROVE unlocked' \/ <<NONE, "relock">> \notin Closing(c)
    <3>1. c.op \notin {"relock", "set_mode", "set_paths"}
      BY <1>1, <1>2, <2>1 DEF CallKnown
    <3>2. CASE c.op = "baseline"
      BY <3>2 DEF Closing, Verdicts
    <3>3. CASE c.op # "baseline"
      <4>1. unlocked' <=> unlocked
        BY <3>1, <3>3 DEF Save, LockInv, Typed
      <4>2. unlocked \/ <<NONE, "relock">> \notin closed
        BY <2>1 DEF GateInv, Recorded
      <4>3. <<NONE, "relock">> \in Closing(c) => <<NONE, "relock">> \in closed
        BY <3>1 DEF Closing, Verdicts
      <4>. QED BY <4>1, <4>2, <4>3
    <3>. QED BY <3>2, <3>3
  <2>. QED BY <1>1, <2>1
<1>7. Recorded'
  BY <1>1, <1>4, <1>5, <1>6 DEF Recorded
<1>8. pc'[p] = "refresh" /\ \A q \in Procs \ {p} : pc'[q] = pc[q] /\ draft'[q] = draft[q]
  BY <1>1 DEF LockInv, Typed
<1>9. DecisionKnown(p)'
  BY <1>8 DEF DecisionKnown
<1>10. given \subseteq given' /\ \A q \in Procs \ {p} : before'[q] \subseteq before[q]
  BY <1>1
<1>. QED BY <1>1, <1>7, <1>8, <1>9, <1>10, Decisions

\* The reads of a decision: nothing was closed when it began that the files it reads say is
\* approved, and that cannot change behind it.
LEMMA ReadGateInv ==
  ASSUME LockInv, GateInv, NEW p \in Procs, DecideByConfig(p) \/ DecideReadApprovals(p)
  PROVE  GateInv'
<1>. USE DEF LockInv, Typed
<1>1. /\ UNCHANGED <<config, approvals, given, closed, unlocked, verdict>>
      /\ \A q \in Procs \ {p} : /\ pc'[q] = pc[q] /\ job'[q] = job[q] /\ draft'[q] = draft[q]
                                /\ before'[q] = before[q]
      /\ before'[p] = before[p] \/ before'[p] \subseteq closed
      /\ pc'[p] # "allowed"
  BY DEF DecideByConfig, DecideReadApprovals, Goto, files, history
<1>2. Recorded'
  BY <1>1 DEF GateInv, Recorded
<1>3. CASE DecideByConfig(p)
  <2>1. /\ pc'[p] = "approvals" /\ draft'[p].config = config
        /\ before'[p] = closed \ (IF unlocked THEN {<<NONE, "relock">>} ELSE {})
        /\ (config.mode = "project_global" => ~config.relocked)
    BY <1>3 DEF DecideByConfig, Goto, Drafts
  <2>2. DecisionKnown(p)'
    BY <2>1 DEF DecisionKnown, GateInv, Recorded
  <2>. QED BY <1>1, <1>2, <2>2, Decisions
<1>4. CASE DecideReadApprovals(p)
  <2>1. /\ pc[p] = "approvals" /\ pc'[p] = "digest" /\ draft'[p].config = draft[p].config
        /\ draft'[p].approvals = Snapshot.approvals /\ before'[p] = before[p]
    BY <1>4 DEF DecideReadApprovals, Goto, Drafts
  <2>2. DecisionKnown(p)
    BY DEF GateInv
  <2>3. Snapshot.approvals.package = approvals.package
        /\ Snapshot.approvals.global = approvals.global
    BY SnapshotTyped
  <2>4. DecisionKnown(p)'
    BY <1>1, <2>1, <2>2, <2>3 DEF DecisionKnown, GateInv, Recorded
  <2>. QED BY <1>1, <1>2, <2>4, Decisions
<1>. QED BY <1>3, <1>4

\* Decide: it allows on a design whose content is the one the approval it read names.
LEMMA DecideGateInv ==
  ASSUME LockInv, GateInv, NEW p \in Procs, Decide(p) PROVE GateInv'
<1>. USE DEF LockInv, Typed
<1>1. UNCHANGED <<packages, config, approvals, given, closed, unlocked>> /\ pc[p] = "digest"
  BY DEF Decide, files, history
<1>2. CASE Return(p)
  BY <1>1, <1>2, EndGateInv
<1>3. CASE ~Return(p)
  <2>1. pc' = [pc EXCEPT ![p] = "allowed"] /\ UNCHANGED <<job, seen, before>>
        /\ draft' = [draft EXCEPT ![p] = Unread]
    BY <1>3 DEF Decide, Goto
  <2>2. pc'[p] = "allowed" /\ \A q \in Procs \ {p} : pc'[q] = pc[q] /\ draft'[q] = draft[q]
    BY <2>1
  <2>3. /\ \A q \in Procs \ {p} : verdict'[q] = verdict[q]
        /\ <<verdict'[p].task, verdict'[p].digest>> \in given
        /\ verdict'[p].mode = "design_package" =>
             /\ job[p].file \in Scope[verdict'[p].digest]
             /\ <<verdict'[p].task, "verdict">> \notin before[p]
        /\ verdict'[p].mode = "project_global" => <<NONE, "relock">> \notin before[p]
    <3>1. DecisionKnown(p)
      BY DEF GateInv
    <3>2. CASE draft[p].config.mode = "project_global"
      <4>1. /\ BaselineHolds(p)
            /\ verdict' = [verdict EXCEPT ![p] = [mode |-> "project_global", task |-> Baseline,
                                                  digest |-> packages[Baseline]]]
        BY <1>3, <3>2 DEF Decide
      <4>. QED BY <1>1, <3>1, <3>2, <4>1 DEF DecisionKnown, BaselineHolds
    <3>3. CASE draft[p].config.mode # "project_global"
      <4>1. PICK t \in ApprovingPackages(p) :
              verdict' = [verdict EXCEPT ![p] = [mode |-> "design_package", task |-> t,
                                                 digest |-> packages[t]]]
        BY <1>3, <3>3 DEF Decide
      <4>. QED BY <1>1, <3>1, <4>1 DEF DecisionKnown, ApprovingPackages
    <3>. QED BY <3>2, <3>3
  <2>4. Recorded'
    BY <1>1, <2>1 DEF GateInv, Recorded
  <2>5. DecisionKnown(p)'
    BY <2>2 DEF DecisionKnown
  <2>. QED BY <1>1, <2>1, <2>2, <2>3, <2>4, <2>5, Decisions
<1>. QED BY <1>2, <1>3

LEMMA NextGateInv ==
  ASSUME LockInv, GateInv, [Next]_vars PROVE GateInv'
<1>1. ASSUME NEW p \in Procs, LockTimeout(p) \/ PublishContext(p) \/ Proceed(p) \/ Crash(p)
      PROVE  GateInv'
  BY <1>1, EndGateInv DEF LockTimeout, PublishContext, Proceed, Crash, files, history
<1>2. ASSUME UNCHANGED <<config, approvals, given, closed, unlocked, locals>> PROVE GateInv'
  BY <1>2 DEF GateInv, Recorded, DecisionKnown, AllowedIsApproved, locals
<1>3. ASSUME NEW t \in Tasks, EditDesign(t) PROVE GateInv'
  BY <1>2, <1>3 DEF EditDesign, history
<1>4. ASSUME UNCHANGED vars PROVE GateInv'
  BY <1>2, <1>4 DEF vars, files, history
<1>. QED BY <1>1, <1>3, <1>4, MutateGateInv, ConfigureGateInv, BaselineGateInv, SaveGateInv,
            ReadGateInv, DecideGateInv DEF Next

\* A formal file is changed only under a design that a user approved by its digest, that is
\* still the same when it is judged, that covers the file, and that nothing recorded before
\* the decision began has closed since (decide_tool_use, which reads under no lock).
THEOREM AllowedUnderApproval == Spec => []AllowedIsApproved
<1>1. Init => GateInv
  BY InitGateInv
<1>2. LockInv /\ GateInv /\ [Next]_vars => GateInv'
  BY NextGateInv
<1>3. GateInv => AllowedIsApproved
  BY DEF GateInv
<1>. QED BY <1>1, <1>2, <1>3, LockIsHeld, PTL DEF Spec
-----------------------------------------------------------------------------
(* The published context *)

\* The context that a failed smoke test leaves behind lacks nothing else.
LEMMA SmokeFails ==
  ASSUME Typed, config' = [config EXCEPT !.smoke = "failed"], approvals' = approvals, NEW s, Shows(s)
  PROVE  Shows(s)'
<1>1. config'.smoke = "failed"
  BY DEF Typed, ConfigFiles
<1>2. Snapshot' = [Snapshot EXCEPT !.config = config']
  BY DEF Snapshot
<1>3. CASE s = Snapshot
  <2>1. [Snapshot EXCEPT !.config.smoke = "failed"] = Snapshot'
    BY <1>2 DEF Snapshot
  <2>. QED BY <1>1, <1>3, <2>1 DEF Shows
<1>4. CASE config.smoke = "failed" /\ [s EXCEPT !.config.smoke = "failed"] = Snapshot
  <2>1. config' = config
    BY <1>4 DEF Typed, ConfigFiles
  <2>2. Snapshot' = Snapshot
    BY <2>1 DEF Snapshot
  <2>. QED BY <1>1, <1>4, <2>2 DEF Shows
<1>. QED BY <1>3, <1>4 DEF Shows

LEMMA InitContextInv == ASSUME Init PROVE ContextInv
<1>1. Snapshot = Unread
  <2>1. [NoApprovals EXCEPT !.replies = NoApprovals.replies] = NoApprovals
    BY DEF NoApprovals
  <2>. QED BY <2>1 DEF Init, Snapshot, Unread
<1>. QED BY <1>1 DEF Init, ContextInv, Shows

\* The steps of a call before it saves, and all of a decision: p comes from where nothing of
\* it is written yet, and goes there or to its save; only on the way to its save may it
\* have changed the configuration.
LEMMA Before ==
  ASSUME LockInv, ContextInv, NEW p \in Procs,
         pc[p] \notin {"save", "refresh", "publish"}, pc'[p] \notin {"refresh", "publish"},
         UNCHANGED <<context, overlapped>>,
         pc'[p] = "save" \/ UNCHANGED <<config, approvals>>,
         \A q \in Procs \ {p} : pc'[q] = pc[q] /\ draft'[q] = draft[q]
  PROVE  ContextInv'
<1>1. CASE pc'[p] = "save"
  BY <1>1 DEF ContextInv
<1>2. CASE pc'[p] # "save" /\ UNCHANGED <<config, approvals>>
  <2>1. Snapshot' = Snapshot
    BY <1>2 DEF Snapshot
  <2>2. \A q \in Procs : (pc'[q] = "save" <=> pc[q] = "save")
                          /\ (pc'[q] = "publish" <=> pc[q] = "publish")
                          /\ (pc'[q] = "refresh" <=> pc[q] = "refresh")
    BY <1>2
  <2>3. \A q \in Procs : pc[q] = "publish" => draft'[q] = draft[q]
    OBVIOUS
  <2>. HIDE DEF Snapshot
  <2>. QED BY <1>2, <2>1, <2>2, <2>3 DEF ContextInv, Shows
<1>. QED BY <1>1, <1>2

\* A call that ends before it wrote anything.
LEMMA EndContextInv ==
  ASSUME LockInv, ContextInv, NEW p \in Procs, Return(p),
         pc[p] \notin {"save", "refresh", "publish"},
         UNCHANGED <<config, approvals, context, overlapped>>
  PROVE  ContextInv'
BY Returned, Before DEF LockInv

LEMMA NextContextInv ==
  ASSUME LockInv, ContextInv, [Next]_vars PROVE ContextInv'
<1>. USE DEF LockInv
<1>0. ASSUME NEW p \in Procs, Configure(p), Return(p), config' = [config EXCEPT !.smoke = "failed"]
      PROVE  ContextInv'
  <2>1. /\ UNCHANGED <<approvals, context, overlapped>>
        /\ pc[p] \notin {"save", "refresh", "publish"} /\ pc'[p] = "idle"
        /\ \A q \in Procs \ {p} : pc'[q] = pc[q] /\ draft'[q] = draft[q]
    BY <1>0, Returned DEF Configure, history
  <2>2. ~overlapped /\ (\A q \in Procs : pc[q] # "save") =>
          /\ \A q \in Procs : pc[q] = "publish" => Shows(draft[q])'
          /\ (\A q \in Procs : pc[q] \notin {"refresh", "publish"}) => Shows(context)'
    BY <1>0, <2>1, SmokeFails DEF ContextInv
  <2>. QED BY <2>1, <2>2 DEF ContextInv
<1>1. ASSUME NEW p \in Procs,
             \/ Start(p) \/ LoadUnderLock(p) \/ LockTimeout(p) \/ Create(p)
             \/ ReviseManifest(p) \/ ReviseFiles(p) \/ Approve(p) \/ RecordVerdict(p)
             \/ Configure(p) \/ ApproveBaseline(p)
             \/ DecideByConfig(p) \/ DecideReadApprovals(p) \/ Decide(p) \/ Proceed(p)
      PROVE  ContextInv'
  <2>. DEFINE Ends == Return(p) /\ UNCHANGED config
  <2>1. UNCHANGED <<approvals, context, overlapped>> /\ pc[p] \notin {"save", "refresh", "publish"}
    BY <1>1 DEF Start, LoadUnderLock, LockTimeout, Create, ReviseManifest, ReviseFiles, Approve,
                RecordVerdict, Configure, ApproveBaseline, DecideByConfig, DecideReadApprovals,
                Decide, Proceed, files, history
  <2>2. CASE Ends
    BY <2>1, <2>2, EndContextInv
  <2>4. CASE Configure(p) /\ Return(p) /\ config' = [config EXCEPT !.smoke = "failed"]
    BY <1>0, <2>4
  <2>3. CASE ~Ends /\ ~(Configure(p) /\ Return(p) /\ config' = [config EXCEPT !.smoke = "failed"])
    <3>1. \E l \in {"lock", "change", "revising", "save", "approvals", "digest", "allowed"} :
            pc' = [pc EXCEPT ![p] = l] /\ (l = "save" \/ UNCHANGED config)
      BY <1>1, <2>3 DEF Start, LoadUnderLock, LockTimeout, Create, ReviseManifest, ReviseFiles,
                Approve, RecordVerdict, Configure, ApproveBaseline, DecideByConfig, Refuse,
                DecideReadApprovals, Decide, Proceed, ChangeRecord, Goto, files, history
    <3>2. /\ pc'[p] \notin {"refresh", "publish"} /\ (pc'[p] = "save" \/ UNCHANGED config)
          /\ \A q \in Procs \ {p} : pc'[q] = pc[q]
      BY <3>1 DEF Typed
    <3>3. \A q \in Procs \ {p} : draft'[q] = draft[q]
      BY <1>1 DEF Start, LoadUnderLock, LockTimeout, Create, ReviseManifest, ReviseFiles,
                Approve, RecordVerdict, Configure, ApproveBaseline, DecideByConfig, Refuse,
                DecideReadApprovals, Decide, Proceed, ChangeRecord, Return, files, history, Typed
    <3>. QED BY <2>1, <3>2, <3>3, Before
  <2>. QED BY <2>2, <2>3, <2>4
<1>2. ASSUME NEW p \in Procs, Save(p) PROVE ContextInv'
  <2>1. /\ pc' = [pc EXCEPT ![p] = "refresh"] /\ pc[p] = "save"
        /\ overlapped' = (overlapped \/ \E q \in Procs : pc[q] \in {"refresh", "publish"})
    BY <1>2 DEF Save, Goto
  <2>2. pc'[p] = "refresh" /\ \A q \in Procs \ {p} : pc'[q] = pc[q]
    BY <2>1 DEF Typed
  <2>. QED BY <2>1, <2>2 DEF ContextInv
<1>3. ASSUME NEW p \in Procs, Refresh(p) PROVE ContextInv'
  <2>1. /\ pc' = [pc EXCEPT ![p] = "publish"] /\ pc[p] = "refresh"
        /\ draft' = [draft EXCEPT ![p] = Snapshot]
        /\ overlapped' = (overlapped \/ gateLock # Free)
        /\ UNCHANGED <<config, approvals, context>>
    BY <1>3 DEF Refresh, Goto, files
  <2>2. /\ pc'[p] = "publish" /\ draft'[p] = Snapshot
        /\ \A q \in Procs \ {p} : pc'[q] = pc[q] /\ draft'[q] = draft[q]
    BY <2>1 DEF Typed
  <2>3. Snapshot' = Snapshot
    BY <2>1 DEF Snapshot
  <2>4. Shows(draft[p])'
    BY <2>2, <2>3 DEF Shows
  <2>. QED BY <2>1, <2>2, <2>4 DEF ContextInv
<1>4. ASSUME NEW p \in Procs, PublishContext(p) PROVE ContextInv'
  <2>1. /\ pc[p] = "publish" /\ context' = draft[p] /\ pc'[p] = "idle"
        /\ UNCHANGED <<config, approvals, overlapped>>
        /\ \A q \in Procs \ {p} : pc'[q] = pc[q] /\ draft'[q] = draft[q]
    BY <1>4, Returned DEF PublishContext, history
  <2>2. Snapshot' = Snapshot
    BY <2>1 DEF Snapshot
  <2>. HIDE DEF Snapshot
  <2>. QED BY <2>1, <2>2 DEF ContextInv, Shows
<1>5. ASSUME NEW p \in Procs, Crash(p) PROVE ContextInv'
  BY <1>5 DEF Crash, ContextInv
<1>6. ASSUME UNCHANGED <<config, approvals, context, overlapped, locals>> PROVE ContextInv'
  <2>1. Snapshot' = Snapshot
    BY <1>6 DEF Snapshot
  <2>. HIDE DEF Snapshot
  <2>. QED BY <1>6, <2>1 DEF ContextInv, Shows, locals
<1>7. ASSUME NEW t \in Tasks, EditDesign(t) PROVE ContextInv'
  BY <1>6, <1>7 DEF EditDesign, history
<1>8. ASSUME UNCHANGED vars PROVE ContextInv'
  BY <1>6, <1>8 DEF vars, files, history
<1>. QED BY <1>1, <1>2, <1>3, <1>4, <1>5, <1>7, <1>8 DEF Next

\* With no change under way, and unless refreshes overlapped other changes or a call died,
\* the published context shows the files (_refresh_context, outside the lock).
THEOREM ContextShowsFiles == Spec => []ContextCurrent
<1>1. Init => ContextInv
  BY InitContextInv
<1>2. LockInv /\ ContextInv /\ [Next]_vars => ContextInv'
  BY NextContextInv
<1>3. ContextInv => ContextCurrent
  BY DEF ContextInv, ContextCurrent, Shows
<1>. QED BY <1>1, <1>2, <1>3, LockIsHeld, PTL DEF Spec
=============================================================================
