------------------------- MODULE WorktreeFlowProofs -------------------------
(***************************************************************************)
(* Proofs about WorktreeFlow, for every set of tasks and all bounds.       *)
(***************************************************************************)
EXTENDS WorktreeFlow, TLAPS

-----------------------------------------------------------------------------
(* The invariants *)

Commits == 0 .. MaxCommits

\* A task that is ready has a commit.
Registries == [Tasks -> {e \in Entries : e.status = "ready" => e.commit # Absent} \cup {Absent}]

CallType == [op : Ops, at : Places, commit : Commits \cup {Absent}, base : Snapshots \cup {Absent},
             status : Statuses, deployed : Commits \cup {Absent}, data : Registries \cup {Absent}]

\* Everything but the calls.
Shared ==
    /\ registry \in Registries
    /\ main \in Snapshots /\ origin \in Snapshots /\ canonical \in Snapshots /\ staging \in Snapshots
    /\ releaseLock \in Tasks \cup {Free, Dead} /\ stagingLock \in Tasks \cup {Free, Dead}
    /\ commits \in Commits /\ incidents \in 0 .. MaxIncidents /\ main[2] <= incidents
    /\ branch \in [Tasks -> Commits \cup {Absent}] /\ pushed \in [Tasks -> Commits \cup {Absent}]
    /\ accepted \in [Tasks -> SUBSET Commits]
    /\ worktree \subseteq Tasks /\ \A t \in worktree : branch[t] # Absent

\* Where each command can be, and what it has there.
InPlace(t) ==
    LET c == call[t]
    IN  /\ c.op = "start" => c.at \in {"add", "save"}
        /\ c.op = "finish" => c.at \in {"validate", "read", "save"}
        /\ c.op = "release" => c.at \in {"lock", "fetch", "check", "merge", "push", "target",
                                         "advance", "read", "save"}
        /\ c.op = "sync" => c.at \in {"idle", "target", "advance"}
        /\ c.op = "deploy" => c.at \in {"lock", "expect", "report", "read", "save"}
        /\ c.op = "cleanup" => c.at \in {"remove", "delete", "read", "save"}
        /\ c.at \in {"add", "save"} => c.data \in Registries
        /\ c.op # "start" /\ c.at = "save" => c.data[t] # Absent
        /\ c.at \in {"merge", "push", "advance", "report"} => c.base \in Snapshots
        /\ c.at \in {"validate", "fetch", "check", "merge", "push"} => c.commit # Absent
        /\ c.at = "lock" /\ c.op = "release" => c.commit # Absent
        /\ c.at = "merge" => branch[t] # Absent
        /\ c.at = "delete" => t \notin worktree
        /\ c.at \in {"add", "read", "save"} =>
              IF c.op = "finish" THEN c.commit # Absent ELSE c.status # "ready"

\* Each lock is held exactly by the command between taking and releasing it.
LocksHeld ==
    \A t \in Tasks :
        /\ releaseLock = t <=> call[t].op = "release" /\ call[t].at \notin {"idle", "lock"}
        /\ stagingLock = t <=> call[t].op = "deploy" /\ call[t].at \notin {"idle", "lock"}

FlowInv == /\ Shared /\ call \in [Tasks -> CallType]
           /\ LocksHeld /\ \A t \in Tasks : InPlace(t)

\* What the registry, or what has been read of it, says of a task: its commit passed finish.
Passed(t, e) == e # Absent => e.commit \in accepted[t] \cup {Absent}

\* What a command knows of the commit that it finishes or releases.
CommitKnown(t) ==
    LET c == call[t]
    IN  /\ c.op = "finish" /\ c.at \in {"read", "save"} => c.commit \in accepted[t]
        /\ c.op = "release" /\ c.at \in {"lock", "fetch", "check", "merge"} => c.commit \in accepted[t]
        /\ c.at = "merge" => branch[t] = c.commit \/ t \in moved
        /\ c.at = "push" => c.commit \in accepted[t] \/ t \in moved
        /\ c.at \in {"add", "save"} => \A u \in Tasks : Passed(u, c.data[u])

AcceptedInv == AcceptedOnly /\ \A t \in Tasks : Passed(t, registry[t]) /\ CommitKnown(t)

\* No commit is in a branch or in main before it is made; what a command has read of the
\* tracking ref is not ahead of it; what a release is about to push is new there.
UpTo(s, u) == \A t \in Tasks : s[1][t] <= u[1][t]
InOrder(t) ==
    LET c == call[t]
    IN  /\ main[1][t] <= commits /\ (branch[t] # Absent => branch[t] <= commits)
        /\ c.at = "advance" => UpTo(c.base, origin)
        /\ c.at = "merge" => c.base[1][t] < c.commit /\ c.commit <= branch[t]
        /\ c.at = "push" => c.base[1][t] < c.commit /\ c.commit <= commits

Ordered == UpTo(origin, main) /\ \A t \in Tasks : InOrder(t)

\* RegistryTrue, for one task.
EntryTrue(t) ==
    LET e == registry[t]
    IN  /\ t \in worktree \ orphans /\ call[t].op # "start" => e # Absent /\ e.status # "cleaned"
        /\ e # Absent /\ e.status \in Released => Has(main, t, e.commit)
        /\ e # Absent /\ e.status = "canonical_synced" => Has(canonical, t, e.commit)
        /\ e # Absent /\ e.status = "verified" => e.deployed >= e.commit

\* What a command knows of the entry of its task and of its worktree.
EntryKnown(t) ==
    LET c == call[t]
        e == registry[t]
    IN  /\ c.op \in {"finish", "release", "deploy", "cleanup"} => e # Absent
        /\ c.op = "start" /\ c.at = "add" => t \notin worktree
        /\ c.op = "release" =>
             /\ e.status = "ready"
             /\ c.at \in {"lock", "fetch", "check", "merge"} => c.commit = e.commit
             /\ c.at = "push" => c.commit >= e.commit
             /\ c.at \in {"target", "advance"} => main[1][t] >= e.commit
             /\ c.at = "advance" => c.base[1][t] >= e.commit
             /\ c.at \in {"read", "save"} =>
                  /\ c.status \in {"release_failed", "canonical_synced", "master_pushed"}
                  /\ c.status \in Released => main[1][t] >= e.commit
                  /\ c.status = "canonical_synced" => canonical[1][t] >= e.commit
        /\ c.op = "deploy" =>
             /\ e.status \in Released
             /\ c.at = "report" => c.base[1][t] >= e.commit
             /\ c.at \in {"read", "save"} =>
                  /\ c.status \in {"verified", "staging_deployed"}
                  /\ c.status = "verified" => c.deployed >= e.commit
        /\ c.op = "cleanup" =>
             /\ c.at \in {"delete", "read", "save"} => t \notin worktree
             /\ c.at \in {"read", "save"} => c.status = "cleaned"
        /\ e # Absent /\ e.status \in Released => e.commit # Absent

\* Unless a save has overwritten another.
TruthInv == ~raced => \A t \in Tasks : EntryTrue(t) /\ EntryKnown(t)

-----------------------------------------------------------------------------
(* The steps of a call *)

\* A step of t keeps the invariant when the locks follow its call and the others are let be.
LEMMA Frame ==
  ASSUME FlowInv, NEW t \in Tasks, Shared', LocksHeld', call' \in [Tasks -> CallType],
         \A u \in Tasks \ {t} : call'[u] = call[u] /\ branch'[u] = branch[u],
         worktree' \subseteq worktree \cup {t}, InPlace(t)'
  PROVE  FlowInv'
<1>1. ASSUME NEW u \in Tasks \ {t} PROVE InPlace(u)'
  BY DEF FlowInv, InPlace
<1>. QED BY <1>1 DEF FlowInv

\* A step that changes no call and takes no branch away.
LEMMA Outside ==
  ASSUME FlowInv, Shared', LocksHeld', call' = call, worktree' = worktree,
         \A u \in Tasks : branch[u] # Absent => branch'[u] # Absent
  PROVE  FlowInv'
<1>1. ASSUME NEW u \in Tasks PROVE InPlace(u)'
  BY DEF FlowInv, InPlace
<1>. QED BY <1>1 DEF FlowInv

\* A step within a command leaves the locks.
LEMMA Within ==
  ASSUME FlowInv, NEW t \in Tasks, Shared', call' \in [Tasks -> CallType], UNCHANGED locks,
         call'[t].op = call[t].op, {call[t].at, call'[t].at} \cap {"idle", "lock"} = {},
         \A u \in Tasks \ {t} : call'[u] = call[u] /\ branch'[u] = branch[u],
         worktree' \subseteq worktree \cup {t}, InPlace(t)'
  PROVE  FlowInv'
<1>1. LocksHeld'
  BY DEF FlowInv, LocksHeld, locks
<1>. QED BY <1>1, Frame

\* The first step of a command takes none.
LEMMA First ==
  ASSUME FlowInv, NEW t \in Tasks, Shared', call' \in [Tasks -> CallType], UNCHANGED locks,
         call[t].at = "idle", call'[t].op \in {"release", "deploy"} => call'[t].at = "lock",
         \A u \in Tasks \ {t} : call'[u] = call[u], UNCHANGED <<branch, worktree>>, InPlace(t)'
  PROVE  FlowInv'
<1>1. LocksHeld'
  BY DEF FlowInv, LocksHeld, locks
<1>. QED BY <1>1, Frame

LEMMA NoCallTyped == NoCall \in CallType
BY DEF NoCall, CallType, Ops, Places, Locked, Statuses, Released

\* The end of a command, and a death: no lock is left in its name, the others' are kept.
LEMMA Last ==
  ASSUME FlowInv, NEW t \in Tasks, Shared', call' = [call EXCEPT ![t] = NoCall],
         IF releaseLock = t THEN releaseLock' \in {Free, Dead}
           ELSE releaseLock' = releaseLock \/ {releaseLock, releaseLock'} \subseteq {Free, Dead},
         IF stagingLock = t THEN stagingLock' \in {Free, Dead}
           ELSE stagingLock' = stagingLock \/ {stagingLock, stagingLock'} \subseteq {Free, Dead},
         UNCHANGED <<branch, worktree>>
  PROVE  FlowInv'
<1>. USE NamesAssumption
<1>1. /\ call' \in [Tasks -> CallType] /\ call'[t] = NoCall
      /\ \A u \in Tasks \ {t} : call'[u] = call[u]
  BY NoCallTyped DEF FlowInv
<1>2. NoCall.op = "sync" /\ NoCall.at = "idle"
  BY DEF NoCall
<1>3. LocksHeld'
  <2>1. ASSUME NEW u \in Tasks
        PROVE  releaseLock' = u <=> call'[u].op = "release" /\ call'[u].at \notin {"idle", "lock"}
    BY <1>1, <1>2 DEF FlowInv, LocksHeld, Shared
  <2>2. ASSUME NEW u \in Tasks
        PROVE  stagingLock' = u <=> call'[u].op = "deploy" /\ call'[u].at \notin {"idle", "lock"}
    BY <1>1, <1>2 DEF FlowInv, LocksHeld, Shared
  <2>. QED BY <2>1, <2>2 DEF LocksHeld
<1>4. InPlace(t)'
  BY <1>1, <1>2 DEF InPlace
<1>. QED BY <1>1, <1>3, <1>4, Frame

\* The end of a command on every path.
LEMMA Ended ==
  ASSUME FlowInv, NEW t \in Tasks, End(t),
         UNCHANGED <<main, origin, canonical, staging, branch, pushed, worktree, commits, accepted>>,
         incidents' \in 0 .. MaxIncidents, incidents <= incidents', registry' \in Registries
  PROVE  FlowInv'
<1>. USE NamesAssumption, BoundsAssumption DEF End, Release
<1>1. Shared'
  BY DEF FlowInv, Shared, Snapshots
<1>. QED BY <1>1, Last

\* What the steps make of the call of t: a new place, or a record that waits for its end.
LEMMA Gone ==
  ASSUME call \in [Tasks -> CallType], NEW t \in Tasks, NEW place \in Places, Go(t, place)
  PROVE  /\ call' \in [Tasks -> CallType] /\ \A u \in Tasks \ {t} : call'[u] = call[u]
         /\ call'[t].at = place /\ call'[t].op = call[t].op /\ call'[t].commit = call[t].commit
         /\ call'[t].base = call[t].base /\ call'[t].data = call[t].data
         /\ call'[t].status = call[t].status /\ call'[t].deployed = call[t].deployed
<1>1. call' = [call EXCEPT ![t] = [call[t] EXCEPT !.at = place]]
  BY DEF Go
<1>2. [call[t] EXCEPT !.at = place] \in CallType
  BY DEF CallType
<1>. QED BY <1>1, <1>2 DEF CallType

LEMMA Noted ==
  ASSUME call \in [Tasks -> CallType], NEW t \in Tasks, NEW new \in CallType, Record(t, new)
  PROVE  /\ call' \in [Tasks -> CallType] /\ \A u \in Tasks \ {t} : call'[u] = call[u]
         /\ call'[t].at = "read" /\ call'[t].op = new.op /\ call'[t].commit = new.commit
         /\ call'[t].status = new.status /\ call'[t].deployed = new.deployed
<1>1. call' = [call EXCEPT ![t] = [new EXCEPT !.at = "read", !.base = Absent]]
  BY DEF Record
<1>2. [new EXCEPT !.at = "read", !.base = Absent] \in CallType
  BY DEF CallType, Places
<1>. QED BY <1>1, <1>2 DEF CallType

-----------------------------------------------------------------------------
(* Types and locks *)

LEMMA InitFlowInv == ASSUME Init PROVE FlowInv
<1>. USE NamesAssumption, BoundsAssumption
<1>1. Root \in Snapshots /\ Root[2] = 0
  BY DEF Root, Snapshots
<1>2. Shared
  BY <1>1 DEF Init, Shared, Registries, Commits
<1>3. call \in [Tasks -> CallType]
  BY NoCallTyped DEF Init
<1>4. LocksHeld /\ \A t \in Tasks : InPlace(t)
  BY DEF Init, LocksHeld, InPlace, NoCall
<1>. QED BY <1>2, <1>3, <1>4 DEF FlowInv

\* A command begins with a place, the commit it is about, and what it has read.
LEMMA Began ==
  ASSUME FlowInv, NEW t \in Tasks, Shared', UNCHANGED locks,
         UNCHANGED <<branch, worktree>>, call[t].at = "idle", NEW new \in CallType, call' = [call EXCEPT ![t] = new],
         \/ new.op = "start" /\ new.at = "add" /\ new.data \in Registries /\ new.status # "ready"
         \/ new.op = "finish" /\ new.at = "validate" /\ new.commit # Absent
         \/ new.op = "release" /\ new.at = "lock" /\ new.commit # Absent
         \/ new.op = "sync" /\ new.at = "target"
         \/ new.op = "deploy" /\ new.at = "lock"
         \/ new.op = "cleanup" /\ new.at = "remove"
  PROVE  FlowInv'
<1>1. /\ call' \in [Tasks -> CallType] /\ call'[t] = new
      /\ \A u \in Tasks \ {t} : call'[u] = call[u]
  BY DEF FlowInv
<1>2. InPlace(t)'
  BY <1>1 DEF InPlace
<1>. QED BY <1>1, <1>2, First

\* The commands begin: start, finish, release, sync, deploy-staging, cleanup.
LEMMA BeginFlow ==
  ASSUME FlowInv, NEW t \in Tasks,
         Start(t) \/ Finish(t) \/ BeginRelease(t) \/ BeginSync(t) \/ BeginDeploy(t) \/ BeginCleanup(t)
  PROVE  FlowInv'
<1>. USE NamesAssumption, BoundsAssumption
<1>1. call[t].at = "idle" /\ UNCHANGED locks /\ UNCHANGED <<branch, worktree>>
  BY DEF Start, Finish, BeginRelease, BeginSync, BeginDeploy, BeginCleanup, Begin, trees
<1>2. Shared'
  BY DEF Start, Finish, BeginRelease, BeginSync, BeginDeploy, BeginCleanup, Begin, FlowInv, Shared,
         locks, trees, upstream, history
<1>3. CASE Start(t)
  <2>. DEFINE new == [NoCall EXCEPT !.op = "start", !.at = "add", !.data = registry]
  <2>1. call' = [call EXCEPT ![t] = new]
    BY <1>3 DEF Start, Begin
  <2>2. registry \in Registries
    BY DEF FlowInv, Shared
  <2>3. new \in CallType /\ new.op = "start" /\ new.at = "add" /\ new.data \in Registries
        /\ new.status # "ready"
    BY <2>2 DEF NoCall, CallType, Ops, Places, Locked, Statuses, Released
  <2>. HIDE DEF new
  <2>. QED BY <1>1, <1>2, <2>1, <2>2, <2>3, Began
<1>4. CASE Finish(t)
  <2>. DEFINE new == [NoCall EXCEPT !.op = "finish", !.at = "validate", !.commit = branch[t]]
  <2>1. call' = [call EXCEPT ![t] = new]
    BY <1>4 DEF Finish, Begin
  <2>2. branch[t] \in Commits \cup {Absent} /\ branch[t] # Absent
    BY <1>4 DEF Finish, FlowInv, Shared, Commits
  <2>3. new \in CallType /\ new.op = "finish" /\ new.at = "validate" /\ new.commit # Absent
    BY <2>2 DEF NoCall, CallType, Ops, Places, Locked, Statuses, Released
  <2>. HIDE DEF new
  <2>. QED BY <1>1, <1>2, <2>1, <2>2, <2>3, Began
<1>5. CASE BeginRelease(t)
  <2>. DEFINE new == [NoCall EXCEPT !.op = "release", !.at = "lock", !.commit = registry[t].commit]
  <2>1. call' = [call EXCEPT ![t] = new]
    BY <1>5 DEF BeginRelease, Begin
  <2>2. registry[t].commit \in Commits \cup {Absent} /\ registry[t].commit # Absent
    BY <1>5 DEF BeginRelease, FlowInv, Shared, Registries, Entries, Commits
  <2>3. new \in CallType /\ new.op = "release" /\ new.at = "lock" /\ new.commit # Absent
    BY <2>2 DEF NoCall, CallType, Ops, Places, Locked, Statuses, Released
  <2>. HIDE DEF new
  <2>. QED BY <1>1, <1>2, <2>1, <2>2, <2>3, Began
<1>6. CASE BeginSync(t)
  <2>. DEFINE new == [NoCall EXCEPT !.at = "target"]
  <2>1. call' = [call EXCEPT ![t] = new]
    BY <1>6 DEF BeginSync, Begin
  <2>2. new \in CallType /\ new.op = "sync" /\ new.at = "target"
    BY DEF NoCall, CallType, Ops, Places, Locked, Statuses, Released
  <2>. HIDE DEF new
  <2>. QED BY <1>1, <1>2, <2>1, <2>2, Began
<1>7. CASE BeginDeploy(t)
  <2>. DEFINE new == [NoCall EXCEPT !.op = "deploy", !.at = "lock"]
  <2>1. call' = [call EXCEPT ![t] = new]
    BY <1>7 DEF BeginDeploy, Begin
  <2>2. new \in CallType /\ new.op = "deploy" /\ new.at = "lock"
    BY DEF NoCall, CallType, Ops, Places, Locked, Statuses, Released
  <2>. HIDE DEF new
  <2>. QED BY <1>1, <1>2, <2>1, <2>2, Began
<1>8. CASE BeginCleanup(t)
  <2>. DEFINE new == [NoCall EXCEPT !.op = "cleanup", !.at = "remove"]
  <2>1. call' = [call EXCEPT ![t] = new]
    BY <1>8 DEF BeginCleanup, Begin
  <2>2. new \in CallType /\ new.op = "cleanup" /\ new.at = "remove"
    BY DEF NoCall, CallType, Ops, Places, Locked, Statuses, Released
  <2>. HIDE DEF new
  <2>. QED BY <1>1, <1>2, <2>1, <2>2, Began
<1>. QED BY <1>3, <1>4, <1>5, <1>6, <1>7, <1>8

\* The commands end: a save, a task that is not in the registry, a refusal, a failure, a
\* death, a lock that cannot be taken, a synchronisation.
LEMMA EndFlow ==
  ASSUME FlowInv, NEW t \in Tasks,
         \/ SaveRegistry(t) \/ (ReadRegistry(t) /\ registry[t] = Absent) \/ Refused(t) \/ Fails(t)
         \/ Crash(t) \/ LockFails(t) \/ (Advance(t) /\ call[t].op = "sync")
  PROVE  FlowInv'
<1>. USE NamesAssumption, BoundsAssumption DEF FlowInv
<1>1. CASE SaveRegistry(t)
  <2>1. registry' \in Registries
    <3>1. /\ call[t].data \in Registries /\ InPlace(t) /\ call[t] \in CallType
          /\ registry' = [call[t].data EXCEPT ![t] = Entry(t)]
      BY <1>1 DEF SaveRegistry, InPlace
    <3>2. call[t].at = "save"
      BY <1>1 DEF SaveRegistry
    <3>3. Entry(t) \in {e \in Entries : e.status = "ready" => e.commit # Absent}
      <4>1. CASE call[t].op = "start"
        BY <4>1 DEF Entry, NewEntry, Entries, Statuses
      <4>2. CASE call[t].op # "start"
        <5>1. call[t].data[t] \in Entries
          BY <3>1, <3>2, <4>2 DEF InPlace, Registries
        <5>2. call[t].op = "finish" => call[t].commit # Absent
          BY <3>1, <3>2 DEF InPlace
        <5>3. call[t].op # "finish" => call[t].status # "ready"
          BY <3>1, <3>2 DEF InPlace
        <5>4. CASE call[t].op = "finish"
          BY <3>1, <5>1, <5>2, <5>4 DEF Entry, Entries, CallType, Statuses, Commits
        <5>5. CASE call[t].op = "deploy"
          BY <3>1, <5>1, <5>3, <5>5 DEF Entry, Entries, CallType, Commits
        <5>6. CASE call[t].op \notin {"start", "finish", "deploy"}
          BY <3>1, <5>1, <5>3, <5>6 DEF Entry, Entries, CallType, Commits
        <5>. QED BY <4>2, <5>4, <5>5, <5>6
      <4>. QED BY <4>1, <4>2
    <3>. QED BY <3>1, <3>3 DEF Registries
  <2>. QED BY <1>1, <2>1, Ended DEF SaveRegistry, Shared, upstream, trees, bounds
<1>2. CASE ReadRegistry(t) /\ registry[t] = Absent
  BY <1>2, Ended DEF ReadRegistry, Shared, upstream, trees, bounds, history
<1>3. CASE Refused(t)
  BY <1>3, Ended DEF Refused, Shared, upstream, trees, bounds, history
<1>4. CASE Fails(t)
  BY <1>4, Ended DEF Fails, Incident, Shared, upstream, trees
<1>5. CASE Crash(t)
  <2>1. Shared'
    BY <1>5 DEF Crash, Incident, Shared, upstream, trees, Snapshots
  <2>. QED BY <1>5, <2>1, Last DEF Crash, trees
<1>6. CASE LockFails(t)
  <2>1. Shared'
    BY <1>6 DEF LockFails, Incident, Shared, upstream, trees, Snapshots, history
  <2>2. releaseLock # t /\ stagingLock # t
    BY <1>6 DEF LockFails, LocksHeld
  <2>. QED BY <1>6, <2>1, <2>2, Last DEF LockFails, trees
<1>7. CASE Advance(t) /\ call[t].op = "sync"
  <2>1. Shared'
    BY <1>7 DEF Advance, Shared, locks, trees, bounds, history
  <2>2. releaseLock # t /\ stagingLock # t
    BY <1>7 DEF LocksHeld
  <2>. QED BY <1>7, <2>1, <2>2, Last DEF Advance, locks, trees
<1>. QED BY <1>1, <1>2, <1>3, <1>4, <1>5, <1>6, <1>7

\* The steps that nobody's command takes: people, and commits.
LEMMA PeopleFlow ==
  ASSUME FlowInv, Unlock \/ PushMain \/ \E t \in Tasks : Commit(t) \/ PushBranch(t)
  PROVE  FlowInv'
<1>. USE NamesAssumption, BoundsAssumption DEF FlowInv
<1>1. CASE Unlock
  <2>1. Shared' /\ LocksHeld' /\ UNCHANGED <<call, branch, worktree>>
    BY <1>1 DEF Unlock, Shared, LocksHeld, upstream, trees, bounds, history
  <2>. QED BY <2>1, Outside
<1>2. CASE PushMain
  <2>1. main' \in Snapshots /\ main'[2] <= incidents' /\ incidents' \in 0 .. MaxIncidents
    BY <1>2 DEF PushMain, Incident, Shared, Snapshots
  <2>2. Shared' /\ LocksHeld' /\ UNCHANGED <<call, branch, worktree>>
    BY <1>2, <2>1 DEF PushMain, Shared, LocksHeld, locks, trees, history
  <2>. QED BY <2>2, Outside
<1>3. ASSUME NEW t \in Tasks, Commit(t) PROVE FlowInv'
  <2>1. /\ commits' = commits + 1 /\ commits' \in Commits /\ branch' = [branch EXCEPT ![t] = commits']
        /\ UNCHANGED <<registry, upstream, locks, worktree, pushed, call, bounds, accepted>>
    BY <1>3 DEF Commit, Shared, Commits
  <2>2. /\ branch' \in [Tasks -> Commits \cup {Absent}] /\ branch'[t] = commits'
        /\ \A u \in Tasks \ {t} : branch'[u] = branch[u]
    BY <2>1 DEF Shared, Commits
  <2>3. \A u \in Tasks : branch[u] # Absent => branch'[u] # Absent
    BY <2>1, <2>2 DEF Commits
  <2>4. Shared'
    BY <2>1, <2>2, <2>3 DEF Shared, upstream, locks, bounds
  <2>5. LocksHeld'
    BY <2>1 DEF LocksHeld, locks
  <2>. QED BY <2>1, <2>3, <2>4, <2>5, Outside
<1>4. ASSUME NEW t \in Tasks, PushBranch(t) PROVE FlowInv'
  <2>1. Shared'
    BY <1>4 DEF PushBranch, Shared, Commits, upstream, locks, bounds, history
  <2>2. LocksHeld' /\ UNCHANGED <<call, branch, worktree>>
    BY <1>4 DEF PushBranch, LocksHeld, locks
  <2>. QED BY <2>1, <2>2, Outside
<1>. QED BY <1>1, <1>2, <1>3, <1>4
\* The steps that only go on: the worktree is made or removed, main is fetched.
LEMMA GoFlow ==
  ASSUME FlowInv, NEW t \in Tasks, AddWorktree(t) \/ Fetch(t) \/ RemoveWorktree(t)
  PROVE  FlowInv'
<1>. USE NamesAssumption, BoundsAssumption DEF FlowInv
<1>1. CASE AddWorktree(t)
  <2>1. Go(t, "save") /\ call[t].at = "add" /\ call[t].op = "start" /\ UNCHANGED locks
    BY <1>1 DEF AddWorktree, At
  <2>2. /\ call' \in [Tasks -> CallType] /\ \A u \in Tasks \ {t} : call'[u] = call[u]
        /\ call'[t].at = "save" /\ call'[t].op = "start" /\ call'[t].data = call[t].data
        /\ call'[t].status = call[t].status
    BY <2>1, Gone DEF Places
  <2>3. /\ branch' = [branch EXCEPT ![t] = origin[1][t]] /\ pushed' = [pushed EXCEPT ![t] = Absent]
        /\ worktree' = worktree \cup {t} /\ origin[1][t] \in Commits
    BY <1>1 DEF AddWorktree, Shared, Snapshots, Commits
  <2>4. Shared'
    BY <1>1, <2>3 DEF AddWorktree, Shared, Snapshots, Commits, upstream, locks, bounds, history
  <2>5. InPlace(t)'
    BY <2>1, <2>2 DEF InPlace
  <2>. QED BY <2>1, <2>2, <2>3, <2>4, <2>5, Within DEF Shared
<1>2. CASE Fetch(t)
  <2>1. Go(t, "check") /\ call[t].at = "fetch" /\ call[t].op = "release" /\ UNCHANGED locks
    BY <1>2 DEF Fetch, At
  <2>2. /\ call' \in [Tasks -> CallType] /\ \A u \in Tasks \ {t} : call'[u] = call[u]
        /\ call'[t].at = "check" /\ call'[t].op = "release" /\ call'[t].commit = call[t].commit
    BY <2>1, Gone DEF Places, Locked
  <2>3. Shared' /\ UNCHANGED <<branch, worktree>>
    BY <1>2 DEF Fetch, Shared, locks, trees, bounds, history
  <2>4. InPlace(t)'
    BY <2>1, <2>2 DEF InPlace
  <2>. QED BY <2>1, <2>2, <2>3, <2>4, Within
<1>3. CASE RemoveWorktree(t)
  <2>1. Go(t, "delete") /\ call[t].at = "remove" /\ call[t].op = "cleanup" /\ UNCHANGED locks
    BY <1>3 DEF RemoveWorktree, At
  <2>2. /\ call' \in [Tasks -> CallType] /\ \A u \in Tasks \ {t} : call'[u] = call[u]
        /\ call'[t].at = "delete" /\ call'[t].op = "cleanup"
    BY <2>1, Gone DEF Places
  <2>3. Shared' /\ branch' = branch /\ worktree' = worktree \ {t}
    BY <1>3 DEF RemoveWorktree, Shared, upstream, locks, bounds, history
  <2>4. InPlace(t)'
    BY <2>2, <2>3 DEF InPlace
  <2>. QED BY <2>1, <2>2, <2>3, <2>4, Within
<1>. QED BY <1>1, <1>2, <1>3

\* A lock is taken.
LEMMA TakeFlow ==
  ASSUME FlowInv, NEW t \in Tasks, TakeLock(t) PROVE FlowInv'
<1>. USE NamesAssumption DEF FlowInv
<1>1. Shared' /\ call[t].at = "lock" /\ UNCHANGED <<branch, worktree>>
  BY DEF TakeLock, Shared, upstream, trees, bounds, history
<1>2. InPlace(t)
  OBVIOUS
<1>3. CASE call[t].op = "release"
  <2>1. releaseLock = Free /\ releaseLock' = t /\ Go(t, "fetch") /\ UNCHANGED stagingLock
    BY <1>3 DEF TakeLock
  <2>2. /\ call' \in [Tasks -> CallType] /\ \A u \in Tasks \ {t} : call'[u] = call[u]
        /\ call'[t].at = "fetch" /\ call'[t].op = "release" /\ call'[t].commit = call[t].commit
    BY <1>3, <2>1, Gone DEF Places, Locked
  <2>3. LocksHeld'
    BY <1>1, <1>3, <2>1, <2>2 DEF LocksHeld
  <2>4. InPlace(t)'
    BY <1>1, <1>2, <1>3, <2>2 DEF InPlace
  <2>. QED BY <1>1, <2>2, <2>3, <2>4, Frame
<1>4. CASE call[t].op # "release"
  <2>1. call[t].op = "deploy"
    BY <1>1, <1>2, <1>4 DEF InPlace, CallType, Ops
  <2>2. stagingLock = Free /\ stagingLock' = t /\ Go(t, "expect") /\ UNCHANGED releaseLock
    BY <1>4 DEF TakeLock
  <2>3. /\ call' \in [Tasks -> CallType] /\ \A u \in Tasks \ {t} : call'[u] = call[u]
        /\ call'[t].at = "expect" /\ call'[t].op = "deploy"
    BY <2>1, <2>2, Gone DEF Places, Locked
  <2>4. LocksHeld'
    BY <1>1, <2>1, <2>2, <2>3 DEF LocksHeld
  <2>5. InPlace(t)'
    BY <2>3 DEF InPlace
  <2>. QED BY <1>1, <2>3, <2>4, <2>5, Frame
<1>. QED BY <1>3, <1>4

\* The steps that end in a record: a validation, a failed release, a synchronisation, a
\* report, a deleted branch.
LEMMA RecordFlow ==
  ASSUME FlowInv, NEW t \in Tasks,
         \/ Validated(t) \/ ReleaseFails(t) \/ (Advance(t) /\ call[t].op # "sync")
         \/ Report(t) \/ DeleteBranch(t)
  PROVE  FlowInv'
<1>. USE NamesAssumption, BoundsAssumption DEF FlowInv
<1>1. call[t] \in CallType /\ InPlace(t)
  OBVIOUS
<1>2. ASSUME NEW new \in CallType, Record(t, new), Shared', UNCHANGED locks,
             new.op = call[t].op, new.op \notin {"start", "sync"},
             call[t].at \notin {"idle", "lock"},
             IF new.op = "finish" THEN new.commit # Absent ELSE new.status # "ready",
             \A u \in Tasks \ {t} : branch'[u] = branch[u], worktree' = worktree
      PROVE  FlowInv'
  <2>1. /\ call' \in [Tasks -> CallType] /\ \A u \in Tasks \ {t} : call'[u] = call[u]
        /\ call'[t].at = "read" /\ call'[t].op = new.op /\ call'[t].commit = new.commit
        /\ call'[t].status = new.status
    BY <1>2, Noted
  <2>2. InPlace(t)'
    BY <1>1, <1>2, <2>1 DEF InPlace, CallType, Ops
  <2>. QED BY <1>2, <2>1, <2>2, Within
<1>3. CASE Validated(t)
  <2>1. /\ Record(t, call[t]) /\ call[t].op = "finish" /\ call[t].at = "validate"
        /\ branch[t] = call[t].commit
        /\ accepted' = [accepted EXCEPT ![t] = @ \cup {call[t].commit}]
        /\ UNCHANGED <<registry, upstream, locks, trees, bounds>>
    BY <1>3 DEF Validated, At
  <2>2. call[t].commit # Absent /\ branch[t] \in Commits
    BY <1>1, <2>1 DEF InPlace, Shared
  <2>3. Shared'
    BY <2>1, <2>2 DEF Shared, upstream, locks, trees, bounds
  <2>. QED BY <1>1, <1>2, <2>1, <2>2, <2>3 DEF trees
<1>4. CASE ReleaseFails(t)
  <2>. DEFINE new == [call[t] EXCEPT !.status = "release_failed", !.commit = Absent]
  <2>1. Record(t, new) /\ UNCHANGED <<locks, branch, worktree>> /\ call[t].at \in {"merge", "push"}
    BY <1>4 DEF ReleaseFails, trees
  <2>2. call[t].op = "release"
    BY <1>1, <2>1 DEF InPlace, CallType, Ops
  <2>3. new \in CallType /\ new.op = call[t].op /\ new.status = "release_failed"
    BY <1>1 DEF CallType, Statuses
  <2>4. main' \in Snapshots /\ main'[2] <= incidents' /\ incidents' \in 0 .. MaxIncidents
    <3>1. CASE UNCHANGED <<main, bounds>> \/ (Incident /\ UNCHANGED main)
      BY <3>1 DEF Shared, bounds, Incident, Snapshots
    <3>2. CASE call[t].at = "push" /\ main = call[t].base /\ main' = Merged(t) /\ Incident
      <4>1. call[t].commit \in Commits /\ call[t].base = main
        BY <1>1, <3>2 DEF InPlace, CallType
      <4>. QED BY <3>2, <4>1 DEF Merged, Incident, Shared, Snapshots, Commits
    <3>. QED BY <1>4, <3>1, <3>2 DEF ReleaseFails
  <2>5. Shared'
    BY <1>4, <2>4 DEF ReleaseFails, Shared, locks, trees, history
  <2>. HIDE DEF new
  <2>. QED BY <1>2, <2>1, <2>2, <2>3, <2>5
<1>5. CASE Advance(t) /\ call[t].op # "sync"
  <2>1. PICK outcome \in {"canonical_synced", "master_pushed"} :
          Record(t, [call[t] EXCEPT !.status = outcome])
    BY <1>5 DEF Advance
  <2>. DEFINE new == [call[t] EXCEPT !.status = outcome]
  <2>2. Shared' /\ UNCHANGED <<locks, branch, worktree>> /\ call[t].at = "advance"
    BY <1>5 DEF Advance, Shared, locks, trees, bounds, history
  <2>3. call[t].op = "release"
    BY <1>1, <1>5, <2>2 DEF InPlace, CallType, Ops
  <2>4. new \in CallType /\ new.op = call[t].op /\ new.status # "ready"
    BY <1>1 DEF CallType, Statuses, Released
  <2>5. Record(t, new)
    BY <2>1
  <2>. HIDE DEF new
  <2>. QED BY <1>2, <2>2, <2>3, <2>4, <2>5
<1>6. CASE Report(t)
  <2>1. PICK new : /\ Record(t, new) /\ new \in CallType /\ new.op = call[t].op
                   /\ new.status # "ready"
    <3>. DEFINE one == [call[t] EXCEPT !.status = "verified", !.deployed = staging[1][t]]
                two == [call[t] EXCEPT !.status = "staging_deployed"]
    <3>1. Record(t, one) \/ Record(t, two)
      BY <1>6 DEF Report
    <3>2. staging[1][t] \in Commits
      BY DEF Shared, Snapshots, Commits
    <3>3. one \in CallType /\ one.op = call[t].op /\ one.status # "ready"
      BY <1>1, <3>2 DEF CallType, Statuses, Released
    <3>4. two \in CallType /\ two.op = call[t].op /\ two.status # "ready"
      BY <1>1 DEF CallType, Statuses, Released
    <3>. HIDE DEF one, two
    <3>. QED BY <3>1, <3>3, <3>4
  <2>2. Shared' /\ UNCHANGED <<locks, branch, worktree>> /\ call[t].at = "report" /\ call[t].op = "deploy"
    BY <1>6 DEF Report, At, Shared, upstream, locks, trees, bounds, history
  <2>. QED BY <1>2, <2>1, <2>2
<1>7. CASE DeleteBranch(t)
  <2>. DEFINE new == [call[t] EXCEPT !.status = "cleaned"]
  <2>1. Record(t, new) /\ UNCHANGED locks /\ call[t].at = "delete" /\ call[t].op = "cleanup"
        /\ branch' = [branch EXCEPT ![t] = Absent]
    BY <1>7 DEF DeleteBranch, At
  <2>2. new \in CallType /\ new.op = call[t].op /\ new.status # "ready"
    BY <1>1 DEF CallType, Statuses
  <2>3. t \notin worktree
    BY <1>1, <2>1 DEF InPlace
  <2>4. Shared' /\ worktree' = worktree
    BY <1>7, <2>1, <2>3 DEF DeleteBranch, Shared, upstream, locks, bounds, history
  <2>. HIDE DEF new
  <2>. QED BY <1>2, <2>1, <2>2, <2>4 DEF Shared
<1>. QED BY <1>3, <1>4, <1>5, <1>6, <1>7
\* The steps of a release up to its push, and what the others read: main, the workspace, the
\* registry.
LEMMA ReadFlow ==
  ASSUME FlowInv, NEW t \in Tasks,
         \/ Check(t) \/ Merge(t) \/ Push(t) \/ Target(t) \/ Deploy(t)
         \/ (ReadRegistry(t) /\ registry[t] # Absent)
  PROVE  FlowInv'
<1>. USE NamesAssumption, BoundsAssumption DEF FlowInv
<1>1. call[t] \in CallType /\ InPlace(t)
  OBVIOUS
<1>2. ASSUME NEW new \in CallType, call' = [call EXCEPT ![t] = new], Shared',
             UNCHANGED <<locks, branch, worktree>>,
             new.op = call[t].op, {call[t].at, new.at} \cap {"idle", "lock"} = {},
             call'[t] = new => InPlace(t)'
      PROVE  FlowInv'
  BY <1>2, Within DEF Shared
<1>3. CASE Check(t)
  <2>1. /\ call[t].op = "release" /\ call[t].at = "check" /\ branch[t] = call[t].commit
        /\ Shared' /\ UNCHANGED <<locks, branch, worktree>>
    BY <1>3 DEF Check, At, PassedFinish, Shared, upstream, locks, trees, bounds, history
  <2>. DEFINE one == [call[t] EXCEPT !.at = "target", !.commit = Absent]
              two == [call[t] EXCEPT !.at = "merge", !.base = origin]
  <2>2. call' = [call EXCEPT ![t] = one] \/ call' = [call EXCEPT ![t] = two]
    BY <1>3 DEF Check
  <2>3. one \in CallType /\ one.op = "release" /\ one.at = "target"
    BY <1>1, <2>1 DEF CallType, Places
  <2>4. /\ two \in CallType /\ two.op = "release" /\ two.at = "merge" /\ two.base = origin
        /\ two.commit = call[t].commit
    BY <1>1, <2>1 DEF CallType, Places, Locked, Shared
  <2>. HIDE DEF one, two
  <2>5. call'[t] = one => InPlace(t)'
    BY <2>3 DEF InPlace
  <2>6. call'[t] = two => InPlace(t)'
    BY <1>1, <2>1, <2>4 DEF InPlace, Shared
  <2>. QED BY <1>2, <2>1, <2>2, <2>3, <2>4, <2>5, <2>6
<1>4. CASE Merge(t)
  <2>1. /\ call[t].op = "release" /\ call[t].at = "merge" /\ Shared'
        /\ UNCHANGED <<locks, branch, worktree>>
    BY <1>4 DEF Merge, At, Shared, upstream, locks, trees, bounds, history
  <2>. DEFINE new == [call[t] EXCEPT !.at = "push", !.commit = branch[t]]
  <2>2. call' = [call EXCEPT ![t] = new]
    BY <1>4 DEF Merge
  <2>3. branch[t] \in Commits /\ call[t].base \in Snapshots
    BY <1>1, <2>1 DEF InPlace, Shared
  <2>4. /\ new \in CallType /\ new.op = "release" /\ new.at = "push" /\ new.base = call[t].base
        /\ new.commit = branch[t]
    BY <1>1, <2>1, <2>3 DEF CallType, Places, Locked
  <2>. HIDE DEF new
  <2>5. call'[t] = new => InPlace(t)'
    BY <2>3, <2>4 DEF InPlace, Commits
  <2>. QED BY <1>2, <2>1, <2>2, <2>4, <2>5
<1>5. CASE Push(t)
  <2>1. /\ call[t].op = "release" /\ call[t].at = "push" /\ call[t].base = main
        /\ main' = Merged(t) /\ origin' = main' /\ UNCHANGED <<locks, branch, worktree>>
    BY <1>5 DEF Push, At, trees
  <2>2. call[t].commit \in Commits
    BY <1>1, <2>1 DEF InPlace, CallType
  <2>3. main' \in Snapshots /\ main'[2] = main[2]
    BY <2>1, <2>2 DEF Merged, Shared, Snapshots, Commits
  <2>4. Shared'
    BY <1>5, <2>1, <2>3 DEF Push, Shared, locks, trees, bounds, history
  <2>. DEFINE new == [call[t] EXCEPT !.at = "target", !.base = Absent, !.commit = Absent]
  <2>5. call' = [call EXCEPT ![t] = new]
    BY <1>5 DEF Push, Synchronise
  <2>6. new \in CallType /\ new.op = "release" /\ new.at = "target"
    BY <1>1, <2>1 DEF CallType, Places
  <2>. HIDE DEF new
  <2>7. call'[t] = new => InPlace(t)'
    BY <2>6 DEF InPlace
  <2>. QED BY <1>2, <2>1, <2>4, <2>5, <2>6, <2>7
<1>6. CASE Target(t)
  <2>1. /\ call[t].at = "target" /\ Shared' /\ UNCHANGED <<locks, branch, worktree>>
    BY <1>6 DEF Target, Shared, locks, trees, bounds, history
  <2>. DEFINE new == [call[t] EXCEPT !.at = "advance", !.base = origin']
  <2>2. call' = [call EXCEPT ![t] = new]
    BY <1>6 DEF Target
  <2>3. /\ new \in CallType /\ new.op = call[t].op /\ new.at = "advance" /\ new.base = origin'
        /\ new.base \in Snapshots
    BY <1>1, <2>1 DEF CallType, Places, Shared
  <2>. HIDE DEF new
  <2>4. call'[t] = new => InPlace(t)'
    BY <1>1, <2>1, <2>3 DEF InPlace
  <2>. QED BY <1>2, <2>1, <2>2, <2>3, <2>4
<1>7. CASE Deploy(t)
  <2>1. /\ call[t].op = "deploy" /\ call[t].at = "expect" /\ Shared'
        /\ UNCHANGED <<locks, branch, worktree>>
    BY <1>7 DEF Deploy, At, Shared, locks, trees, bounds, history
  <2>. DEFINE new == [call[t] EXCEPT !.at = "report", !.base = main]
  <2>2. call' = [call EXCEPT ![t] = new]
    BY <1>7 DEF Deploy
  <2>3. /\ new \in CallType /\ new.op = "deploy" /\ new.at = "report" /\ new.base \in Snapshots
    BY <1>1, <2>1 DEF CallType, Places, Locked, Shared
  <2>. HIDE DEF new
  <2>4. call'[t] = new => InPlace(t)'
    BY <2>3 DEF InPlace
  <2>. QED BY <1>2, <2>1, <2>2, <2>3, <2>4
<1>8. CASE ReadRegistry(t) /\ registry[t] # Absent
  <2>1. /\ call[t].at = "read" /\ Shared' /\ UNCHANGED <<locks, branch, worktree>>
    BY <1>8 DEF ReadRegistry, Shared, upstream, locks, trees, bounds, history
  <2>. DEFINE new == [call[t] EXCEPT !.at = "save", !.data = registry]
  <2>2. call' = [call EXCEPT ![t] = new]
    BY <1>8 DEF ReadRegistry
  <2>3. /\ new \in CallType /\ new.op = call[t].op /\ new.at = "save" /\ new.data = registry
        /\ new.commit = call[t].commit /\ new.status = call[t].status
    BY <1>1, <2>1 DEF CallType, Places, Shared
  <2>4. registry \in Registries
    BY DEF Shared
  <2>. HIDE DEF new
  <2>5. call'[t] = new => InPlace(t)'
    BY <1>1, <1>8, <2>1, <2>3, <2>4 DEF InPlace
  <2>. QED BY <1>2, <2>1, <2>2, <2>3, <2>5
<1>. QED BY <1>3, <1>4, <1>5, <1>6, <1>7, <1>8

LEMMA NextFlowInv == ASSUME FlowInv, [Next]_vars PROVE FlowInv'
<1>1. ASSUME NEW t \in Tasks, Step(t) \/ LockFails(t) \/ Fails(t) \/ Crash(t) PROVE FlowInv'
  BY <1>1, BeginFlow, EndFlow, GoFlow, TakeFlow, RecordFlow, ReadFlow DEF Step
<1>2. ASSUME UNCHANGED vars PROVE FlowInv'
  BY <1>2 DEF vars, upstream, locks, trees, bounds, history, FlowInv, Shared, LocksHeld, InPlace
<1>. QED BY <1>1, <1>2, PeopleFlow DEF Next

\* Every command is where its kind of command can be, with what it needs there, and each of
\* the two locks is held by the command that is between taking and releasing it.
THEOREM CommandsInPlace == Spec => []FlowInv
<1>1. Init => FlowInv
  BY InitFlowInv
<1>2. FlowInv /\ [Next]_vars => FlowInv'
  BY NextFlowInv
<1>. QED BY <1>1, <1>2, PTL DEF Spec

\* Type correctness, and releases and deployments run alone (repository_lock).
THEOREM TypeCorrect == Spec => []TypeOK
<1>1. ASSUME FlowInv PROVE TypeOK
  <2>1. \A t \in Tasks : registry[t] # Absent =>
          registry[t].status \in Statuses /\ registry[t].commit \in 0 .. MaxCommits \cup {Absent}
    BY <1>1 DEF FlowInv, Shared, Registries, Entries
  <2>2. \A t \in Tasks : call[t].op \in Ops /\ call[t].at \in Places
    BY <1>1 DEF FlowInv, CallType
  <2>. QED BY <1>1, <2>1, <2>2 DEF TypeOK, FlowInv, Shared, LocksHeld
<1>. QED BY <1>1, CommandsInPlace, PTL
\* What a synchronisation, a report and a failing release make of their call.
LEMMA AdvanceCall ==
  ASSUME FlowInv, NEW t \in Tasks, Advance(t)
  PROVE  IF call[t].op = "sync" THEN call'[t] = NoCall
         ELSE /\ call[t].op = "release" /\ call'[t].op = "release" /\ call'[t].at = "read"
              /\ call'[t].status \in {"canonical_synced", "master_pushed"}
              /\ call'[t].status = "canonical_synced" => canonical' = call[t].base
<1>. USE DEF FlowInv
<1>1. InPlace(t) /\ call[t].at = "advance" /\ call[t] \in CallType
  BY DEF Advance
<1>2. CASE call[t].op = "sync"
  BY <1>2 DEF Advance
<1>3. CASE call[t].op # "sync"
  <2>1. call[t].op = "release"
    BY <1>1, <1>3 DEF InPlace, CallType, Ops
  <2>2. PICK outcome \in {"canonical_synced", "master_pushed"} :
          /\ Record(t, [call[t] EXCEPT !.status = outcome])
          /\ outcome = "canonical_synced" => canonical' = call[t].base
    BY <1>3 DEF Advance
  <2>. DEFINE new == [call[t] EXCEPT !.status = outcome]
  <2>3. new \in CallType /\ new.op = "release" /\ new.status = outcome
    BY <1>1, <2>1 DEF CallType, Statuses, Released
  <2>4. Record(t, new)
    BY <2>2
  <2>. HIDE DEF new
  <2>. QED BY <1>3, <2>1, <2>2, <2>3, <2>4, Noted
<1>. QED BY <1>2, <1>3

LEMMA ReportCall ==
  ASSUME FlowInv, NEW t \in Tasks, Report(t)
  PROVE  /\ call[t].op = "deploy" /\ call[t].at = "report"
         /\ call'[t].op = "deploy" /\ call'[t].at = "read"
         /\ call'[t].status \in {"verified", "staging_deployed"}
         /\ call'[t].status = "verified" =>
              staging = call[t].base /\ call'[t].deployed = staging[1][t]
<1>. USE DEF FlowInv
<1>. DEFINE one == [call[t] EXCEPT !.status = "verified", !.deployed = staging[1][t]]
            two == [call[t] EXCEPT !.status = "staging_deployed"]
<1>1. /\ call[t].op = "deploy" /\ call[t].at = "report"
      /\ (Record(t, one) /\ staging = call[t].base) \/ Record(t, two)
  BY DEF Report, At
<1>2. staging[1][t] \in Commits
  BY DEF Shared, Snapshots, Commits
<1>3. /\ one \in CallType /\ one.op = "deploy" /\ one.status = "verified"
      /\ one.deployed = staging[1][t]
  BY <1>1, <1>2 DEF CallType, Statuses, Released
<1>4. two \in CallType /\ two.op = "deploy" /\ two.status = "staging_deployed"
  BY <1>1 DEF CallType, Statuses, Released
<1>. HIDE DEF one, two
<1>5. CASE Record(t, one) /\ staging = call[t].base
  BY <1>1, <1>3, <1>5, Noted
<1>6. CASE Record(t, two)
  BY <1>1, <1>4, <1>6, Noted
<1>. QED BY <1>1, <1>5, <1>6

LEMMA FailsCall ==
  ASSUME FlowInv, NEW t \in Tasks, ReleaseFails(t)
  PROVE  /\ call[t].op = "release" /\ call'[t].op = "release" /\ call'[t].at = "read"
         /\ call'[t].status = "release_failed"
         /\ \A u \in Tasks \ {t} : call'[u] = call[u]
<1>. USE DEF FlowInv
<1>1. InPlace(t) /\ call[t] \in CallType /\ call[t].at \in {"merge", "push"}
  BY DEF ReleaseFails
<1>2. call[t].op = "release"
  BY <1>1 DEF InPlace, CallType, Ops
<1>. DEFINE new == [call[t] EXCEPT !.status = "release_failed", !.commit = Absent]
<1>3. new \in CallType /\ new.op = "release" /\ new.status = "release_failed"
  BY <1>1, <1>2 DEF CallType, Statuses
<1>4. Record(t, new)
  BY DEF ReleaseFails
<1>. HIDE DEF new
<1>. QED BY <1>2, <1>3, <1>4, Noted

-----------------------------------------------------------------------------
(* What reaches main *)

LEMMA InitAcceptedInv == ASSUME Init PROVE AcceptedInv
BY DEF Init, AcceptedInv, AcceptedOnly, Passed, CommitKnown, Root, NoCall

\* A step of t keeps the invariant when it records and merges only what passed finish.
LEMMA AcceptedFrame ==
  ASSUME FlowInv, AcceptedInv, NEW t \in Tasks,
         \A u \in Tasks \ {t} : call'[u] = call[u] /\ branch'[u] = branch[u],
         \A u \in Tasks : accepted[u] \subseteq accepted'[u], moved \subseteq moved',
         main'[1] = main[1] \/ AcceptedOnly',
         registry' = registry \/ \A u \in Tasks : Passed(u, registry[u])', CommitKnown(t)'
  PROVE  AcceptedInv'
<1>1. AcceptedOnly'
  BY DEF AcceptedInv, AcceptedOnly
<1>2. \A u \in Tasks : Passed(u, registry[u])'
  BY DEF AcceptedInv, Passed
<1>3. ASSUME NEW u \in Tasks \ {t} PROVE CommitKnown(u)'
  <2>1. CommitKnown(u)
    BY DEF AcceptedInv
  <2>. QED BY <2>1 DEF CommitKnown, Passed
<1>. QED BY <1>1, <1>2, <1>3 DEF AcceptedInv

\* The call of t is where nothing is claimed of it.
LEMMA Unclaimed ==
  ASSUME FlowInv, AcceptedInv, NEW t \in Tasks,
         \/ call'[t].at \in {"idle", "validate", "target", "advance", "remove", "delete",
                             "expect", "report"}
         \/ call'[t].at = "lock" /\ call'[t].op # "release"
         \/ call'[t].at = "read" /\ call'[t].op # "finish"
  PROVE  CommitKnown(t)'
BY DEF CommitKnown

\* The steps that end a command or read nothing of the registry.
LEMMA UnclaimedSteps ==
  ASSUME FlowInv, AcceptedInv, NEW t \in Tasks,
         \/ Finish(t) \/ BeginSync(t) \/ BeginDeploy(t) \/ BeginCleanup(t)
         \/ (ReadRegistry(t) /\ registry[t] = Absent) \/ Refused(t) \/ Fails(t) \/ Crash(t)
         \/ LockFails(t) \/ Target(t) \/ Advance(t) \/ Deploy(t) \/ Report(t)
         \/ RemoveWorktree(t) \/ DeleteBranch(t)
  PROVE  AcceptedInv'
<1>. USE DEF FlowInv
<1>1. \A u \in Tasks \ {t} : call'[u] = call[u] /\ branch'[u] = branch[u]
  BY DEF Finish, BeginSync, BeginDeploy, BeginCleanup, Begin, ReadRegistry, Refused, Fails, Crash,
         LockFails, Target, Advance, Deploy, Report, RemoveWorktree, DeleteBranch, End, Go, Record,
         trees, Shared
<1>2. UNCHANGED <<main, accepted, moved, registry>>
  BY DEF Finish, BeginSync, BeginDeploy, BeginCleanup, ReadRegistry, Refused, Fails, Crash,
         LockFails, Target, Advance, Deploy, Report, RemoveWorktree, DeleteBranch, upstream, history
<1>3. \/ call'[t].at \in {"idle", "validate", "target", "advance", "remove", "delete",
                          "expect", "report"}
      \/ call'[t].at = "lock" /\ call'[t].op # "release"
      \/ call'[t].at = "read" /\ call'[t].op # "finish"
  <2>. USE DEF NoCall, CallType
  <2>1. CASE Finish(t) \/ BeginSync(t) \/ BeginDeploy(t) \/ BeginCleanup(t)
    <3>1. CASE Finish(t)
      BY <3>1 DEF Finish, Begin
    <3>2. CASE BeginSync(t)
      BY <3>2 DEF BeginSync, Begin
    <3>3. CASE BeginDeploy(t)
      BY <3>3 DEF BeginDeploy, Begin
    <3>4. CASE BeginCleanup(t)
      BY <3>4 DEF BeginCleanup, Begin
    <3>. QED BY <2>1, <3>1, <3>2, <3>3, <3>4
  <2>2. CASE \/ (ReadRegistry(t) /\ registry[t] = Absent) \/ Refused(t) \/ Fails(t) \/ Crash(t)
             \/ LockFails(t)
    BY <2>2 DEF ReadRegistry, Refused, Fails, Crash, LockFails, End
  <2>3. CASE Target(t) \/ Deploy(t) \/ RemoveWorktree(t)
    BY <2>3 DEF Target, Deploy, RemoveWorktree, Go
  <2>4. CASE Advance(t) \/ Report(t) \/ DeleteBranch(t)
    <3>1. CASE DeleteBranch(t)
      BY <3>1 DEF DeleteBranch, At, Record
    <3>. QED BY <2>4, <3>1, AdvanceCall, ReportCall
  <2>. QED BY <2>1, <2>2, <2>3, <2>4
<1>. QED BY <1>1, <1>2, <1>3, Unclaimed, AcceptedFrame

\* What is recorded at the end of a command is what it read, or the commit of its finish.
LEMMA SaveAccepted ==
  ASSUME FlowInv, AcceptedInv, NEW t \in Tasks, SaveRegistry(t) PROVE AcceptedInv'
<1>. USE DEF FlowInv
<1>1. /\ call[t].at = "save" /\ call' = [call EXCEPT ![t] = NoCall]
      /\ registry' = [call[t].data EXCEPT ![t] = Entry(t)]
      /\ UNCHANGED <<main, accepted, moved, branch>>
  BY DEF SaveRegistry, End, upstream, trees
<1>2. CommitKnown(t) /\ InPlace(t) /\ call[t].data \in Registries /\ call[t] \in CallType
  BY <1>1 DEF AcceptedInv, InPlace
<1>3. Passed(t, Entry(t))
  <2>1. CASE call[t].op = "start"
    BY <2>1 DEF Entry, NewEntry, Passed
  <2>2. CASE call[t].op # "start"
    <3>1. call[t].data[t] \in Entries /\ Passed(t, call[t].data[t]) /\ call[t].data[t] # Absent
      BY <1>1, <1>2, <2>2 DEF InPlace, Registries, CommitKnown
    <3>2. CASE call[t].op = "finish"
      <4>1. call[t].commit \in accepted[t]
        BY <1>1, <1>2, <3>2 DEF CommitKnown
      <4>2. Entry(t).commit = call[t].commit
        BY <3>1, <3>2 DEF Entry, Entries
      <4>. QED BY <4>1, <4>2 DEF Passed
    <3>3. CASE call[t].op # "finish"
      <4>1. Entry(t).commit = call[t].data[t].commit
        BY <2>2, <3>1, <3>3 DEF Entry, Entries
      <4>. QED BY <3>1, <4>1 DEF Passed
    <3>. QED BY <3>2, <3>3
  <2>. QED BY <2>1, <2>2
<1>4. \A u \in Tasks : Passed(u, registry[u])'
  <2>1. \A u \in Tasks : Passed(u, registry'[u])
    BY <1>1, <1>2, <1>3 DEF CommitKnown, Registries
  <2>. QED BY <1>1, <2>1 DEF Passed
<1>5. CommitKnown(t)' /\ \A u \in Tasks \ {t} : call'[u] = call[u]
  BY <1>1, Unclaimed DEF NoCall
<1>. QED BY <1>1, <1>4, <1>5, AcceptedFrame

\* What a command reads of the registry, and the commit that finish has validated.
LEMMA ReadAccepted ==
  ASSUME FlowInv, AcceptedInv, NEW t \in Tasks,
         \/ Start(t) \/ AddWorktree(t) \/ Validated(t) \/ BeginRelease(t)
         \/ (ReadRegistry(t) /\ registry[t] # Absent)
  PROVE  AcceptedInv'
<1>. USE DEF FlowInv
<1>1. CommitKnown(t) /\ InPlace(t) /\ \A u \in Tasks : Passed(u, registry[u])
  BY DEF AcceptedInv
<1>2. \A u \in Tasks \ {t} : call'[u] = call[u] /\ branch'[u] = branch[u]
  BY DEF Start, AddWorktree, Validated, BeginRelease, ReadRegistry, Begin, Go, Record, trees, Shared
<1>3. UNCHANGED <<main, moved, registry>> /\ \A u \in Tasks : accepted[u] \subseteq accepted'[u]
  BY DEF Start, AddWorktree, Validated, BeginRelease, ReadRegistry, upstream, history, Shared
<1>4. CommitKnown(t)'
  <2>1. CASE Start(t)
    <3>1. call'[t].at = "add" /\ call'[t].op = "start" /\ call'[t].data = registry
      BY <2>1 DEF Start, Begin, NoCall
    <3>. QED BY <1>1, <1>3, <3>1 DEF CommitKnown, Passed
  <2>2. CASE AddWorktree(t)
    <3>1. /\ call[t].at = "add" /\ call'[t].at = "save" /\ call'[t].op = "start"
          /\ call'[t].data = call[t].data
      BY <2>2 DEF AddWorktree, At, Go, CallType
    <3>. QED BY <1>1, <1>3, <3>1 DEF CommitKnown, Passed
  <2>3. CASE Validated(t)
    <3>1. /\ call'[t].at = "read" /\ call'[t].commit = call[t].commit
          /\ accepted'[t] = accepted[t] \cup {call[t].commit}
      BY <2>3 DEF Validated, At, Record, CallType, Shared
    <3>. QED BY <3>1 DEF CommitKnown
  <2>4. CASE BeginRelease(t)
    <3>1. call'[t].at = "lock" /\ call'[t].commit = registry[t].commit
      BY <2>4 DEF BeginRelease, Begin, NoCall
    <3>2. registry[t].commit \in accepted[t]
      BY <1>1, <2>4 DEF BeginRelease, Passed, Shared, Registries
    <3>. QED BY <1>3, <3>1, <3>2 DEF CommitKnown
  <2>5. CASE ReadRegistry(t) /\ registry[t] # Absent
    <3>1. /\ call[t].at = "read" /\ call'[t].at = "save" /\ call'[t].op = call[t].op
          /\ call'[t].commit = call[t].commit /\ call'[t].data = registry
      BY <2>5 DEF ReadRegistry, CallType
    <3>. QED BY <1>1, <1>3, <3>1 DEF CommitKnown, Passed
  <2>. QED BY <2>1, <2>2, <2>3, <2>4, <2>5
<1>. QED BY <1>2, <1>3, <1>4, AcceptedFrame

\* A release up to its merge.
LEMMA MergeAccepted ==
  ASSUME FlowInv, AcceptedInv, NEW t \in Tasks,
         TakeLock(t) \/ Fetch(t) \/ Check(t) \/ Merge(t)
  PROVE  AcceptedInv'
<1>. USE DEF FlowInv
<1>1. CommitKnown(t) /\ InPlace(t)
  BY DEF AcceptedInv
<1>2. /\ \A u \in Tasks \ {t} : call'[u] = call[u]
      /\ UNCHANGED <<main, moved, registry, accepted, branch>>
  BY DEF TakeLock, Fetch, Check, Merge, Go, upstream, trees, history
<1>3. CommitKnown(t)'
  <2>. USE DEF At, Go, CallType
  <2>1. CASE TakeLock(t)
    <3>1. /\ call[t].at = "lock" /\ call'[t].op = call[t].op /\ call'[t].commit = call[t].commit
          /\ call'[t].at = IF call[t].op = "release" THEN "fetch" ELSE "expect"
      BY <2>1 DEF TakeLock
    <3>. QED BY <1>1, <1>2, <3>1 DEF CommitKnown
  <2>2. CASE Fetch(t)
    <3>1. /\ call[t].at = "fetch" /\ call[t].op = "release" /\ call'[t].commit = call[t].commit
          /\ call'[t].at = "check"
      BY <2>2 DEF Fetch
    <3>. QED BY <1>1, <1>2, <3>1 DEF CommitKnown
  <2>3. CASE Check(t)
    <3>1. /\ call[t].at = "check" /\ call[t].op = "release" /\ branch[t] = call[t].commit
          /\ call'[t].at = "target" \/ (call'[t].at = "merge" /\ call'[t].commit = call[t].commit)
      BY <2>3 DEF Check, PassedFinish
    <3>. QED BY <1>1, <1>2, <3>1 DEF CommitKnown
  <2>4. CASE Merge(t)
    <3>1. /\ call[t].at = "merge" /\ call[t].op = "release" /\ call'[t].at = "push"
          /\ call'[t].commit = branch[t]
      BY <2>4 DEF Merge
    <3>. QED BY <1>1, <1>2, <3>1 DEF CommitKnown
  <2>. QED BY <2>1, <2>2, <2>3, <2>4
<1>. QED BY <1>2, <1>3, AcceptedFrame

\* The push, or one that is reported as failed: main gets the commit that was merged.
LEMMA PushAccepted ==
  ASSUME FlowInv, AcceptedInv, NEW t \in Tasks, Push(t) \/ ReleaseFails(t)
  PROVE  AcceptedInv'
<1>. USE DEF FlowInv
<1>1. CommitKnown(t) /\ InPlace(t)
  BY DEF AcceptedInv
<1>2. /\ \A u \in Tasks \ {t} : call'[u] = call[u]
      /\ UNCHANGED <<moved, registry, accepted, branch>>
  BY DEF Push, ReleaseFails, Synchronise, Record, trees, history
<1>3. CommitKnown(t)'
  <2>1. CASE Push(t)
    <3>1. call'[t].at = "target"
      BY <2>1 DEF Push, Synchronise, CallType
    <3>. QED BY <3>1, Unclaimed
  <2>2. CASE ReleaseFails(t)
    BY <2>2, FailsCall, Unclaimed
  <2>. QED BY <2>1, <2>2
<1>4. CASE main' = main
  BY <1>2, <1>3, <1>4, AcceptedFrame
<1>5. CASE call[t].at = "push" /\ main = call[t].base /\ main' = Merged(t)
  <2>1. main'[1][t] = call[t].commit /\ \A u \in Tasks \ {t} : main'[1][u] = main[1][u]
    BY <1>5 DEF Merged, Shared, Snapshots
  <2>2. AcceptedOnly'
    BY <1>1, <1>2, <1>5, <2>1 DEF CommitKnown, AcceptedInv, AcceptedOnly
  <2>. QED BY <1>2, <1>3, <2>2, AcceptedFrame
<1>. QED BY <1>4, <1>5 DEF Push, ReleaseFails, At

\* People: whoever commits while a release is about to merge is noted.
LEMMA PeopleAccepted ==
  ASSUME FlowInv, AcceptedInv, Unlock \/ PushMain \/ \E t \in Tasks : Commit(t) \/ PushBranch(t)
  PROVE  AcceptedInv'
<1>1. CASE Unlock \/ \E t \in Tasks : PushBranch(t)
  BY <1>1 DEF Unlock, PushBranch, upstream, trees, history, AcceptedInv, AcceptedOnly, CommitKnown,
              Passed
<1>2. CASE PushMain
  BY <1>2 DEF PushMain, trees, history, AcceptedInv, AcceptedOnly, CommitKnown, Passed
<1>3. ASSUME NEW t \in Tasks, Commit(t) PROVE AcceptedInv'
  <2>1. /\ UNCHANGED <<main, registry, call, accepted>> /\ moved \subseteq moved'
        /\ \A u \in Tasks \ {t} : branch'[u] = branch[u]
        /\ At(t, "release", "merge") => t \in moved'
    BY <1>3 DEF Commit, upstream, FlowInv, Shared
  <2>2. CommitKnown(t) /\ InPlace(t)
    BY DEF AcceptedInv, FlowInv
  <2>3. call[t].at = "merge" => call[t].op = "release"
    BY <2>2 DEF InPlace, FlowInv, CallType, Ops
  <2>4. CommitKnown(t)'
    BY <2>1, <2>2, <2>3 DEF CommitKnown, Passed, At
  <2>. QED BY <2>1, <2>4, AcceptedFrame
<1>. QED BY <1>1, <1>2, <1>3

LEMMA NextAcceptedInv == ASSUME FlowInv, AcceptedInv, [Next]_vars PROVE AcceptedInv'
<1>1. ASSUME NEW t \in Tasks, Step(t) \/ LockFails(t) \/ Fails(t) \/ Crash(t) PROVE AcceptedInv'
  BY <1>1, UnclaimedSteps, SaveAccepted, ReadAccepted, MergeAccepted, PushAccepted DEF Step
<1>2. ASSUME UNCHANGED vars PROVE AcceptedInv'
  BY <1>2 DEF vars, upstream, trees, history, AcceptedInv, AcceptedOnly, CommitKnown, Passed
<1>. QED BY <1>1, <1>2, PeopleAccepted DEF Next

\* Main gets no commit of a task that did not pass finish, except what is committed while its
\* release is between its check of the branch and its merge by name (release), however many
\* commands save over each other's registry and whoever dies.
THEOREM MainIsAccepted == Spec => []AcceptedOnly
<1>1. Init => AcceptedInv
  BY InitAcceptedInv
<1>2. FlowInv /\ AcceptedInv /\ [Next]_vars => AcceptedInv'
  BY NextAcceptedInv
<1>3. AcceptedInv => AcceptedOnly
  BY DEF AcceptedInv
<1>. QED BY <1>1, <1>2, <1>3, CommandsInPlace, PTL DEF Spec
-----------------------------------------------------------------------------
(* Main and the workspace grow *)

LEMMA InitOrdered == ASSUME Init PROVE Ordered
<1>. USE BoundsAssumption
<1>1. \A t \in Tasks : Root[1][t] = 0
  BY DEF Root
<1>. QED BY <1>1 DEF Init, Ordered, InOrder, UpTo, NoCall

\* A step of t.
LEMMA OrderedFrame ==
  ASSUME FlowInv, FlowInv', Ordered, NEW t \in Tasks,
         \A u \in Tasks \ {t} : /\ call'[u] = call[u] /\ branch'[u] = branch[u]
                                /\ main'[1][u] = main[1][u],
         commits <= commits', UpTo(origin, origin'), UpTo(origin', main'), InOrder(t)'
  PROVE  Ordered'
<1>. USE DEF FlowInv, Shared, Snapshots, Commits
<1>1. ASSUME NEW u \in Tasks \ {t} PROVE InOrder(u)'
  <2>1. InOrder(u) /\ InPlace(u) /\ call[u] \in CallType
    BY DEF Ordered
  <2>2. call[u].at = "advance" => UpTo(call[u].base, origin')
    BY <2>1 DEF InOrder, InPlace, UpTo
  <2>3. call[u].at = "push" => call[u].commit <= commits'
    BY <2>1 DEF InOrder, InPlace, CallType
  <2>4. main[1][u] <= commits' /\ (branch[u] # Absent => branch[u] <= commits')
    BY <2>1 DEF InOrder
  <2>. QED BY <2>1, <2>2, <2>3, <2>4 DEF InOrder
<1>. QED BY <1>1 DEF Ordered

\* The tracking ref follows main or stays.
LEMMA Tracking ==
  ASSUME FlowInv, FlowInv', Ordered, main' = main, origin' \in {origin, main}
  PROVE  UpTo(origin, origin') /\ UpTo(origin', main')
BY DEF FlowInv, Shared, Snapshots, Commits, Ordered, UpTo

\* Steps after which t is neither about to advance, to merge nor to push.
LEMMA PlainOrdered ==
  ASSUME FlowInv, FlowInv', Ordered, NEW t \in Tasks,
         call'[t].at \notin {"advance", "merge", "push"},
         \A u \in Tasks \ {t} : call'[u] = call[u] /\ branch'[u] = branch[u],
         branch'[t] \in {branch[t], Absent, main[1][t]} \/ branch'[t] <= main[1][t],
         UNCHANGED <<main, commits>>, origin' \in {origin, main}
  PROVE  Ordered'
<1>. USE DEF FlowInv, Shared, Snapshots, Commits
<1>1. InOrder(t)'
  <2>1. InOrder(t)
    BY DEF Ordered
  <2>2. branch'[t] # Absent => branch'[t] <= commits
    BY <2>1, NamesAssumption DEF InOrder
  <2>. QED BY <2>1, <2>2 DEF InOrder
<1>. QED BY <1>1, Tracking, OrderedFrame

LEMMA PlainSteps ==
  ASSUME FlowInv, FlowInv', Ordered, NEW t \in Tasks,
         \/ ReadRegistry(t) \/ SaveRegistry(t) \/ Start(t) \/ AddWorktree(t) \/ Finish(t)
         \/ Validated(t) \/ BeginRelease(t) \/ TakeLock(t) \/ Fetch(t) \/ BeginSync(t) \/ Advance(t)
         \/ BeginDeploy(t) \/ Deploy(t) \/ Report(t) \/ BeginCleanup(t) \/ RemoveWorktree(t)
         \/ DeleteBranch(t) \/ Refused(t) \/ LockFails(t) \/ Fails(t) \/ Crash(t)
  PROVE  Ordered'
<1>1. call'[t].at \notin {"advance", "merge", "push"}
  <2>. USE DEF FlowInv, NoCall, CallType, End, Go, Begin, Record, At
  <2>1. CASE \/ ReadRegistry(t) \/ SaveRegistry(t) \/ AddWorktree(t) \/ TakeLock(t) \/ Fetch(t)
             \/ Refused(t) \/ LockFails(t) \/ Fails(t) \/ Crash(t) \/ RemoveWorktree(t)
    BY <2>1 DEF ReadRegistry, SaveRegistry, AddWorktree, TakeLock, Fetch, Refused, LockFails, Fails,
                Crash, RemoveWorktree
  <2>2. CASE \/ Start(t) \/ Finish(t) \/ BeginRelease(t) \/ BeginSync(t) \/ BeginDeploy(t)
             \/ BeginCleanup(t)
    <3>1. CASE Start(t)
      BY <3>1 DEF Start
    <3>2. CASE Finish(t)
      BY <3>2 DEF Finish
    <3>3. CASE BeginRelease(t)
      BY <3>3 DEF BeginRelease
    <3>4. CASE BeginSync(t)
      BY <3>4 DEF BeginSync
    <3>5. CASE BeginDeploy(t)
      BY <3>5 DEF BeginDeploy
    <3>6. CASE BeginCleanup(t)
      BY <3>6 DEF BeginCleanup
    <3>. QED BY <2>2, <3>1, <3>2, <3>3, <3>4, <3>5, <3>6
  <2>3. CASE Validated(t) \/ Deploy(t) \/ DeleteBranch(t)
    <3>1. CASE Validated(t)
      BY <3>1 DEF Validated
    <3>2. CASE Deploy(t)
      BY <3>2 DEF Deploy
    <3>3. CASE DeleteBranch(t)
      BY <3>3 DEF DeleteBranch
    <3>. QED BY <2>3, <3>1, <3>2, <3>3
  <2>4. CASE Advance(t) \/ Report(t)
    BY <2>4, AdvanceCall, ReportCall
  <2>. QED BY <2>1, <2>2, <2>3, <2>4
<1>2. /\ \A u \in Tasks \ {t} : call'[u] = call[u] /\ branch'[u] = branch[u]
      /\ UNCHANGED <<main, commits>> /\ origin' \in {origin, main}
      /\ AddWorktree(t) \/ branch'[t] \in {branch[t], Absent}
  BY DEF ReadRegistry, SaveRegistry, Start, AddWorktree, Finish, Validated, BeginRelease, TakeLock,
         Fetch, BeginSync, Advance, BeginDeploy, Deploy, Report, BeginCleanup, RemoveWorktree,
         DeleteBranch, Refused, LockFails, Fails, Crash, End, Go, Begin, Record, upstream, trees,
         FlowInv, Shared
<1>3. AddWorktree(t) => branch'[t] <= main[1][t]
  <2>1. origin[1][t] <= main[1][t]
    BY DEF Ordered, UpTo
  <2>. QED BY <2>1 DEF AddWorktree, FlowInv, Shared
<1>. QED BY <1>1, <1>2, <1>3, PlainOrdered

\* What a release is about to push is new in main.
LEMMA ReleaseOrdered ==
  ASSUME FlowInv, FlowInv', Ordered, NEW t \in Tasks, Check(t) \/ Merge(t) \/ Target(t)
  PROVE  Ordered'
<1>. USE DEF FlowInv, Shared, Snapshots, Commits
<1>1. InOrder(t) /\ InPlace(t) /\ call[t] \in CallType /\ UpTo(origin, main)
  BY DEF Ordered
<1>2. /\ \A u \in Tasks \ {t} : call'[u] = call[u]
      /\ UNCHANGED <<main, commits, branch>> /\ origin' \in {origin, main}
  BY DEF Check, Merge, Target, upstream, trees
<1>3. InOrder(t)'
  <2>1. CASE Check(t)
    <3>1. /\ call[t].op = "release" /\ call[t].at = "check" /\ branch[t] = call[t].commit
          /\ call[t].commit # Absent
          /\ \/ call'[t].at = "target"
             \/ /\ call'[t].at = "merge" /\ call'[t].base = origin
                /\ call'[t].commit = call[t].commit /\ ~Has(origin, t, call[t].commit)
      BY <1>1, <2>1 DEF Check, At, PassedFinish, CallType, InPlace
    <3>. QED BY <1>1, <1>2, <3>1 DEF InOrder, Has
  <2>2. CASE Merge(t)
    <3>1. /\ call[t].at = "merge" /\ call'[t].at = "push" /\ call'[t].base = call[t].base
          /\ call'[t].commit = branch[t] /\ branch[t] # Absent /\ call[t].commit # Absent
          /\ call[t].base \in Snapshots
      BY <1>1, <2>2 DEF Merge, At, CallType, InPlace
    <3>2. call[t].commit \in Commits /\ branch[t] \in Commits
      BY <1>1, <3>1 DEF CallType
    <3>. QED BY <1>1, <1>2, <3>1, <3>2 DEF InOrder
  <2>3. CASE Target(t)
    <3>1. call'[t].at = "advance" /\ call'[t].base = origin'
      BY <2>3 DEF Target, CallType
    <3>2. UpTo(origin', origin')
      BY DEF UpTo
    <3>. QED BY <1>1, <1>2, <3>1, <3>2 DEF InOrder
  <2>. QED BY <2>1, <2>2, <2>3
<1>. QED BY <1>2, <1>3, Tracking, OrderedFrame

\* The push: main gets a later commit of the task, and loses none of the others.
LEMMA PushGrows ==
  ASSUME FlowInv, Ordered, NEW t \in Tasks, call[t].at = "push", main = call[t].base,
         main' = Merged(t)
  PROVE  /\ main'[1][t] = call[t].commit /\ main[1][t] < call[t].commit
         /\ call[t].commit \in Commits /\ call[t].commit <= commits
         /\ \A u \in Tasks \ {t} : main'[1][u] = main[1][u]
<1>1. InOrder(t) /\ InPlace(t) /\ call[t] \in CallType
  BY DEF FlowInv, Ordered
<1>2. main'[1] = [main[1] EXCEPT ![t] = call[t].commit] /\ main[1] \in [Tasks -> Commits]
  BY DEF Merged, FlowInv, Shared, Snapshots, Commits
<1>. QED BY <1>1, <1>2 DEF InOrder, InPlace, CallType

LEMMA PushOrdered ==
  ASSUME FlowInv, FlowInv', Ordered, NEW t \in Tasks, Push(t) \/ ReleaseFails(t)
  PROVE  Ordered'
<1>. USE DEF FlowInv, Shared, Snapshots, Commits
<1>1. /\ \A u \in Tasks \ {t} : call'[u] = call[u]
      /\ UNCHANGED <<commits, branch>>
      /\ origin' \in {origin, main'} /\ call'[t].at \in {"read", "target"}
  <2>1. CASE Push(t)
    BY <2>1 DEF Push, Synchronise, trees, CallType
  <2>2. CASE ReleaseFails(t)
    BY <2>2, FailsCall DEF ReleaseFails, trees
  <2>. QED BY <2>1, <2>2
<1>2. CASE main' = main
  BY <1>1, <1>2, PlainOrdered
<1>3. CASE call[t].at = "push" /\ main = call[t].base /\ main' = Merged(t)
  <2>1. /\ main'[1][t] = call[t].commit /\ main[1][t] < call[t].commit
        /\ call[t].commit <= commits
        /\ \A u \in Tasks \ {t} : main'[1][u] = main[1][u]
    BY <1>3, PushGrows
  <2>2. UpTo(origin, main')
    <3>1. UpTo(origin, main)
      BY DEF Ordered
    <3>2. origin[1][t] \in Int /\ main[1][t] \in Int /\ call[t].commit \in Int
      BY <1>3, PushGrows DEF FlowInv, Shared, Snapshots, Commits
    <3>3. ASSUME NEW u \in Tasks PROVE origin[1][u] <= main'[1][u]
      BY <2>1, <3>1, <3>2 DEF UpTo
    <3>. QED BY <3>3 DEF UpTo
  <2>3. UpTo(origin', main') /\ UpTo(origin, origin')
    BY <1>1, <2>2 DEF UpTo
  <2>4. InOrder(t)'
    BY <1>1, <2>1 DEF InOrder, Ordered
  <2>. QED BY <1>1, <2>1, <2>3, <2>4, OrderedFrame
<1>. QED BY <1>2, <1>3 DEF Push, ReleaseFails, At

LEMMA PeopleOrdered ==
  ASSUME FlowInv, FlowInv', Ordered,
         Unlock \/ PushMain \/ \E t \in Tasks : Commit(t) \/ PushBranch(t)
  PROVE  Ordered'
<1>. USE DEF FlowInv, Shared, Snapshots, Commits
<1>1. CASE Unlock \/ \E t \in Tasks : PushBranch(t)
  BY <1>1 DEF Unlock, PushBranch, upstream, trees, Ordered, InOrder, UpTo
<1>2. CASE PushMain
  <2>1. main'[1] = main[1] /\ UNCHANGED <<origin, commits, branch, call>>
    BY <1>2 DEF PushMain, trees
  <2>. QED BY <2>1 DEF Ordered, InOrder, UpTo
<1>3. ASSUME NEW t \in Tasks, Commit(t) PROVE Ordered'
  <2>1. /\ commits' = commits + 1 /\ branch' = [branch EXCEPT ![t] = commits']
        /\ UNCHANGED <<main, origin, call>>
    BY <1>3 DEF Commit, upstream
  <2>2. branch'[t] = commits' /\ \A u \in Tasks \ {t} : branch'[u] = branch[u]
    BY <2>1
  <2>3. InOrder(t) /\ InPlace(t) /\ call[t] \in CallType
    BY DEF Ordered
  <2>4. call[t].at \in {"merge", "push"} => call[t].commit \in Commits
    BY <2>3 DEF InPlace, CallType
  <2>5. call[t].at = "merge" => branch[t] \in Commits
    BY <2>3 DEF InPlace
  <2>6. InOrder(t)'
    <3>1. main'[1][t] <= commits' /\ branch'[t] <= commits'
      BY <2>1, <2>2, <2>3 DEF InOrder
    <3>2. call'[t].at = "merge" => call'[t].base[1][t] < call'[t].commit
                                    /\ call'[t].commit <= branch'[t]
      BY <2>1, <2>2, <2>3, <2>4, <2>5, NamesAssumption DEF InOrder
    <3>3. call'[t].at = "push" => call'[t].base[1][t] < call'[t].commit
                                    /\ call'[t].commit <= commits'
      BY <2>1, <2>3, <2>4 DEF InOrder
    <3>4. call'[t].at = "advance" => UpTo(call'[t].base, origin')
      BY <2>1, <2>3 DEF InOrder
    <3>. QED BY <2>1, <3>1, <3>2, <3>3, <3>4 DEF InOrder, UpTo
  <2>7. UpTo(origin, origin') /\ UpTo(origin', main')
    BY <2>1 DEF Ordered, UpTo
  <2>. QED BY <2>1, <2>2, <2>6, <2>7, OrderedFrame
<1>. QED BY <1>1, <1>2, <1>3

LEMMA NextOrdered == ASSUME FlowInv, FlowInv', Ordered, [Next]_vars PROVE Ordered'
<1>1. ASSUME NEW t \in Tasks, Step(t) \/ LockFails(t) \/ Fails(t) \/ Crash(t) PROVE Ordered'
  BY <1>1, PlainSteps, ReleaseOrdered, PushOrdered DEF Step
<1>2. ASSUME UNCHANGED vars PROVE Ordered'
  BY <1>2 DEF vars, upstream, trees, Ordered, InOrder, UpTo
<1>. QED BY <1>1, <1>2, PeopleOrdered DEF Next

\* No step takes a commit of any task out of main or out of the canonical workspace.
Grows == UpTo(main, main') /\ UpTo(canonical, canonical')

LEMMA NextGrows == ASSUME FlowInv, Ordered, [Next]_vars PROVE Grows
<1>. USE DEF FlowInv, Shared, Snapshots, Commits
<1>1. UpTo(main, main) /\ UpTo(canonical, canonical)
  BY DEF UpTo
<1>2. ASSUME NEW t \in Tasks, Advance(t) PROVE Grows
  <2>1. main' = main /\ (canonical' = canonical \/ (Behind(canonical, call[t].base) /\ canonical' = origin))
    BY <1>2 DEF Advance
  <2>2. InOrder(t) /\ InPlace(t) /\ call[t].at = "advance"
    BY <1>2 DEF Ordered, Advance
  <2>3. CASE canonical' = canonical
    BY <1>1, <2>1, <2>3 DEF Grows
  <2>4. CASE Behind(canonical, call[t].base) /\ canonical' = origin
    <3>1. UpTo(call[t].base, origin) /\ call[t].base \in Snapshots
      BY <2>2 DEF InOrder, InPlace
    <3>2. UpTo(canonical, origin)
      BY <2>4, <3>1 DEF Behind, UpTo
    <3>. QED BY <1>1, <2>1, <2>4, <3>2 DEF Grows
  <2>. QED BY <2>1, <2>3, <2>4
<1>3. ASSUME NEW t \in Tasks, Push(t) \/ ReleaseFails(t) PROVE Grows
  <2>1. CASE UNCHANGED <<main, canonical>>
    BY <1>1, <2>1 DEF Grows
  <2>2. CASE call[t].at = "push" /\ main = call[t].base /\ main' = Merged(t) /\ UNCHANGED canonical
    <3>1. UpTo(main, main')
      BY <2>2, PushGrows DEF UpTo
    <3>. QED BY <1>1, <2>2, <3>1 DEF Grows
  <2>. QED BY <1>3, <2>1, <2>2 DEF Push, ReleaseFails, At
<1>4. CASE PushMain
  <2>1. main'[1] = main[1] /\ UNCHANGED canonical
    BY <1>4 DEF PushMain
  <2>. QED BY <1>1, <2>1 DEF Grows, UpTo
<1>5. CASE UNCHANGED <<main, canonical>>
  BY <1>1, <1>5 DEF Grows
<1>6. ASSUME NEW t \in Tasks,
             \/ Step(t) \/ LockFails(t) \/ Fails(t) \/ Crash(t) \/ Commit(t) \/ PushBranch(t)
      PROVE  Push(t) \/ ReleaseFails(t) \/ Advance(t) \/ UNCHANGED <<main, canonical>>
  BY <1>6 DEF Step, ReadRegistry, SaveRegistry, Start, AddWorktree, Finish, Validated, BeginRelease,
       TakeLock, Fetch, Check, Merge, BeginSync, Target, BeginDeploy, Deploy, Report, BeginCleanup,
       RemoveWorktree, DeleteBranch, Refused, LockFails, Fails, Crash, Commit, PushBranch, upstream
<1>. QED BY <1>2, <1>3, <1>4, <1>5, <1>6 DEF Next, Unlock, vars, upstream

\* Neither main nor the canonical workspace ever loses what it has of a task: the release
\* merges onto the main that it fetched, and the workspace only fast-forwards.
THEOREM NothingIsTakenBack == Spec => [][Grows]_vars
<1>1. Init => Ordered
  BY InitOrdered
<1>2. FlowInv /\ FlowInv' /\ Ordered /\ [Next]_vars => Ordered'
  BY NextOrdered
<1>3. FlowInv /\ Ordered /\ [Next]_vars => [Grows]_vars
  BY NextGrows
<1>. QED BY <1>1, <1>2, <1>3, CommandsInPlace, PTL DEF Spec
-----------------------------------------------------------------------------
(* What the registry says *)

LEMMA InitTruthInv == ASSUME Init PROVE TruthInv
BY DEF Init, TruthInv, EntryTrue, EntryKnown, NoCall

\* A step of t that saves over nothing leaves the entries of the others true.
LEMMA TruthFrame ==
  ASSUME FlowInv, Grows, TruthInv, NEW t \in Tasks, raced => raced',
         \A u \in Tasks \ {t} : /\ call'[u] = call[u] /\ (u \in worktree' <=> u \in worktree)
                                /\ ~raced' => registry'[u] = registry[u],
         orphans \subseteq orphans', ~raced' => EntryTrue(t)' /\ EntryKnown(t)',
         canonical' \in Snapshots, main' \in Snapshots
  PROVE  TruthInv'
<1>. SUFFICES ASSUME ~raced', NEW u \in Tasks \ {t} PROVE EntryTrue(u)' /\ EntryKnown(u)'
  BY DEF TruthInv
<1>1. /\ EntryTrue(u) /\ EntryKnown(u) /\ InPlace(u) /\ call[u] \in CallType
      /\ registry'[u] = registry[u] /\ call'[u] = call[u] /\ (u \in worktree' <=> u \in worktree)
  BY DEF TruthInv, FlowInv
<1>2. /\ {main[1][u], main'[1][u], canonical[1][u], canonical'[1][u]} \subseteq Commits
      /\ main[1][u] <= main'[1][u] /\ canonical[1][u] <= canonical'[1][u]
  BY DEF Grows, UpTo, FlowInv, Shared, Snapshots, Commits
<1>3. registry[u] # Absent /\ registry[u].status \in Released \cup {"ready"}
        => registry[u].commit \in Commits
  BY <1>1 DEF EntryKnown, FlowInv, Shared, Registries, Entries, Commits
<1>4. EntryTrue(u)'
  BY <1>1, <1>2, <1>3 DEF EntryTrue, Has, Released, Commits
<1>5. EntryKnown(u)'
  <2>1. call[u].op = "release" => registry[u].commit \in Commits
    BY <1>1, <1>3 DEF EntryKnown
  <2>2. call[u].op = "release" =>
          /\ call[u].at \in {"target", "advance"} => main'[1][u] >= registry[u].commit
          /\ call[u].at \in {"read", "save"} =>
               /\ call[u].status \in Released => main'[1][u] >= registry[u].commit
               /\ call[u].status = "canonical_synced" => canonical'[1][u] >= registry[u].commit
    BY <1>1, <1>2, <2>1 DEF EntryKnown, Commits
  <2>. QED BY <1>1, <2>2 DEF EntryKnown
<1>. QED BY <1>4, <1>5

\* The registry is as it was: an entry stays true, unless the worktree got its task back
\* without it.
LEMMA EntryStays ==
  ASSUME FlowInv, Grows, NEW t \in Tasks, EntryTrue(t), EntryKnown(t), registry' = registry,
         canonical' \in Snapshots, main' \in Snapshots,
         t \in worktree' \ orphans' /\ call'[t].op # "start"
           => t \in worktree \ orphans /\ call[t].op # "start"
  PROVE  EntryTrue(t)'
<1>1. /\ {main[1][t], main'[1][t], canonical[1][t], canonical'[1][t]} \subseteq Commits
      /\ main[1][t] <= main'[1][t] /\ canonical[1][t] <= canonical'[1][t]
  BY DEF Grows, UpTo, FlowInv, Shared, Snapshots, Commits
<1>2. registry[t] # Absent /\ registry[t].status \in Released => registry[t].commit \in Commits
  BY DEF EntryKnown, FlowInv, Shared, Registries, Entries, Commits
<1>. QED BY <1>1, <1>2 DEF EntryTrue, Has, Released, Commits

\* Nothing is claimed of an idle call but what its entry says of itself.
LEMMA EntryIdle ==
  ASSUME NEW t \in Tasks, EntryKnown(t), registry' = registry, call'[t].op \in {"sync", "start"},
         call'[t].at # "add"
  PROVE  EntryKnown(t)'
BY DEF EntryKnown

\* The commands that end without a save, and those that begin.
LEMMA EdgesTruth ==
  ASSUME FlowInv, FlowInv', Grows, TruthInv, NEW t \in Tasks,
         \/ (ReadRegistry(t) /\ registry[t] = Absent) \/ Refused(t) \/ Fails(t) \/ Crash(t)
         \/ LockFails(t) \/ Start(t) \/ Finish(t) \/ BeginRelease(t) \/ BeginSync(t)
         \/ BeginDeploy(t) \/ BeginCleanup(t)
  PROVE  TruthInv'
<1>. USE DEF FlowInv
<1>1. /\ UNCHANGED <<registry, raced, worktree>> /\ orphans \subseteq orphans'
      /\ \A u \in Tasks \ {t} : call'[u] = call[u]
  BY DEF ReadRegistry, Refused, Fails, Crash, LockFails, Start, Finish, BeginRelease, BeginSync,
         BeginDeploy, BeginCleanup, Begin, End, trees, history, Orphaned
<1>2. canonical' \in Snapshots /\ main' \in Snapshots
  BY DEF Shared
<1>3. ASSUME ~raced PROVE EntryTrue(t)' /\ EntryKnown(t)'
  <2>1. EntryTrue(t) /\ EntryKnown(t) /\ InPlace(t)
    BY <1>3 DEF TruthInv
  <2>2. CASE \/ (ReadRegistry(t) /\ registry[t] = Absent) \/ Refused(t) \/ Fails(t) \/ Crash(t)
             \/ LockFails(t)
    <3>1. call'[t] = NoCall
      BY <2>2 DEF ReadRegistry, Refused, Fails, Crash, LockFails, End
    <3>2. EntryKnown(t)'
      BY <1>1, <2>1, <3>1, EntryIdle DEF NoCall
    <3>3. call[t].op = "start" => t \notin worktree \/ t \in orphans'
      BY <2>1, <2>2 DEF EntryKnown, InPlace, ReadRegistry, Refused, Fails, Crash, LockFails,
                        Orphaned, At
    <3>4. EntryTrue(t)'
      BY <1>1, <1>2, <2>1, <3>3, EntryStays
    <3>. QED BY <3>2, <3>4
  <2>3. CASE \/ Start(t) \/ Finish(t) \/ BeginRelease(t) \/ BeginSync(t) \/ BeginDeploy(t)
             \/ BeginCleanup(t)
    <3>1. call[t].at = "idle"
      BY <2>3 DEF Start, Finish, BeginRelease, BeginSync, BeginDeploy, BeginCleanup, Begin
    <3>2. call[t].op # "start"
      BY <2>1, <3>1 DEF InPlace
    <3>3. EntryTrue(t)'
      BY <1>1, <1>2, <2>1, <3>2, EntryStays
    <3>4. EntryKnown(t)'
      <4>. USE DEF Begin, NoCall
      <4>1. CASE Start(t)
        BY <1>1, <2>1, <4>1 DEF Start, EntryKnown
      <4>2. CASE Finish(t)
        BY <1>1, <2>1, <4>2 DEF Finish, EntryKnown
      <4>3. CASE BeginRelease(t)
        BY <1>1, <2>1, <4>3 DEF BeginRelease, EntryKnown
      <4>4. CASE BeginSync(t)
        BY <1>1, <2>1, <4>4 DEF BeginSync, EntryKnown
      <4>5. CASE BeginDeploy(t)
        BY <1>1, <2>1, <4>5 DEF BeginDeploy, EntryKnown
      <4>6. CASE BeginCleanup(t)
        BY <1>1, <2>1, <4>6 DEF BeginCleanup, EntryKnown
      <4>. QED BY <2>3, <4>1, <4>2, <4>3, <4>4, <4>5, <4>6
    <3>. QED BY <3>3, <3>4
  <2>. QED BY <2>2, <2>3
<1>. QED BY <1>1, <1>2, <1>3, TruthFrame

\* A save that overwrites nothing: what it says of the task is what its command found.
LEMMA SaveTruth ==
  ASSUME FlowInv, FlowInv', Grows, TruthInv, NEW t \in Tasks, SaveRegistry(t) PROVE TruthInv'
<1>. USE DEF FlowInv
<1>1. /\ call[t].at = "save" /\ call' = [call EXCEPT ![t] = NoCall]
      /\ registry' = [call[t].data EXCEPT ![t] = Entry(t)]
      /\ raced' = (raced \/ registry # call[t].data)
      /\ UNCHANGED <<main, canonical, worktree, orphans>>
  BY DEF SaveRegistry, End, upstream, trees
<1>2. canonical \in Snapshots /\ main \in Snapshots /\ registry \in Registries
  BY DEF Shared
<1>3. ASSUME ~raced' PROVE EntryTrue(t)' /\ EntryKnown(t)'
  <2>1. ~raced /\ call[t].data = registry /\ registry'[t] = Entry(t)
    BY <1>1, <1>2, <1>3 DEF Registries
  <2>2. EntryTrue(t) /\ EntryKnown(t) /\ InPlace(t) /\ call[t] \in CallType
    BY <2>1 DEF TruthInv
  <2>3. call[t].op # "start" => registry[t] \in Entries /\ registry[t] # Absent
    BY <1>1, <1>2, <2>1, <2>2 DEF InPlace, Registries
  <2>4. Entry(t) # Absent
    <3>1. Entry(t) \in Entries
      <4>1. registry' \in Registries
        BY DEF Shared
      <4>2. CASE call[t].op = "start"
        BY <4>2 DEF Entry, NewEntry, Entries, Statuses
      <4>3. CASE call[t].op = "finish"
        BY <2>1, <2>2, <2>3, <4>3 DEF Entry, Entries, Statuses, CallType, Commits
      <4>4. CASE call[t].op = "deploy"
        BY <2>1, <2>2, <2>3, <4>4 DEF Entry, Entries, CallType, Commits
      <4>5. CASE call[t].op \notin {"start", "finish", "deploy"}
        BY <2>1, <2>2, <2>3, <4>5 DEF Entry, Entries, CallType
      <4>. QED BY <4>2, <4>3, <4>4, <4>5
    <3>. QED BY <3>1, EntriesAssumption
  <2>5. call'[t].op = "sync" /\ call'[t].at = "idle"
    BY <1>1 DEF NoCall
  <2>6. CASE call[t].op = "start"
    <3>1. registry'[t].status = "developing"
      BY <2>1, <2>6 DEF Entry, NewEntry
    <3>. QED BY <2>1, <2>4, <2>5, <3>1 DEF EntryTrue, EntryKnown, Released
  <2>7. CASE call[t].op = "finish"
    <3>1. registry'[t].status = "ready"
      BY <2>1, <2>3, <2>7 DEF Entry, Entries
    <3>. QED BY <2>1, <2>4, <2>5, <3>1 DEF EntryTrue, EntryKnown, Released
  <2>8. CASE call[t].op = "deploy"
    <3>1. /\ registry'[t].status = call[t].status /\ registry'[t].commit = registry[t].commit
          /\ registry'[t].deployed = call[t].deployed
      BY <2>1, <2>3, <2>8 DEF Entry, Entries
    <3>2. /\ call[t].status \in {"verified", "staging_deployed"}
          /\ call[t].status = "verified" => call[t].deployed >= registry[t].commit
          /\ registry[t].status \in Released
      BY <1>1, <2>2, <2>8 DEF EntryKnown
    <3>3. Has(main, t, registry[t].commit) /\ registry[t].commit # Absent
      BY <2>2, <2>3, <2>8, <3>2 DEF EntryTrue, EntryKnown
    <3>4. EntryTrue(t)'
      BY <1>1, <2>1, <2>4, <3>1, <3>2, <3>3 DEF EntryTrue, Has
    <3>5. EntryKnown(t)'
      BY <2>1, <2>5, <3>1, <3>3 DEF EntryKnown
    <3>. QED BY <3>4, <3>5
  <2>9. CASE call[t].op = "release"
    <3>1. registry'[t].status = call[t].status /\ registry'[t].commit = registry[t].commit
      BY <2>1, <2>3, <2>9 DEF Entry, Entries
    <3>2. /\ registry[t].status = "ready" /\ registry[t].commit # Absent
          /\ call[t].status \in {"release_failed", "canonical_synced", "master_pushed"}
          /\ call[t].status \in Released => main[1][t] >= registry[t].commit
          /\ call[t].status = "canonical_synced" => canonical[1][t] >= registry[t].commit
      BY <1>1, <1>2, <2>2, <2>3, <2>9 DEF EntryKnown, Registries
    <3>. QED BY <1>1, <2>1, <2>4, <2>5, <3>1, <3>2 DEF EntryTrue, EntryKnown, Released, Has
  <2>10. CASE call[t].op = "cleanup"
    <3>1. registry'[t].status = call[t].status
      BY <2>1, <2>3, <2>10 DEF Entry, Entries
    <3>2. call[t].status = "cleaned" /\ t \notin worktree
      BY <1>1, <2>2, <2>10 DEF EntryKnown
    <3>. QED BY <1>1, <2>4, <2>5, <3>1, <3>2 DEF EntryTrue, EntryKnown, Released
  <2>11. call[t].op # "sync"
    BY <1>1, <2>2 DEF InPlace
  <2>. QED BY <2>2, <2>6, <2>7, <2>8, <2>9, <2>10, <2>11 DEF CallType, Ops
<1>4. \A u \in Tasks \ {t} : call'[u] = call[u] /\ (~raced' => registry'[u] = registry[u])
  BY <1>1, <1>2 DEF Registries
<1>. QED BY <1>1, <1>2, <1>3, <1>4, TruthFrame

\* The steps inside a command.
LEMMA StepTruth ==
  ASSUME FlowInv, FlowInv', Ordered, Ordered', Grows, TruthInv, NEW t \in Tasks,
         \/ (ReadRegistry(t) /\ registry[t] # Absent) \/ AddWorktree(t) \/ Validated(t)
         \/ TakeLock(t) \/ Fetch(t) \/ Check(t) \/ Merge(t) \/ Push(t) \/ ReleaseFails(t)
         \/ Target(t) \/ Advance(t) \/ Deploy(t) \/ Report(t) \/ RemoveWorktree(t) \/ DeleteBranch(t)
  PROVE  TruthInv'
<1>. USE DEF FlowInv
<1>1. UNCHANGED <<registry, raced, orphans>> /\ \A u \in Tasks \ {t} : call'[u] = call[u]
  BY DEF ReadRegistry, AddWorktree, Validated, TakeLock, Fetch, Check, Merge, Push, ReleaseFails,
         Target, Advance, Deploy, Report, RemoveWorktree, DeleteBranch, Go, Record, Synchronise,
         history
<1>2. /\ canonical \in Snapshots /\ main \in Snapshots /\ origin \in Snapshots
      /\ canonical' \in Snapshots /\ main' \in Snapshots /\ origin' \in Snapshots
      /\ staging \in Snapshots /\ registry \in Registries
  BY DEF Shared
<1>3. AddWorktree(t) \/ worktree' = worktree \/ worktree' = worktree \ {t}
  BY DEF ReadRegistry, Validated, TakeLock, Fetch, Check, Merge, Push, ReleaseFails,
         Target, Advance, Deploy, Report, RemoveWorktree, DeleteBranch, trees
<1>4. ASSUME ~raced PROVE EntryTrue(t)' /\ EntryKnown(t)'
  <2>. DEFINE e == registry[t]
  <2>1. EntryTrue(t) /\ EntryKnown(t) /\ InPlace(t) /\ InOrder(t) /\ call[t] \in CallType
    BY <1>4 DEF TruthInv, Ordered
  <2>2. e # Absent /\ e.status \in Released \cup {"ready"} => e.commit \in Commits
    BY <1>2, <2>1 DEF EntryKnown, Registries, Entries, Commits
  <2>3. call'[t].op = call[t].op \/ (call'[t] = NoCall /\ call[t].op = "sync")
    <3>. USE DEF CallType
    <3>1. CASE \/ (ReadRegistry(t) /\ e # Absent) \/ AddWorktree(t) \/ TakeLock(t) \/ Fetch(t)
               \/ Check(t) \/ Merge(t) \/ Push(t) \/ Target(t) \/ Deploy(t) \/ RemoveWorktree(t)
      <4>1. CASE (ReadRegistry(t) /\ e # Absent) \/ Target(t) \/ Deploy(t) \/ Merge(t) \/ Push(t)
        BY <4>1 DEF ReadRegistry, Target, Deploy, Merge, Push, Synchronise
      <4>2. CASE AddWorktree(t) \/ TakeLock(t) \/ Fetch(t) \/ RemoveWorktree(t)
        BY <4>2 DEF AddWorktree, TakeLock, Fetch, RemoveWorktree, Go
      <4>3. CASE Check(t)
        BY <4>3 DEF Check
      <4>. QED BY <3>1, <4>1, <4>2, <4>3
    <3>2. CASE Validated(t)
      BY <3>2 DEF Validated, Record
    <3>3. CASE DeleteBranch(t)
      BY <3>3 DEF DeleteBranch, Record
    <3>4. CASE Advance(t) \/ Report(t) \/ ReleaseFails(t)
      BY <3>4, AdvanceCall, ReportCall, FailsCall
    <3>. QED BY <3>1, <3>2, <3>3, <3>4
  <2>4. EntryTrue(t)'
    <3>1. AddWorktree(t) => call'[t].op = "start"
      BY <2>3 DEF AddWorktree, At
    <3>. QED BY <1>1, <1>2, <1>3, <2>1, <2>3, <3>1, EntryStays
  <2>5. EntryKnown(t)'
    <3>. USE DEF At, Go, CallType
    <3>1. CASE ReadRegistry(t) /\ e # Absent
      <4>1. /\ call[t].at = "read" /\ call'[t].at = "save" /\ call'[t].op = call[t].op
            /\ call'[t].status = call[t].status /\ call'[t].deployed = call[t].deployed
            /\ UNCHANGED <<main, canonical, worktree>>
        BY <2>1, <3>1 DEF ReadRegistry, upstream, trees
      <4>. QED BY <1>1, <2>1, <4>1 DEF EntryKnown
    <3>2. CASE AddWorktree(t)
      <4>1. call'[t].at = "save" /\ call'[t].op = "start"
        BY <3>2 DEF AddWorktree
      <4>. QED BY <1>1, <2>1, <4>1, EntryIdle
    <3>3. CASE Validated(t)
      <4>1. call[t].op = "finish" /\ call'[t].op = "finish"
        BY <3>3 DEF Validated, Record
      <4>. QED BY <1>1, <2>1, <4>1 DEF EntryKnown
    <3>4. CASE TakeLock(t) \/ Fetch(t)
      <4>1. /\ call'[t].op = call[t].op /\ call'[t].commit = call[t].commit
            /\ call[t].at \in {"lock", "fetch"} /\ call'[t].at \in {"fetch", "expect", "check"}
        BY <2>1, <3>4 DEF TakeLock, Fetch
      <4>2. call[t].op = "release" => call'[t].at # "expect"
        BY <3>4 DEF TakeLock, Fetch
      <4>3. call[t].op \in {"release", "deploy"}
        BY <2>1, <4>1 DEF InPlace, Ops
      <4>. QED BY <1>1, <2>1, <4>1, <4>2, <4>3 DEF EntryKnown
    <3>5. CASE Check(t)
      <4>1. /\ call[t].op = "release" /\ call[t].at = "check" /\ call'[t].op = "release"
            /\ call[t].commit # Absent /\ main' = main
            /\ \/ call'[t].at = "target" /\ Has(origin, t, call[t].commit)
               \/ call'[t].at = "merge" /\ call'[t].commit = call[t].commit
        BY <2>1, <3>5 DEF Check, InPlace, upstream
      <4>2. /\ call[t].commit = e.commit /\ e.status = "ready" /\ e # Absent
            /\ e.commit \in Commits
        BY <2>1, <2>2, <4>1 DEF EntryKnown
      <4>3. origin[1][t] <= main[1][t] /\ origin[1][t] \in Commits /\ main[1][t] \in Commits
        BY <1>2 DEF Ordered, UpTo, Snapshots, Commits
      <4>4. call'[t].at = "target" => main[1][t] >= e.commit
        BY <4>1, <4>2, <4>3 DEF Has, Commits
      <4>. QED BY <1>1, <2>1, <4>1, <4>2, <4>4 DEF EntryKnown
    <3>6. CASE Merge(t)
      <4>1. /\ call[t].op = "release" /\ call[t].at = "merge" /\ call'[t].op = "release"
            /\ call'[t].at = "push" /\ call'[t].commit = branch[t]
        BY <2>1, <3>6 DEF Merge
      <4>2. call[t].commit = e.commit /\ e.status = "ready" /\ e # Absent
        BY <2>1, <4>1 DEF EntryKnown
      <4>3. call[t].commit <= branch[t] /\ call[t].commit \in Commits /\ branch[t] \in Commits
        BY <2>1, <4>1 DEF InOrder, InPlace, Shared
      <4>4. call'[t].commit >= e.commit
        BY <4>1, <4>2, <4>3 DEF Commits
      <4>. QED BY <1>1, <2>1, <4>1, <4>2, <4>4 DEF EntryKnown
    <3>7. CASE Push(t)
      <4>1. /\ call[t].op = "release" /\ call[t].at = "push" /\ call'[t].op = "release"
            /\ call'[t].at = "target" /\ main = call[t].base /\ main' = Merged(t)
        BY <2>1, <3>7 DEF Push, Synchronise
      <4>2. main'[1][t] = call[t].commit
        BY <4>1, PushGrows
      <4>. QED BY <1>1, <2>1, <4>1, <4>2 DEF EntryKnown
    <3>8. CASE ReleaseFails(t)
      BY <1>1, <2>1, <3>8, FailsCall DEF EntryKnown, Released
    <3>9. CASE Target(t)
      <4>1. /\ call[t].at = "target" /\ call'[t].at = "advance" /\ call'[t].op = call[t].op
            /\ call'[t].base = origin' /\ main' = main
            /\ call[t].op # "sync" => origin' = main
        BY <2>1, <3>9 DEF Target
      <4>2. call[t].op \in {"sync", "release"}
        BY <2>1, <4>1 DEF InPlace, Ops
      <4>. QED BY <1>1, <2>1, <4>1, <4>2 DEF EntryKnown
    <3>10. CASE Advance(t)
      <4>1. call[t].at = "advance" /\ main' = main
        BY <3>10 DEF Advance
      <4>2. CASE call[t].op = "sync"
        BY <1>1, <2>1, <3>10, <4>2, AdvanceCall, EntryIdle DEF NoCall
      <4>3. CASE call[t].op # "sync"
        <5>1. /\ call[t].op = "release" /\ call'[t].op = "release" /\ call'[t].at = "read"
              /\ call'[t].status \in {"canonical_synced", "master_pushed"}
              /\ call'[t].status = "canonical_synced" => canonical' = call[t].base
          BY <3>10, <4>3, AdvanceCall
        <5>. QED BY <1>1, <2>1, <4>1, <5>1 DEF EntryKnown
      <4>. QED BY <4>2, <4>3
    <3>11. CASE Deploy(t)
      <4>1. /\ call[t].op = "deploy" /\ call'[t].op = "deploy" /\ call'[t].at = "report"
            /\ call'[t].base = main
        BY <2>1, <3>11 DEF Deploy
      <4>. QED BY <1>1, <2>1, <4>1 DEF EntryKnown, EntryTrue, Has
    <3>12. CASE Report(t)
      BY <1>1, <2>1, <3>12, ReportCall DEF EntryKnown
    <3>13. CASE RemoveWorktree(t)
      <4>1. /\ call[t].op = "cleanup" /\ call'[t].op = "cleanup" /\ call'[t].at = "delete"
            /\ worktree' = worktree \ {t}
        BY <2>1, <3>13 DEF RemoveWorktree
      <4>. QED BY <1>1, <2>1, <4>1 DEF EntryKnown
    <3>14. CASE DeleteBranch(t)
      <4>1. /\ call[t].op = "cleanup" /\ call[t].at = "delete" /\ call'[t].op = "cleanup"
            /\ call'[t].at = "read" /\ call'[t].status = "cleaned" /\ worktree' = worktree
        BY <2>1, <3>14 DEF DeleteBranch, Record
      <4>. QED BY <1>1, <2>1, <4>1 DEF EntryKnown
    <3>. QED BY <3>1, <3>2, <3>3, <3>4, <3>5, <3>6, <3>7, <3>8, <3>9, <3>10, <3>11, <3>12, <3>13,
                <3>14
  <2>. QED BY <2>4, <2>5
<1>5. \A u \in Tasks \ {t} : u \in worktree' <=> u \in worktree
  BY <1>3 DEF AddWorktree
<1>. QED BY <1>1, <1>2, <1>4, <1>5, TruthFrame

LEMMA PeopleTruth ==
  ASSUME FlowInv, FlowInv', Grows, TruthInv,
         \/ Unlock \/ PushMain \/ UNCHANGED vars \/ \E t \in Tasks : Commit(t) \/ PushBranch(t)
  PROVE  TruthInv'
<1>1. UNCHANGED <<registry, call, worktree, orphans, raced>>
  BY DEF Unlock, PushMain, Commit, PushBranch, vars, trees, history
<1>2. CASE Tasks = {}
  BY <1>2 DEF TruthInv
<1>3. ASSUME NEW t \in Tasks PROVE TruthInv'
  <2>1. canonical' \in Snapshots /\ main' \in Snapshots
    BY DEF FlowInv, Shared
  <2>2. ASSUME ~raced PROVE EntryTrue(t)' /\ EntryKnown(t)'
    <3>1. EntryTrue(t) /\ EntryKnown(t)
      BY <2>2 DEF TruthInv
    <3>2. EntryTrue(t)'
      BY <1>1, <2>1, <3>1, EntryStays
    <3>3. /\ {main[1][t], main'[1][t], canonical[1][t], canonical'[1][t]} \subseteq Commits
          /\ main[1][t] <= main'[1][t] /\ canonical[1][t] <= canonical'[1][t]
      BY DEF Grows, UpTo, FlowInv, Shared, Snapshots, Commits
    <3>4. call[t].op = "release" => registry[t].commit \in Commits
      BY <3>1 DEF EntryKnown, FlowInv, Shared, Registries, Entries, Commits
    <3>5. EntryKnown(t)'
      <4>1. call[t].op = "release" =>
              /\ call[t].at \in {"target", "advance"} => main'[1][t] >= registry[t].commit
              /\ call[t].at \in {"read", "save"} =>
                   /\ call[t].status \in Released => main'[1][t] >= registry[t].commit
                   /\ call[t].status = "canonical_synced" => canonical'[1][t] >= registry[t].commit
        BY <3>1, <3>3, <3>4 DEF EntryKnown, Commits
      <4>. QED BY <1>1, <3>1, <4>1 DEF EntryKnown
    <3>. QED BY <3>2, <3>5
  <2>. QED BY <1>1, <2>1, <2>2, TruthFrame
<1>. QED BY <1>2, <1>3

LEMMA NextTruthInv ==
  ASSUME FlowInv, FlowInv', Ordered, Ordered', TruthInv, [Next]_vars PROVE TruthInv'
<1>1. Grows
  BY NextGrows
<1>2. ASSUME NEW t \in Tasks, Step(t) \/ LockFails(t) \/ Fails(t) \/ Crash(t) PROVE TruthInv'
  BY <1>1, <1>2, EdgesTruth, SaveTruth, StepTruth DEF Step
<1>. QED BY <1>1, <1>2, PeopleTruth DEF Next

\* As long as no save of the registry has overwritten another, every worktree has its entry
\* and every status is true (start, release, deploy_staging, cleanup).
THEOREM RegistryIsTrue == Spec => []RegistryTrue
<1>1. Init => Ordered /\ TruthInv
  BY InitOrdered, InitTruthInv
<1>2. FlowInv /\ FlowInv' /\ Ordered /\ TruthInv /\ [Next]_vars => Ordered' /\ TruthInv'
  BY NextOrdered, NextTruthInv
<1>3. TruthInv => RegistryTrue
  BY DEF TruthInv, EntryTrue, RegistryTrue
<1>. QED BY <1>1, <1>2, <1>3, CommandsInPlace, PTL DEF Spec
=============================================================================
