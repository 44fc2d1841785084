---------------------------- MODULE WorktreeFlow ----------------------------
(***************************************************************************)
(* Worktrees of several conversations on one repository, and the release   *)
(* of their branches to the remote main (scripts/worktree_flow.py).  One   *)
(* task is one conversation, one worktree and one branch                   *)
(* (docs/worktree_loop_workflow.md), so a task runs one command at a time; *)
(* the commands of different tasks run beside each other and share the     *)
(* task registry, the remote main and its tracking ref, the canonical      *)
(* workspace, staging and two locks made with mkdir.                       *)
(*                                                                         *)
(* Commits are numbered in the order in which they are made, 0 is the      *)
(* first base; a branch, and the main for each task, stands for the last   *)
(* commit of the task that it contains.                                    *)
(***************************************************************************)
EXTENDS Integers

CONSTANTS
    Tasks,          \* tasks of the repository, each with its conversation
    Free, Dead,     \* a lock directory that is not there; one whose maker died
    Absent,         \* no entry, no branch, no commit
    MaxCalls,       \* bound on the commands given
    MaxCommits,     \* bound on the commits made in the worktrees
    MaxIncidents    \* bound on deaths, failing steps and pushes of others together

ASSUME NamesAssumption == {Free, Dead} \cap Tasks = {} /\ Absent \notin Int
ASSUME BoundsAssumption == {MaxCalls, MaxCommits, MaxIncidents} \subseteq Nat

VARIABLES
    registry,       \* tasks.json: the entry of each task
    main,           \* the remote main
    origin,         \* its tracking ref in the canonical repository
    canonical,      \* the main branch of the canonical workspace
    staging,        \* what is deployed there
    releaseLock, stagingLock,
    worktree,       \* tasks with a worktree
    branch,         \* the local branch of each task
    pushed,         \* the remote feature branch of each task
    call,           \* the command each task runs
    commits,        \* the number of commits made
    calls, incidents,   \* counters for the bounds
    accepted,       \* (history) commits that passed finish
    moved,          \* (history) tasks that got a commit between the check and the merge
                    \* of their release
    orphans,        \* (history) tasks whose start ended before its entry was saved
    raced           \* (history) a registry was saved over one that had changed

upstream == <<main, origin, canonical, staging>>
locks == <<releaseLock, stagingLock>>
trees == <<worktree, branch, pushed, commits>>
history == <<accepted, moved, orphans, raced>>
bounds == <<calls, incidents>>
vars == <<registry, upstream, locks, trees, call, bounds, history>>

Snapshots == [Tasks -> 0 .. MaxCommits] \X (0 .. MaxIncidents)
Has(snapshot, t, commit) == snapshot[1][t] >= commit

Released == {"canonical_synced", "master_pushed", "staging_deployed", "verified"}
Statuses == {"developing", "ready", "release_failed", "cleaned"} \cup Released

Ops == {"start", "finish", "release", "sync", "deploy", "cleanup"}
Locked == {"fetch", "check", "merge", "push", "expect", "report"}
Places == {"idle", "add", "validate", "lock", "target", "advance", "remove", "delete", "read", "save"} \cup Locked

NoCall == [op |-> "sync", at |-> "idle", commit |-> Absent, base |-> Absent, status |-> "developing",
           deployed |-> Absent, data |-> Absent]

Entries == [status : Statuses, commit : 0 .. MaxCommits \cup {Absent},
            deployed : 0 .. MaxCommits \cup {Absent}]
ASSUME EntriesAssumption == Absent \notin Entries

NewEntry == [status |-> "developing", commit |-> Absent, deployed |-> Absent]

Root == <<[t \in Tasks |-> 0], 0>>

Init ==
    /\ registry = [t \in Tasks |-> Absent]
    /\ main = Root /\ origin = Root /\ canonical = Root /\ staging = Root
    /\ releaseLock = Free /\ stagingLock = Free
    /\ worktree = {} /\ branch = [t \in Tasks |-> Absent] /\ pushed = [t \in Tasks |-> Absent]
    /\ commits = 0
    /\ call = [t \in Tasks |-> NoCall] /\ calls = 0 /\ incidents = 0
    /\ accepted = [t \in Tasks |-> {}] /\ moved = {} /\ orphans = {} /\ raced = FALSE
-----------------------------------------------------------------------------
(* Steps of every command *)

At(t, op, place) == call[t].op = op /\ call[t].at = place
Go(t, place) == call' = [call EXCEPT ![t].at = place]
Begin(t, new) ==
    /\ call[t].at = "idle" /\ call' = [call EXCEPT ![t] = new]
    /\ calls < MaxCalls /\ calls' = calls + 1 /\ UNCHANGED incidents

\* The end of a command, on every path: its lock is removed.
Release(lock, t) == IF lock = t THEN Free ELSE lock
End(t) ==
    /\ call' = [call EXCEPT ![t] = NoCall]
    /\ releaseLock' = Release(releaseLock, t) /\ stagingLock' = Release(stagingLock, t)

\* What a command records about its task at its end.
Record(t, new) == call' = [call EXCEPT ![t] = [new EXCEPT !.at = "read", !.base = Absent]]

Incident == incidents < MaxIncidents /\ incidents' = incidents + 1 /\ UNCHANGED calls

\* The registry is read again; a task that is not in it is a KeyError.
ReadRegistry(t) ==
    /\ call[t].at = "read"
    /\ IF registry[t] = Absent THEN End(t)
       ELSE call' = [call EXCEPT ![t].at = "save", ![t].data = registry] /\ UNCHANGED locks
    /\ UNCHANGED <<registry, upstream, trees, bounds, history>>

Entry(t) ==
    LET c == call[t]
    IN  CASE c.op = "start" -> NewEntry
          [] c.op = "finish" -> [c.data[t] EXCEPT !.commit = c.commit, !.status = "ready"]
          [] c.op = "deploy" -> [c.data[t] EXCEPT !.status = c.status, !.deployed = c.deployed]
          [] OTHER -> [c.data[t] EXCEPT !.status = c.status]

\* Nothing keeps two commands from saving what each has read.
SaveRegistry(t) ==
    /\ call[t].at = "save"
    /\ registry' = [call[t].data EXCEPT ![t] = Entry(t)]
    /\ raced' = (raced \/ registry # call[t].data)
    /\ End(t)
    /\ UNCHANGED <<upstream, trees, bounds, accepted, moved, orphans>>
-----------------------------------------------------------------------------
(* start and finish *)

Start(t) ==
    /\ registry[t] # Absent => registry[t].status = "cleaned"
    /\ t \notin worktree
    /\ Begin(t, [NoCall EXCEPT !.op = "start", !.at = "add", !.data = registry])
    /\ origin' = main
    /\ UNCHANGED <<registry, main, canonical, staging, locks, trees, history>>

\* The branch starts at the tracking ref.
AddWorktree(t) ==
    /\ At(t, "start", "add")
    /\ worktree' = worktree \cup {t}
    /\ branch' = [branch EXCEPT ![t] = origin[1][t]] /\ pushed' = [pushed EXCEPT ![t] = Absent]
    /\ Go(t, "save")
    /\ UNCHANGED <<registry, upstream, locks, commits, bounds, history>>

\* The worktree is clean and its branch pushed.
Finish(t) ==
    /\ registry[t] # Absent /\ t \in worktree /\ branch[t] = pushed[t]
    /\ Begin(t, [NoCall EXCEPT !.op = "finish", !.at = "validate", !.commit = branch[t]])
    /\ UNCHANGED <<registry, upstream, locks, trees, history>>

\* The validation has to leave the commit and its upstream as they were.
Validated(t) ==
    /\ At(t, "finish", "validate") /\ branch[t] = call[t].commit /\ pushed[t] = call[t].commit
    /\ Record(t, call[t])
    /\ accepted' = [accepted EXCEPT ![t] = @ \cup {call[t].commit}]
    /\ UNCHANGED <<registry, upstream, locks, trees, bounds, moved, orphans, raced>>
-----------------------------------------------------------------------------
(* release, and the synchronisation at its end or by itself *)

\* The entry is read before the lock is taken.
BeginRelease(t) ==
    /\ registry[t] # Absent /\ registry[t].status = "ready"
    /\ Begin(t, [NoCall EXCEPT !.op = "release", !.at = "lock", !.commit = registry[t].commit])
    /\ UNCHANGED <<registry, upstream, locks, trees, history>>

\* A slip: mkdir accepts a directory that is there (exist_ok).
TakeAnyLock(t) ==
    /\ call[t].at = "lock"
    /\ IF call[t].op = "release"
         THEN releaseLock' = t /\ Go(t, "fetch") /\ UNCHANGED stagingLock
         ELSE stagingLock' = t /\ Go(t, "expect") /\ UNCHANGED releaseLock
    /\ UNCHANGED <<registry, upstream, trees, bounds, history>>

\* Nobody waits for a lock that is held: the command ends (Refused).
TakeLock(t) ==
    /\ call[t].at = "lock"
    /\ IF call[t].op = "release"
         THEN releaseLock = Free /\ releaseLock' = t /\ Go(t, "fetch") /\ UNCHANGED stagingLock
         ELSE stagingLock = Free /\ stagingLock' = t /\ Go(t, "expect") /\ UNCHANGED releaseLock
    /\ UNCHANGED <<registry, upstream, trees, bounds, history>>

\* owner.json cannot be written: the directory stays.
LockFails(t) ==
    /\ call[t].at = "lock" /\ Incident
    /\ IF call[t].op = "release"
         THEN releaseLock = Free /\ releaseLock' = Dead /\ UNCHANGED stagingLock
         ELSE stagingLock = Free /\ stagingLock' = Dead /\ UNCHANGED releaseLock
    /\ call' = [call EXCEPT ![t] = NoCall]
    /\ UNCHANGED <<registry, upstream, trees, history>>

Fetch(t) ==
    /\ At(t, "release", "fetch")
    /\ origin' = main /\ Go(t, "check")
    /\ UNCHANGED <<registry, main, canonical, staging, locks, trees, bounds, history>>

\* A slip: the branch is taken as it is.
Unmoved(t, commit) == TRUE

\* The local and the remote branch are the commit that passed finish.
PassedFinish(t, commit) == branch[t] = commit /\ pushed[t] = commit

\* What main already contains is not merged again.
Check(t) ==
    LET c == call[t]
    IN  /\ At(t, "release", "check") /\ PassedFinish(t, c.commit)
        /\ call' = [call EXCEPT ![t] = IF Has(origin, t, c.commit) THEN [c EXCEPT !.at = "target", !.commit = Absent]
                                       ELSE [c EXCEPT !.at = "merge", !.base = origin]]
        /\ UNCHANGED <<registry, upstream, locks, trees, bounds, history>>

\* The branch is merged by its name.
Merge(t) ==
    /\ At(t, "release", "merge")
    /\ call' = [call EXCEPT ![t].at = "push", ![t].commit = branch[t]]
    /\ UNCHANGED <<registry, upstream, locks, trees, bounds, history>>

Merged(t) == <<[call[t].base[1] EXCEPT ![t] = call[t].commit], call[t].base[2]>>

Synchronise(t) == call' = [call EXCEPT ![t].at = "target", ![t].base = Absent, ![t].commit = Absent]

Push(t) ==
    /\ At(t, "release", "push") /\ main = call[t].base
    /\ main' = Merged(t) /\ origin' = main' /\ Synchronise(t)
    /\ UNCHANGED <<registry, canonical, staging, locks, trees, bounds, history>>

\* A slip: a failing merge, test or push is not looked at.
IgnoresFailure(t) ==
    /\ call[t].at \in {"merge", "push"}
    /\ Synchronise(t)
    /\ \/ call[t].at = "push" /\ main # call[t].base /\ UNCHANGED <<main, bounds>>
       \/ Incident /\ UNCHANGED main
    /\ UNCHANGED <<registry, origin, canonical, staging, locks, trees, history>>

\* A conflict, a failing test, a push that is refused or, after it took effect, reported as
\* failed: the task is recorded as failed, and its release worktree stays.
ReleaseFails(t) ==
    /\ call[t].at \in {"merge", "push"}
    /\ Record(t, [call[t] EXCEPT !.status = "release_failed", !.commit = Absent])
    /\ \/ call[t].at = "push" /\ main # call[t].base /\ UNCHANGED <<main, bounds>>
       \/ Incident /\ UNCHANGED main
       \/ call[t].at = "push" /\ main = call[t].base /\ main' = Merged(t) /\ Incident
    /\ UNCHANGED <<registry, origin, canonical, staging, locks, trees, history>>

\* sync_canonical fetches and notes its target; alone it takes no lock, and need not fetch.
BeginSync(t) ==
    /\ Begin(t, [NoCall EXCEPT !.at = "target"])
    /\ UNCHANGED <<registry, upstream, locks, trees, history>>

Target(t) ==
    /\ call[t].at = "target"
    /\ origin' = main \/ (call[t].op = "sync" /\ UNCHANGED origin)
    /\ call' = [call EXCEPT ![t].at = "advance", ![t].base = origin']
    /\ UNCHANGED <<registry, main, canonical, staging, locks, trees, bounds, history>>

Behind(s, u) == s # u /\ s[2] <= u[2] /\ \A t \in Tasks : s[1][t] <= u[1][t]

\* A workspace that has the target is current; one that is behind gets the tracking ref as
\* it is by now; one on another branch, diverged or dirty where it matters is left alone.
Advance(t) ==
    LET c == call[t]
    IN  /\ c.at = "advance"
        /\ \E outcome \in {"canonical_synced", "master_pushed"} :
              /\ \/ outcome = "canonical_synced" /\ canonical = c.base /\ UNCHANGED canonical
                 \/ /\ Behind(canonical, c.base) /\ canonical' = origin
                    /\ outcome = "canonical_synced" <=> origin = c.base
                 \/ outcome = "master_pushed" /\ UNCHANGED canonical
              /\ IF c.op = "sync" THEN call' = [call EXCEPT ![t] = NoCall]
                                  ELSE Record(t, [c EXCEPT !.status = outcome])
        /\ UNCHANGED <<registry, main, origin, staging, locks, trees, bounds, history>>
-----------------------------------------------------------------------------
(* deploy-staging and cleanup *)

BeginDeploy(t) ==
    /\ registry[t] # Absent /\ registry[t].status \in Released
    /\ Begin(t, [NoCall EXCEPT !.op = "deploy", !.at = "lock"])
    /\ UNCHANGED <<registry, upstream, locks, trees, history>>

\* The commit of main is what should be deployed; the commands deploy from the workspace.
Deploy(t) ==
    /\ At(t, "deploy", "expect")
    /\ origin' = main /\ staging' = canonical
    /\ call' = [call EXCEPT ![t].at = "report", ![t].base = main]
    /\ UNCHANGED <<registry, main, canonical, locks, trees, bounds, history>>

\* Without a command that reports the deployed commit nothing is compared.
Report(t) ==
    LET c == call[t]
    IN  /\ At(t, "deploy", "report")
        /\ \/ /\ staging = c.base
              /\ Record(t, [c EXCEPT !.status = "verified", !.deployed = staging[1][t]])
           \/ Record(t, [c EXCEPT !.status = "staging_deployed"])
        /\ UNCHANGED <<registry, upstream, locks, trees, bounds, history>>

\* What is compared with main is the recorded commit, or without one the branch.
BeginCleanup(t) ==
    /\ registry[t] # Absent /\ t \in worktree
    /\ Has(main, t, IF registry[t].commit # Absent THEN registry[t].commit ELSE branch[t])
    /\ origin' = main
    /\ Begin(t, [NoCall EXCEPT !.op = "cleanup", !.at = "remove"])
    /\ UNCHANGED <<registry, main, canonical, staging, locks, trees, history>>

RemoveWorktree(t) ==
    /\ At(t, "cleanup", "remove")
    /\ worktree' = worktree \ {t} /\ Go(t, "delete")
    /\ UNCHANGED <<registry, upstream, locks, branch, pushed, commits, bounds, history>>

\* git branch -d, for what the remote branch, or without one the workspace, contains.
Deletable(t) == IF pushed[t] # Absent THEN branch[t] <= pushed[t] ELSE Has(canonical, t, branch[t])

DeleteBranch(t) ==
    /\ At(t, "cleanup", "delete") /\ Deletable(t)
    /\ branch' = [branch EXCEPT ![t] = Absent]
    /\ Record(t, [call[t] EXCEPT !.status = "cleaned"])
    /\ UNCHANGED <<registry, upstream, locks, worktree, pushed, commits, bounds, history>>
-----------------------------------------------------------------------------
(* Errors, deaths, and people *)

\* A step that fails or finds what it does not accept raises; the command ends.
Refused(t) ==
    /\ \/ call[t].at = "validate" /\ branch[t] # call[t].commit
       \/ call[t].at = "lock" /\ (IF call[t].op = "release" THEN releaseLock ELSE stagingLock) # Free
       \/ call[t].at = "check" /\ ~PassedFinish(t, call[t].commit)
       \/ call[t].at = "report" /\ staging # call[t].base
       \/ call[t].at = "delete" /\ ~Deletable(t)
    /\ End(t)
    /\ UNCHANGED <<registry, upstream, trees, bounds, history>>

Orphaned(t) == orphans' = IF At(t, "start", "save") THEN orphans \cup {t} ELSE orphans

Fails(t) ==
    /\ call[t].at \notin {"idle", "lock", "merge", "push"} /\ Incident
    /\ End(t) /\ Orphaned(t)
    /\ UNCHANGED <<registry, upstream, trees, accepted, moved, raced>>

\* A death leaves the lock directory.
Crash(t) ==
    /\ call[t].at # "idle" /\ Incident
    /\ releaseLock' = (IF releaseLock = t THEN Dead ELSE releaseLock)
    /\ stagingLock' = (IF stagingLock = t THEN Dead ELSE stagingLock)
    /\ call' = [call EXCEPT ![t] = NoCall] /\ Orphaned(t)
    /\ UNCHANGED <<registry, upstream, trees, accepted, moved, raced>>

\* Somebody removes the lock that a command names as held.
Unlock ==
    /\ \/ releaseLock = Dead /\ releaseLock' = Free /\ UNCHANGED stagingLock
       \/ stagingLock = Dead /\ stagingLock' = Free /\ UNCHANGED releaseLock
    /\ UNCHANGED <<registry, upstream, trees, call, bounds, history>>

\* The conversation commits in its worktree, at any time.
Commit(t) ==
    /\ t \in worktree /\ commits < MaxCommits
    /\ commits' = commits + 1 /\ branch' = [branch EXCEPT ![t] = commits']
    /\ moved' = IF At(t, "release", "merge") THEN moved \cup {t} ELSE moved
    /\ UNCHANGED <<registry, upstream, locks, worktree, pushed, call, bounds, accepted, orphans, raced>>

PushBranch(t) ==
    /\ t \in worktree /\ pushed[t] # branch[t]
    /\ pushed' = [pushed EXCEPT ![t] = branch[t]]
    /\ UNCHANGED <<registry, upstream, locks, worktree, branch, commits, call, bounds, history>>

\* Others push to main.
PushMain ==
    /\ Incident
    /\ main' = <<main[1], main[2] + 1>>
    /\ UNCHANGED <<registry, origin, canonical, staging, locks, trees, call, history>>
-----------------------------------------------------------------------------
Step(t) ==
    \/ ReadRegistry(t) \/ SaveRegistry(t)
    \/ Start(t) \/ AddWorktree(t) \/ Finish(t) \/ Validated(t)
    \/ BeginRelease(t) \/ TakeLock(t) \/ Fetch(t) \/ Check(t) \/ Merge(t) \/ Push(t) \/ ReleaseFails(t)
    \/ BeginSync(t) \/ Target(t) \/ Advance(t)
    \/ BeginDeploy(t) \/ Deploy(t) \/ Report(t)
    \/ BeginCleanup(t) \/ RemoveWorktree(t) \/ DeleteBranch(t)
    \/ Refused(t)

Next ==
    \/ \E t \in Tasks :
           Step(t) \/ LockFails(t) \/ Fails(t) \/ Crash(t) \/ Commit(t) \/ PushBranch(t)
    \/ Unlock
    \/ PushMain

Spec == Init /\ [][Next]_vars
-----------------------------------------------------------------------------
(* Properties *)

\* The types, and each lock held exactly by the one command that is between taking and
\* releasing it (repository_lock): releases run alone, and so do deployments.
TypeOK ==
    /\ \A t \in Tasks :
          /\ registry[t] # Absent =>
                registry[t].status \in Statuses /\ registry[t].commit \in 0 .. MaxCommits \cup {Absent}
          /\ call[t].op \in Ops /\ call[t].at \in Places
          /\ releaseLock = t <=> /\ call[t].op = "release" /\ call[t].at \notin {"idle", "lock"}
          /\ stagingLock = t <=> /\ call[t].op = "deploy" /\ call[t].at \notin {"idle", "lock"}
    /\ {main, origin, canonical, staging} \subseteq Snapshots

\* Main gets no commit of a task that did not pass finish, whatever the registry forgets
\* and whoever dies, except what is committed while its release is between its check of the
\* branch and its merge by name (release).
AcceptedOnly ==
    \A t \in Tasks : main[1][t] \in {0} \cup accepted[t] \/ t \in moved

\* As long as no save of the registry has overwritten another, every worktree has its entry,
\* and a status is true: what is released is in main, what is synchronised in the workspace,
\* what is verified in staging (start, release, deploy_staging, cleanup).
RegistryTrue ==
    ~raced =>
        \A t \in Tasks :
            /\ t \in worktree \ orphans /\ call[t].op # "start"
                   => registry[t] # Absent /\ registry[t].status # "cleaned"
            /\ registry[t] # Absent /\ registry[t].status \in Released
                   => Has(main, t, registry[t].commit)
            /\ registry[t] # Absent /\ registry[t].status = "canonical_synced"
                   => Has(canonical, t, registry[t].commit)
            /\ registry[t] # Absent /\ registry[t].status = "verified"
                   => registry[t].deployed >= registry[t].commit
=============================================================================
