---------------------------- MODULE SkillPublish ----------------------------
(***************************************************************************)
(* The registry of managed UI skills (scripts/ui_skill_registry.py) and    *)
(* the transaction that puts a version of one skill into the directories   *)
(* of both agents (scripts/ui_skill_publisher.py), as the command line     *)
(* calls them (scripts/ui_design_cli.py): several processes publish, roll  *)
(* back and disable, retry with their keys, fail and die, while reviewers  *)
(* approve and reject drafts and somebody edits the directories by hand.   *)
(*                                                                         *)
(* A draft stands for its content and the digest of it; a directory holds  *)
(* nothing, the content of a draft, or a foreign content, a number.  Both  *)
(* locks are files created exclusively: a death leaves them behind.        *)
(***************************************************************************)
EXTENDS Integers

CONSTANTS
    Codex, Claude,      \* the two agents, in the order of a publication
    Drafts,             \* imported drafts of the skill
    Procs,              \* processes that run the command line
    Free, Dead,         \* a lock that nobody holds; one whose holder is dead
    Gone,               \* a directory that is not there
    Nothing,            \* no deployment, no result under a key
    NoDraft,            \* what a disabling puts in place
    MaxCalls,           \* bound on the calls started
    MaxEdits,           \* bound on the edits by hand
    MaxIncidents        \* bound on the failing steps and deaths together

ASSUME NamesAssumption ==
    /\ Codex # Claude /\ {Free, Dead} \cap Procs = {} /\ Gone \notin Drafts \cup Int
    /\ Drafts \cap Int = {} /\ Nothing \notin [{Codex, Claude} -> Drafts \cup {Gone}]
ASSUME BoundsAssumption == {MaxCalls, MaxEdits, MaxIncidents} \subseteq Nat

VARIABLES
    status,         \* the status of each draft
    onDisk,         \* drafts whose immutable package lies on the disk
    packages,       \* those the registry has as versions
    deployed,       \* the latest deployment recorded: the digests of its targets
    results,        \* the fingerprint of the request recorded under each key
    registryLock,   \* who holds registry.lock
    deployLock,     \* who holds deployments.lock
    targets,        \* what lies in the directory of each agent
    litter,         \* backups nobody will put back any more, of each agent
    tx,             \* the transaction of each process
    calls, edits, incidents,    \* counters for the bounds; an edit is numbered
    owed,           \* (history) what each agent should find: what the last recorded
                    \* deployment or an edit by hand put there
    torn,           \* (history) agents that a death or a failed restoration left undone
    meddled         \* (history) agents edited while a transaction had them in hand

reviews == <<status, onDisk, packages>>
records == <<deployed, results>>
locks == <<registryLock, deployLock>>
bounds == <<calls, edits, incidents>>
history == <<owed, torn, meddled>>
vars == <<reviews, records, locks, targets, litter, tx, bounds, history>>

Agents == {Codex, Claude}
Foreign == 1 .. MaxEdits
Contents == Drafts \cup Foreign \cup {Gone}
Keys == 1 .. MaxCalls
Ops == {"publish", "rollback", "disable"}

\* The places of a transaction; in the latter ones it holds deployments.lock.
Locked == {"check", "mark", "move", "install", "verify", "record", "audit", "clean", "recover", "failed"}
Places == {"idle", "lookup", "lock"} \cup Locked

Statuses == {"draft", "validated", "approved", "publishing", "publish_failed", "published", "rejected"}

Transitions ==
    [draft |-> {"validated", "rejected"}, validated |-> {"approved", "rejected", "draft"},
     approved |-> {"publishing", "rejected"},
     publishing |-> {"published", "publish_failed"}, publish_failed |-> {"publishing", "rejected"},
     published |-> {}, rejected |-> {}]

\* A slip: a draft may be rejected in the middle of its publication.
AllowedLoose(from, to) == to \in Transitions[from] \/ (from = "publishing" /\ to = "rejected")

Allowed(from, to) == to \in Transitions[from]

NoTx == [at |-> "idle", op |-> "disable", draft |-> NoDraft, key |-> 0, expected |-> Nothing,
         todo |-> {}, previous |-> [a \in Agents |-> Gone], backup |-> [a \in Agents |-> Gone],
         installed |-> {}, found |-> Nothing]

Init ==
    /\ status = [d \in Drafts |-> "validated"] /\ onDisk = {} /\ packages = {}
    /\ deployed = Nothing /\ results = [k \in Keys |-> Nothing]
    /\ registryLock = Free /\ deployLock = Free
    /\ targets = [a \in Agents |-> Gone] /\ litter = [a \in Agents |-> {}]
    /\ tx = [p \in Procs |-> NoTx]
    /\ calls = 0 /\ edits = 0 /\ incidents = 0
    /\ owed = targets /\ torn = {} /\ meddled = {}
-----------------------------------------------------------------------------
(* Drafts and their review *)

Review(d, new) ==
    /\ registryLock = Free /\ Allowed(status[d], new)
    /\ status' = [status EXCEPT ![d] = new]
    /\ UNCHANGED <<records, locks, targets, litter, tx, calls, edits, history>>

\* The package is copied before the registry names it; an approval that fails between the
\* two leaves a package no later approval of the draft accepts.
Approve(d) ==
    /\ d \notin onDisk /\ Review(d, "approved")
    /\ onDisk' = onDisk \cup {d} /\ packages' = packages \cup {d}
    /\ UNCHANGED incidents

ApproveFails(d) ==
    /\ incidents < MaxIncidents /\ registryLock = Free
    /\ d \notin onDisk /\ Allowed(status[d], "approved")
    /\ onDisk' = onDisk \cup {d} /\ incidents' = incidents + 1
    /\ UNCHANGED <<status, packages, records, locks, targets, litter, tx, calls, edits, history>>

\* A rejection, a request for a revision or an unfavourable validation, a favourable one.
Reject(d) == Review(d, "rejected") /\ UNCHANGED <<onDisk, packages, incidents>>
Revise(d) == Review(d, "draft") /\ UNCHANGED <<onDisk, packages, incidents>>
Validate(d) == Review(d, "validated") /\ UNCHANGED <<onDisk, packages, incidents>>
-----------------------------------------------------------------------------
(* A call of the command line, up to the lock *)

Go(p, place) == tx' = [tx EXCEPT ![p].at = place, ![p].todo = Agents]
Return(p) == tx' = [tx EXCEPT ![p] = NoTx]

Incident == incidents < MaxIncidents /\ incidents' = incidents + 1 /\ UNCHANGED <<calls, edits>>

\* A key is new or one of an earlier call; a publication expects the digests of the latest
\* deployment, whatever the status of its draft.
Begin(p, o, d, k) ==
    /\ tx[p].at = "idle" /\ calls < MaxCalls /\ k \in 1 .. calls + 1
    /\ IF o = "disable" THEN d = NoDraft ELSE d \in packages
    /\ o = "publish" \/ deployed # Nothing
    /\ tx' = [tx EXCEPT ![p] = [NoTx EXCEPT !.at = "lookup", !.op = o, !.draft = d, !.key = k,
                                            !.expected = deployed]]
    /\ calls' = calls + 1
    /\ UNCHANGED <<reviews, records, locks, targets, litter, edits, incidents, history>>

Fingerprint(t) == <<t.op, t.draft, t.expected>>
Fresh(t) == results[t.key] \in {Nothing, Fingerprint(t)}

\* The key is looked up before the lock is taken: an answer is the earlier result or a
\* conflict, and ends the call.
Lookup(p) ==
    /\ tx[p].at = "lookup" /\ results[tx[p].key] = Nothing
    /\ Go(p, "lock")
    /\ UNCHANGED <<reviews, records, locks, targets, litter, bounds, history>>

Answered(p) ==
    /\ tx[p].at = "lookup" /\ results[tx[p].key] # Nothing
    /\ Return(p)
    /\ UNCHANGED <<reviews, records, locks, targets, litter, bounds, history>>

\* A slip: a lock that looks stale is broken.
TakeLockBreaks(p) ==
    /\ tx[p].at = "lock"
    /\ deployLock' = p /\ Go(p, "check")
    /\ UNCHANGED <<reviews, records, registryLock, targets, litter, bounds, history>>

TakeLock(p) ==
    /\ tx[p].at = "lock" /\ deployLock = Free
    /\ deployLock' = p /\ Go(p, "check")
    /\ UNCHANGED <<reviews, records, registryLock, targets, litter, bounds, history>>

Timeout(p) ==
    /\ tx[p].at = "lock" /\ deployLock # Free
    /\ Return(p)
    /\ UNCHANGED <<reviews, records, locks, targets, litter, bounds, history>>
-----------------------------------------------------------------------------
(* Under deployments.lock: check, move aside, install, verify, record *)

First(t) == IF Codex \in t.todo THEN Codex ELSE Claude
Last(t) == IF Claude \in t.todo THEN Claude ELSE Codex

Expected(digests, a) == IF digests = Nothing THEN Gone ELSE digests[a]
Desired(t) == IF t.op = "disable" THEN Gone ELSE t.draft

InHand(t, a) == t.backup[a] # Gone \/ a \in t.installed

\* Agent a is done in this place: the next agent, or the next place with all of them.
After(t, a, same, next) ==
    IF t.todo = {a} THEN [t EXCEPT !.at = next, !.todo = Agents]
                    ELSE [t EXCEPT !.at = same, !.todo = @ \ {a}]
Raised(t) == [t EXCEPT !.at = "recover", !.todo = Agents]
Raise(p) == tx' = [tx EXCEPT ![p] = Raised(tx[p])]

Check(p) ==
    LET t == tx[p]
        a == First(t)
        seen == [t EXCEPT !.previous[a] = targets[a]]
    IN  /\ t.at = "check"
        /\ tx' = [tx EXCEPT ![p] =
                      IF targets[a] # Expected(t.expected, a) THEN Raised(seen)
                      ELSE After(seen, a, "check", IF t.op = "publish" THEN "mark" ELSE "move")]
        /\ UNCHANGED <<reviews, records, locks, targets, litter, bounds, history>>

Mark(p) ==
    LET t == tx[p]
        may == registryLock = Free /\ Allowed(status[t.draft], "publishing")
    IN  /\ t.at = "mark"
        /\ IF may THEN /\ status' = [status EXCEPT ![t.draft] = "publishing"] /\ Go(p, "move")
                  ELSE /\ Raise(p) /\ UNCHANGED status
        /\ UNCHANGED <<onDisk, packages, records, locks, targets, litter, bounds, history>>

\* The status is written and its audit fails.
MarkFails(p) ==
    /\ tx[p].at = "mark" /\ registryLock = Free /\ Allowed(status[tx[p].draft], "publishing")
    /\ status' = [status EXCEPT ![tx[p].draft] = "publishing"] /\ Raise(p) /\ Incident
    /\ UNCHANGED <<onDisk, packages, records, locks, targets, litter, history>>

\* A slip: what was moved aside is not compared with what was checked.
AsCheckedNot(t, a) == TRUE

AsChecked(t, a) == targets[a] = t.previous[a]

MoveAside(p) ==
    LET t == tx[p]
        a == First(t)
        aside == [t EXCEPT !.backup[a] = targets[a]]
        next == IF t.op = "disable" THEN After(aside, a, "move", "verify")
                                    ELSE [aside EXCEPT !.at = "install"]
    IN  /\ t.at = "move"
        /\ targets' = [targets EXCEPT ![a] = Gone]
        /\ tx' = [tx EXCEPT ![p] = IF targets[a] = Gone \/ AsChecked(t, a) THEN next ELSE Raised(aside)]
        /\ UNCHANGED <<reviews, records, locks, litter, bounds, history>>

\* The stage is renamed to the target, unless something lies there again.
Install(p) ==
    LET t == tx[p]
        a == First(t)
    IN  /\ t.at = "install"
        /\ IF targets[a] = Gone
             THEN /\ targets' = [targets EXCEPT ![a] = t.draft]
                  /\ tx' = [tx EXCEPT ![p] = After([t EXCEPT !.installed = @ \cup {a}], a, "move", "verify")]
             ELSE Raise(p) /\ UNCHANGED targets
        /\ UNCHANGED <<reviews, records, locks, litter, bounds, history>>

\* A slip: the backups are deleted as soon as the targets are in place.
VerifyCleans(p) ==
    /\ tx[p].at = "verify"
    /\ IF \A a \in Agents : targets[a] = Desired(tx[p])
         THEN tx' = [tx EXCEPT ![p].at = "record", ![p].backup = NoTx.backup]
         ELSE Raise(p)
    /\ UNCHANGED <<reviews, records, locks, targets, litter, bounds, history>>

Verify(p) ==
    /\ tx[p].at = "verify"
    /\ IF \A a \in Agents : targets[a] = Desired(tx[p]) THEN Go(p, "record") ELSE Raise(p)
    /\ UNCHANGED <<reviews, records, locks, targets, litter, bounds, history>>

\* A publication writes its status, deployment and result at once, then its audit, under
\* registry.lock; the others write deployment and result.
Record(p) ==
    LET t == tx[p]
        publish == t.op = "publish"
    IN  /\ t.at = "record"
        /\ IF registryLock = Free /\ Fresh(t) /\ (publish => status[t.draft] = "publishing")
             THEN /\ deployed' = [a \in Agents |-> Desired(t)]
                  /\ results' = [results EXCEPT ![t.key] = Fingerprint(t)]
                  /\ owed' = [a \in Agents |-> IF InHand(t, a) \/ targets[a] = Desired(t)
                                                  THEN Desired(t) ELSE owed[a]]
                  /\ status' = IF publish THEN [status EXCEPT ![t.draft] = "published"] ELSE status
                  /\ registryLock' = IF publish THEN p ELSE Free
                  /\ tx' = [tx EXCEPT ![p].at = IF publish THEN "audit" ELSE "clean", ![p].found = deployed]
             ELSE Raise(p) /\ UNCHANGED <<deployed, results, owed, status, registryLock>>
        /\ UNCHANGED <<onDisk, packages, deployLock, targets, litter, bounds, torn, meddled>>

Audit(p) ==
    /\ tx[p].at = "audit"
    /\ registryLock' = Free /\ Go(p, "clean")
    /\ UNCHANGED <<reviews, records, deployLock, targets, litter, bounds, history>>

\* The audit cannot be written: the registry as it was is written back, and the
\* publication fails.
AuditFails(p) ==
    LET t == tx[p]
    IN  /\ t.at = "audit" /\ Incident
        /\ deployed' = t.found /\ results' = [results EXCEPT ![t.key] = Nothing]
        /\ status' = [status EXCEPT ![t.draft] = "publishing"]
        /\ owed' = t.previous
        /\ registryLock' = Free /\ Raise(p)
        /\ UNCHANGED <<onDisk, packages, deployLock, targets, litter, torn, meddled>>

\* That write fails too: the registry keeps the deployment whose directories are put back.
RegistryStays(p) ==
    /\ tx[p].at = "audit" /\ incidents + 2 <= MaxIncidents /\ incidents' = incidents + 2
    /\ owed' = tx[p].previous /\ torn' = Agents
    /\ registryLock' = Free /\ Raise(p)
    /\ UNCHANGED <<reviews, records, deployLock, targets, litter, calls, edits, meddled>>

Clean(p) ==
    /\ tx[p].at = "clean"
    /\ deployLock' = Free /\ Return(p)
    /\ UNCHANGED <<reviews, records, registryLock, targets, litter, bounds, history>>

Leave(t) == litter' = [a \in Agents |-> litter[a] \cup ({t.backup[a]} \ {Gone})]

CleanFails(p) ==
    /\ tx[p].at = "clean" /\ Incident
    /\ Leave(tx[p]) /\ deployLock' = Free /\ Return(p)
    /\ UNCHANGED <<reviews, records, registryLock, targets, history>>

\* A step that fails with no effect: a digest, a copy, a rename or a write.
Fails(p) ==
    /\ tx[p].at \in {"check", "mark", "move", "install", "verify", "record"} /\ Incident
    /\ Raise(p)
    /\ UNCHANGED <<reviews, records, locks, targets, litter, history>>
-----------------------------------------------------------------------------
(* Recovery, in the opposite order *)

\* A slip: an agent whose old version is aside and whose new one is not in place is left.
RecoverInstalled(p) ==
    LET t == tx[p]
        a == Last(t)
    IN  /\ t.at = "recover"
        /\ targets' = IF a \in t.installed THEN [targets EXCEPT ![a] = t.backup[a]] ELSE targets
        /\ tx' = [tx EXCEPT ![p] = After([t EXCEPT !.backup[a] = Gone, !.installed = @ \ {a}],
                                         a, "recover", "failed")]
        /\ UNCHANGED <<reviews, records, locks, litter, bounds, history>>

\* What lies in a directory the transaction has in hand is deleted, whatever it is, and the
\* backup, if any, is put back.
Recover(p) ==
    LET t == tx[p]
        a == Last(t)
    IN  /\ t.at = "recover"
        /\ targets' = IF InHand(t, a) THEN [targets EXCEPT ![a] = t.backup[a]] ELSE targets
        /\ tx' = [tx EXCEPT ![p] = After([t EXCEPT !.backup[a] = Gone, !.installed = @ \ {a}],
                                         a, "recover", "failed")]
        /\ UNCHANGED <<reviews, records, locks, litter, bounds, history>>

\* The directory cannot be deleted, or the backup not put back: it stays where it is.
RecoverFails(p) ==
    LET t == tx[p]
        a == Last(t)
    IN  /\ t.at = "recover" /\ InHand(t, a) /\ Incident
        /\ \E left \in {targets[a], Gone} : targets' = [targets EXCEPT ![a] = left]
        /\ litter' = [litter EXCEPT ![a] = @ \cup ({t.backup[a]} \ {Gone})]
        /\ tx' = [tx EXCEPT ![p] = After([t EXCEPT !.backup[a] = Gone, !.installed = @ \ {a}],
                                         a, "recover", "failed")]
        /\ torn' = torn \cup {a}
        /\ UNCHANGED <<reviews, records, locks, owed, meddled>>

\* The draft of a publication is marked as failed, when its status allows it: a draft that
\* a death left in "publishing" is freed by the next attempt that fails.
Failed(p) ==
    LET t == tx[p]
    IN  /\ t.at = "failed"
        /\ status' = IF t.op = "publish" /\ registryLock = Free /\ Allowed(status[t.draft], "publish_failed")
                       THEN [status EXCEPT ![t.draft] = "publish_failed"] ELSE status
        /\ deployLock' = Free /\ Return(p)
        /\ UNCHANGED <<onDisk, packages, records, registryLock, targets, litter, bounds, history>>

\* The report of the failure cannot be written: nothing marks the draft.
FailedFails(p) ==
    /\ tx[p].at = "failed" /\ Incident
    /\ deployLock' = Free /\ Return(p)
    /\ UNCHANGED <<reviews, records, registryLock, targets, litter, history>>
-----------------------------------------------------------------------------
(* Deaths, and people *)

\* A death leaves the locks and the backups; what has been recorded is in place.
Crash(p) ==
    LET t == tx[p]
    IN  /\ t.at # "idle" /\ Incident
        /\ deployLock' = IF deployLock = p THEN Dead ELSE deployLock
        /\ \/ registryLock' = IF registryLock = p THEN Dead ELSE registryLock
           \/ t.at \in {"mark", "record", "failed"} /\ registryLock = Free /\ registryLock' = Dead
        /\ Leave(t)
        /\ torn' = IF t.at \in {"audit", "clean"} THEN torn ELSE torn \cup {a \in Agents : InHand(t, a)}
        /\ Return(p)
        /\ UNCHANGED <<reviews, records, targets, owed, meddled>>

\* Somebody removes the lock file that a LockTimeout names as stale.
Unlock ==
    /\ \/ deployLock = Dead /\ deployLock' = Free /\ UNCHANGED registryLock
       \/ registryLock = Dead /\ registryLock' = Free /\ UNCHANGED deployLock
    /\ UNCHANGED <<reviews, records, targets, litter, tx, bounds, history>>

\* Somebody puts a content of their own into a directory.  While a transaction has the
\* directory in hand, what it does with the edit is not promised.
Edit(a) ==
    LET n == edits + 1
        taken == \E p \in Procs : InHand(tx[p], a)
    IN  /\ edits < MaxEdits
        /\ edits' = n /\ targets' = [targets EXCEPT ![a] = n]
        /\ owed' = IF taken THEN owed ELSE [owed EXCEPT ![a] = n]
        /\ meddled' = IF taken THEN meddled \cup {a} ELSE meddled
        /\ UNCHANGED <<reviews, records, locks, litter, tx, calls, incidents, torn>>
-----------------------------------------------------------------------------
Step(p) ==
    \/ Lookup(p) \/ Answered(p) \/ TakeLock(p) \/ Timeout(p)
    \/ Check(p) \/ Mark(p) \/ MoveAside(p) \/ Install(p) \/ Verify(p) \/ Record(p) \/ Audit(p) \/ Clean(p)
    \/ Recover(p) \/ Failed(p)

Next ==
    \/ \E d \in Drafts : Approve(d) \/ ApproveFails(d) \/ Reject(d) \/ Revise(d) \/ Validate(d)
    \/ \E p \in Procs :
           \/ Step(p)
           \/ MarkFails(p) \/ AuditFails(p) \/ RegistryStays(p) \/ CleanFails(p) \/ Fails(p) \/ RecoverFails(p)
           \/ FailedFails(p) \/ Crash(p)
           \/ \E o \in Ops, d \in Drafts \cup {NoDraft}, k \in Keys : Begin(p, o, d, k)
    \/ Unlock
    \/ \E a \in Agents : Edit(a)

Spec == Init /\ [][Next]_vars
-----------------------------------------------------------------------------
(* Properties *)

\* The types, and deployments.lock held exactly by the one transaction that is past its
\* lock, dead holders aside (exclusive_lock, _run_transaction).
TypeOK ==
    /\ status \in [Drafts -> Statuses] /\ packages \subseteq onDisk /\ onDisk \subseteq Drafts
    /\ deployed \in [Agents -> Drafts \cup {Gone}] \cup {Nothing}
    /\ targets \in [Agents -> Contents] /\ litter \in [Agents -> SUBSET Contents]
    /\ \A p \in Procs :
          /\ tx[p].at \in Places /\ tx[p].op \in Ops /\ tx[p].draft \in Drafts \cup {NoDraft}
          /\ tx[p].backup \in [Agents -> Contents] /\ tx[p].previous \in [Agents -> Contents]
          /\ (deployLock = p) <=> tx[p].at \in Locked
          /\ (registryLock = p) <=> tx[p].at = "audit"

\* Whatever fails and whoever dies, between the two targets too: what an agent should find
\* is in its directory or in a backup (the order of the renames of _run_transaction, and of
\* the deletion of backups after the record).
NothingLost ==
    \A a \in Agents \ meddled :
        owed[a] \in {Gone, targets[a]} \cup litter[a] \cup {tx[p].backup[a] : p \in Procs}

\* When nobody publishes, both directories hold what should be there, the old versions
\* after a failure ("If either target fails, restore both prior snapshots"), and a
\* directory nobody edited holds what the registry records (_run_transaction,
\* complete_publication).
Settled ==
    deployLock = Free => \A a \in Agents \ (torn \cup meddled) :
        /\ targets[a] = owed[a]
        /\ owed[a] \in Foreign \cup {Expected(deployed, a)}

\* While a publication moves directories nobody rejects its draft or closes its status
\* (DRAFT_TRANSITIONS, reject_draft, _transition_if_registered).
PublishingHeld ==
    \A p \in Procs :
        tx[p].op = "publish" /\ tx[p].at \in {"move", "install", "verify", "record"}
            => status[tx[p].draft] = "publishing"

\* No deployment replaces an edit made by hand outside of it: the digest is compared before
\* anything moves, and again on the backup (_run_transaction).  After a death the edit may
\* lie in a backup, which nothing deletes.
EditsKept ==
    [][\A a \in Agents : owed[a] \in Foreign /\ owed'[a] # owed[a]
                            => edits' # edits \/ owed[a] \in litter'[a]]_vars
=============================================================================
