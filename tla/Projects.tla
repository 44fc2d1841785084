------------------------------ MODULE Projects ------------------------------
(***************************************************************************)
(* The registry of projects (scripts/memory_project.py) and the migration  *)
(* of their legacy hooks (scripts/vibe_memory_migration.py): register and  *)
(* use, init, unregister, migrate apply and upgrade-memory-hooks, run by   *)
(* several processes, with failing steps, deaths and another program that  *)
(* edits the hook documents.                                               *)
(*                                                                         *)
(* The registry lies under one flock and the files of a project under      *)
(* another; the kernel frees both when their holder dies.  A hook document *)
(* is missing, holds legacy entries or is clean of them, and has the       *)
(* number of the last edit in it; it is replaced by renames, so a step of  *)
(* this module is one rename, with the backup that precedes it.            *)
(***************************************************************************)
EXTENDS Integers

CONSTANTS
    Roots,          \* project directories
    Legacy,         \* those that hold legacy hooks at the start
    Agents,         \* the agents a project may have hook documents for
    Procs,          \* processes and request threads
    NoProc, NoRoot, \* no process, no project
    MaxCalls,       \* bound on the calls started
    MaxIncidents    \* bound on the failed steps, foreign edits and deaths together

ASSUME NamesAssumption == NoRoot \notin Roots /\ NoProc \notin Procs /\ Legacy \subseteq Roots
ASSUME BoundsAssumption == {MaxCalls, MaxIncidents} \subseteq Nat

VARIABLES
    projects, current,      \* the registry: the registered projects, the current one
    registryLock,           \* who holds the lock of the registry
    projectLock,            \* who holds the lock of each project
    docs, scripts,          \* hook documents and legacy scripts of each project
    op, root, at,           \* the call of each process, its project, where it is
    before,                 \* the registry as an unregistration found it
    snap,                   \* the hook files of the project as the call found them
    docsLeft, scriptsLeft,  \* what a migration has yet to look at and to move
    read,                   \* the document a migration or an upgrade has read, and whose
    wrote, moved,           \* the documents a migration has replaced, with their content,
                            \* and the agents whose scripts it has moved
    conflict,               \* a restoration found a file that is not its own
    edits, calls, incidents,    \* counters: foreign contents, and for the bounds
    released,               \* (history) projects whose unregistration succeeded
    created,                \* (history) documents that an upgrade has created
    blurred                 \* (history) an edit fell between a look and the write that
                            \* follows it, or a write took effect and failed, or a
                            \* restoration died

registry == <<projects, current, registryLock>>
files == <<docs, scripts>>
call == <<op, root, at, before, snap, docsLeft, scriptsLeft, read, wrote, moved, conflict>>
vars == <<registry, projectLock, files, call, edits, calls, incidents, released, created, blurred>>

Ops == {"register", "init", "unregister", "apply", "upgrade"}
Places == {"idle", "register", "look", "select", "lock", "prepare", "remove", "relock",
           "archive", "write", "restore", "undo", "scripts", "merge", "replace"}

FirstPlace(o) ==
    CASE o = "register" -> "register" [] o = "init" -> "look" [] o = "apply" -> "select"
      [] o = "unregister" -> "prepare" [] OTHER -> "scripts"

HookFiles(r) == [docs |-> docs[r], scripts |-> scripts[r]]
\* What a hook document is to a migration, and the number of the last edit in it.
Docs == [kind : {"missing", "legacy", "clean"}, edit : Nat]

NoRead == [kind |-> "missing", edit |-> 0]
NoFiles == [docs |-> [a \in Agents |-> NoRead],
            scripts |-> [a \in Agents |-> FALSE]]

Init ==
    /\ projects \in SUBSET Roots /\ current = NoRoot /\ registryLock = NoProc
    /\ projectLock = [r \in Roots |-> NoProc]
    /\ docs = [r \in Roots |-> [a \in Agents |->
                   [kind |-> IF r \in Legacy THEN "legacy" ELSE "missing", edit |-> 0]]]
    /\ scripts = [r \in Roots |-> [a \in Agents |-> r \in Legacy]]
    /\ op = [p \in Procs |-> "register"] /\ root = [p \in Procs |-> NoRoot]
    /\ at = [p \in Procs |-> "idle"]
    /\ before = [p \in Procs |-> [projects |-> {}, current |-> NoRoot]]
    /\ snap = [p \in Procs |-> NoFiles]
    /\ docsLeft = [p \in Procs |-> {}] /\ scriptsLeft = [p \in Procs |-> {}]
    /\ read = [p \in Procs |-> [agents |-> {}, doc |-> NoRead]]
    /\ wrote = [p \in Procs |-> {}] /\ moved = [p \in Procs |-> {}] /\ conflict = [p \in Procs |-> FALSE]
    /\ edits = 0 /\ calls = 0 /\ incidents = 0 /\ released = {} /\ created = {} /\ blurred = FALSE
-----------------------------------------------------------------------------
(* The registry *)

Go(p, place) == at' = [at EXCEPT ![p] = place]

Bounds == UNCHANGED <<edits, calls, incidents>>

Start(p, o, r) ==
    /\ at[p] = "idle" /\ calls < MaxCalls
    /\ op' = [op EXCEPT ![p] = o] /\ root' = [root EXCEPT ![p] = r]
    /\ Go(p, FirstPlace(o))
    /\ docsLeft' = [docsLeft EXCEPT ![p] = Agents]
    /\ scriptsLeft' = [scriptsLeft EXCEPT ![p] = IF o = "upgrade" THEN Agents ELSE {}]
    /\ wrote' = [wrote EXCEPT ![p] = {}] /\ moved' = [moved EXCEPT ![p] = {}]
    /\ read' = [read EXCEPT ![p].agents = {}]
    /\ conflict' = [conflict EXCEPT ![p] = FALSE]
    /\ calls' = calls + 1
    /\ UNCHANGED <<registry, projectLock, files, before, snap, edits, incidents, released, created, blurred>>

\* An initialised project is registered again only when it is registered already.
Look(p) ==
    /\ at[p] = "look" /\ registryLock = NoProc
    /\ Go(p, IF root[p] \in projects THEN "register" ELSE "idle")
    /\ UNCHANGED <<registry, projectLock, files, op, root, before, snap, docsLeft, scriptsLeft,
                   read, wrote, moved, conflict, released, created, blurred>> /\ Bounds

Register(p) ==
    /\ at[p] = "register" /\ registryLock = NoProc
    /\ projects' = projects \cup {root[p]} /\ current' = root[p]
    /\ released' = released \ {root[p]}
    /\ Go(p, "idle")
    /\ UNCHANGED <<registryLock, projectLock, files, op, root, before, snap, docsLeft,
                   scriptsLeft, read, wrote, moved, conflict, created, blurred>> /\ Bounds

\* A referenced script that is missing, or is not the manager's own, is refused.
Broken(r) == \E a \in Agents : docs[r][a].kind = "legacy" /\ ~scripts[r][a]

\* Unregister looks at the hook files first, under the lock of the project only.
Prepare(p) ==
    /\ at[p] = "prepare" /\ projectLock[root[p]] = NoProc
    /\ Go(p, IF Broken(root[p]) THEN "idle" ELSE "remove")
    /\ snap' = [snap EXCEPT ![p] = HookFiles(root[p])]
    /\ UNCHANGED <<registry, projectLock, files, op, root, before, docsLeft, scriptsLeft,
                   read, wrote, moved, conflict, released, created, blurred>> /\ Bounds

\* What the registry is without a project.
Without(reg, r) == [projects |-> reg.projects \ {r},
                    current |-> IF reg.current = r THEN NoRoot ELSE reg.current]

Registry == [projects |-> projects, current |-> current]

\* A slip: the lock of the registry is not kept during the cleanup.
RemoveUnlocked(p) ==
    /\ at[p] = "remove" /\ registryLock = NoProc
    /\ IF root[p] \in projects
       THEN /\ before' = [before EXCEPT ![p] = Registry]
            /\ projects' = Without(Registry, root[p]).projects
            /\ current' = Without(Registry, root[p]).current
            /\ Go(p, "relock")
       ELSE UNCHANGED <<projects, current, before>> /\ Go(p, "idle")
    /\ UNCHANGED <<registryLock, projectLock, files, op, root, snap, docsLeft, scriptsLeft, read,
                   wrote, moved, conflict, released, created, blurred>> /\ Bounds

\* The registry is written and stays locked until the hooks are cleaned up.
Remove(p) ==
    /\ at[p] = "remove" /\ registryLock = NoProc
    /\ IF root[p] \in projects
       THEN /\ registryLock' = p /\ before' = [before EXCEPT ![p] = Registry]
            /\ projects' = Without(Registry, root[p]).projects
            /\ current' = Without(Registry, root[p]).current
            /\ Go(p, "relock")
       ELSE UNCHANGED <<registry, before>> /\ Go(p, "idle")
    /\ UNCHANGED <<projectLock, files, op, root, snap, docsLeft, scriptsLeft, read, wrote, moved,
                   conflict, released, created, blurred>> /\ Bounds

\* The cleanup failed: the registry is written back as it was.
Undo(p) ==
    /\ at[p] = "undo"
    /\ projects' = before[p].projects /\ current' = before[p].current
    /\ registryLock' = NoProc
    /\ Go(p, "idle")
    /\ UNCHANGED <<projectLock, files, op, root, before, snap, docsLeft, scriptsLeft, read,
                   wrote, moved, conflict, released, created, blurred>> /\ Bounds
-----------------------------------------------------------------------------
(* The migration of the legacy hooks of one project *)

\* The old registry cannot be written either.
UndoFails(p) ==
    /\ at[p] = "undo" /\ incidents < MaxIncidents
    /\ incidents' = incidents + 1
    /\ registryLock' = NoProc
    /\ Go(p, "idle")
    /\ UNCHANGED <<projects, current, projectLock, files, op, root, before, snap, docsLeft,
                   scriptsLeft, read, wrote, moved, conflict, edits, calls, released, created, blurred>>

\* Only registered projects are migrated; the registry is read without its lock.
Select(p) ==
    /\ at[p] = "select"
    /\ Go(p, IF root[p] \in projects THEN "lock" ELSE "idle")
    /\ UNCHANGED <<registry, projectLock, files, op, root, before, snap, docsLeft, scriptsLeft,
                   read, wrote, moved, conflict, released, created, blurred>> /\ Bounds

TakeProject(p) == projectLock' = [projectLock EXCEPT ![root[p]] = p]

ApplyLocks(p) ==
    /\ at[p] = "lock" /\ projectLock[root[p]] = NoProc
    /\ IF Broken(root[p]) THEN UNCHANGED <<projectLock, snap>> /\ Go(p, "idle")
       ELSE /\ TakeProject(p) /\ snap' = [snap EXCEPT ![p] = HookFiles(root[p])]
            /\ Go(p, "archive")
    /\ UNCHANGED <<registry, files, op, root, before, docsLeft, scriptsLeft, read, wrote, moved,
                   conflict, released, created, blurred>> /\ Bounds

\* A slip: the files are not compared with the snapshot.
LocksUncompared(p) ==
    /\ at[p] = "relock" /\ projectLock[root[p]] = NoProc
    /\ TakeProject(p) /\ Go(p, "archive")
    /\ UNCHANGED <<registry, files, op, root, before, snap, docsLeft, scriptsLeft, read,
                   wrote, moved, conflict, released, created, blurred>> /\ Bounds

\* An unregistration goes on only if the files are still what it prepared for.
UnregisterLocks(p) ==
    /\ at[p] = "relock" /\ projectLock[root[p]] = NoProc
    /\ IF HookFiles(root[p]) = snap[p] THEN TakeProject(p) /\ Go(p, "archive")
       ELSE UNCHANGED projectLock /\ Go(p, "undo")
    /\ UNCHANGED <<registry, files, op, root, before, snap, docsLeft, scriptsLeft, read,
                   wrote, moved, conflict, released, created, blurred>> /\ Bounds

\* A slip: the migration stops at the first document.
ReadDocSkips(p, a) ==
    /\ at[p] = "archive" /\ a \in docsLeft[p]
    /\ docsLeft' = [docsLeft EXCEPT ![p] = {}]
    /\ IF docs[root[p]][a].kind = "legacy"
       THEN /\ read' = [read EXCEPT ![p] = [agents |-> {a}, doc |-> docs[root[p]][a]]]
            /\ Go(p, "write")
       ELSE UNCHANGED <<read, at>>
    /\ UNCHANGED <<registry, projectLock, files, op, root, before, snap, scriptsLeft, wrote, moved,
                   conflict, released, created, blurred>> /\ Bounds

\* A document without legacy entries is left alone.
ReadDoc(p, a) ==
    /\ at[p] = "archive" /\ a \in docsLeft[p]
    /\ docsLeft' = [docsLeft EXCEPT ![p] = @ \ {a}]
    /\ IF docs[root[p]][a].kind = "legacy"
       THEN /\ read' = [read EXCEPT ![p] = [agents |-> {a}, doc |-> docs[root[p]][a]]]
            /\ Go(p, "write")
       ELSE UNCHANGED <<read, at>>
    /\ UNCHANGED <<registry, projectLock, files, op, root, before, snap, scriptsLeft, wrote, moved,
                   conflict, released, created, blurred>> /\ Bounds

Cleaned(doc) == [doc EXCEPT !.kind = "clean"]

WriteDoc(p) ==
    /\ at[p] = "write"
    /\ \E a \in read[p].agents :
           /\ docs' = [docs EXCEPT ![root[p]][a] = Cleaned(read[p].doc)]
           /\ wrote' = [wrote EXCEPT ![p] = @ \cup {<<a, Cleaned(read[p].doc)>>}]
           /\ scriptsLeft' = [scriptsLeft EXCEPT ![p] = @ \cup {a}]
    /\ read' = [read EXCEPT ![p].agents = {}]
    /\ Go(p, "archive")
    /\ UNCHANGED <<registry, projectLock, scripts, op, root, before, snap, docsLeft, moved,
                   conflict, released, created, blurred>> /\ Bounds

\* A slip: a script is moved before its document is looked at.
MoveAnyScript(p, a) ==
    /\ at[p] = "archive" /\ a \in docsLeft[p]
    /\ scripts' = [scripts EXCEPT ![root[p]][a] = FALSE]
    /\ moved' = [moved EXCEPT ![p] = @ \cup {a}]
    /\ UNCHANGED <<registry, projectLock, docs, op, root, at, before, snap, docsLeft, scriptsLeft,
                   read, wrote, conflict, released, created, blurred>> /\ Bounds

\* The scripts become backups when all documents are clean.
MoveScript(p, a) ==
    /\ at[p] = "archive" /\ docsLeft[p] = {} /\ a \in scriptsLeft[p]
    /\ scripts' = [scripts EXCEPT ![root[p]][a] = FALSE]
    /\ moved' = [moved EXCEPT ![p] = @ \cup {a}]
    /\ scriptsLeft' = [scriptsLeft EXCEPT ![p] = @ \ {a}]
    /\ UNCHANGED <<registry, projectLock, docs, op, root, at, before, snap, docsLeft, read, wrote,
                   conflict, released, created, blurred>> /\ Bounds

FreeProject(p) ==
    projectLock' = [r \in Roots |-> IF projectLock[r] = p THEN NoProc ELSE projectLock[r]]
FreeRegistry(p) == registryLock' = IF registryLock = p THEN NoProc ELSE registryLock

Archived(p) ==
    /\ at[p] = "archive" /\ docsLeft[p] = {} /\ scriptsLeft[p] = {}
    /\ FreeProject(p) /\ FreeRegistry(p) /\ Go(p, "idle")
    /\ released' = IF op[p] = "unregister" THEN released \cup {root[p]} ELSE released
    /\ UNCHANGED <<projects, current, files, op, root, before, snap, docsLeft, scriptsLeft,
                   read, wrote, moved, conflict, created, blurred>> /\ Bounds

\* A step of the migration fails; a write may have taken effect, and is not remembered.
Fail(p) ==
    /\ at[p] \in {"archive", "write"} /\ incidents < MaxIncidents
    /\ incidents' = incidents + 1
    /\ Go(p, "restore")
    /\ \/ UNCHANGED <<docs, blurred>>
       \/ /\ at[p] = "write" /\ blurred' = TRUE
          /\ \E a \in read[p].agents : docs' = [docs EXCEPT ![root[p]][a] = Cleaned(read[p].doc)]
    /\ UNCHANGED <<registry, projectLock, scripts, op, root, before, snap, docsLeft,
                   scriptsLeft, read, wrote, moved, conflict, edits, calls, released, created>>

\* A document that is still what this migration wrote gets its old content; another one
\* is left and reported.
RestoreDoc(p) ==
    /\ at[p] = "restore"
    /\ \E w \in wrote[p] :
           /\ IF docs[root[p]][w[1]] = w[2]
              THEN docs' = [docs EXCEPT ![root[p]][w[1]] = snap[p].docs[w[1]]] /\ UNCHANGED conflict
              ELSE conflict' = [conflict EXCEPT ![p] = TRUE] /\ UNCHANGED docs
           /\ wrote' = [wrote EXCEPT ![p] = @ \ {w}]
    /\ UNCHANGED <<registry, projectLock, scripts, op, root, at, before, snap, docsLeft,
                   scriptsLeft, read, moved, released, created, blurred>> /\ Bounds

\* The same for a script, which is still missing if nobody else has written one.
RestoreScript(p) ==
    /\ at[p] = "restore"
    /\ \E a \in moved[p] :
           /\ IF ~scripts[root[p]][a]
              THEN scripts' = [scripts EXCEPT ![root[p]][a] = TRUE] /\ UNCHANGED conflict
              ELSE conflict' = [conflict EXCEPT ![p] = TRUE] /\ UNCHANGED scripts
           /\ moved' = [moved EXCEPT ![p] = @ \ {a}]
    /\ UNCHANGED <<registry, projectLock, docs, op, root, at, before, snap, docsLeft,
                   scriptsLeft, read, wrote, released, created, blurred>> /\ Bounds

\* The restoration is over; an unregistration still has the registry to put back.
Restored(p) ==
    /\ at[p] = "restore" /\ wrote[p] = {} /\ moved[p] = {}
    /\ FreeProject(p)
    /\ Go(p, IF op[p] = "unregister" THEN "undo" ELSE "idle")
    /\ UNCHANGED <<registry, files, op, root, before, snap, docsLeft, scriptsLeft, read, wrote,
                   moved, conflict, released, created, blurred>> /\ Bounds

\* A write of the restoration fails: what is left stays as it is, and is reported.
FailAgain(p) ==
    /\ at[p] = "restore" /\ incidents < MaxIncidents
    /\ incidents' = incidents + 1
    /\ FreeProject(p) /\ conflict' = [conflict EXCEPT ![p] = TRUE]
    /\ Go(p, IF op[p] = "unregister" THEN "undo" ELSE "idle")
    /\ blurred' = TRUE
    /\ UNCHANGED <<registry, files, op, root, before, snap, docsLeft, scriptsLeft, read, wrote,
                   moved, edits, calls, released, created>>
-----------------------------------------------------------------------------
(* The upgrade of the memory hooks, without a lock *)

\* It writes the scripts anew, then merges the entry of the design gate into the documents.
UpgradeScript(p, a) ==
    /\ at[p] = "scripts" /\ a \in scriptsLeft[p]
    /\ scripts' = [scripts EXCEPT ![root[p]][a] = TRUE]
    /\ scriptsLeft' = [scriptsLeft EXCEPT ![p] = @ \ {a}]
    /\ Go(p, IF scriptsLeft[p] = {a} THEN "merge" ELSE "scripts")
    /\ UNCHANGED <<registry, projectLock, docs, op, root, before, snap, docsLeft, read, wrote,
                   moved, conflict, released, created, blurred>> /\ Bounds

\* A document that holds the entry already is not written.
UpgradeReads(p, a) ==
    /\ at[p] = "merge" /\ a \in docsLeft[p]
    /\ docsLeft' = [docsLeft EXCEPT ![p] = @ \ {a}]
    /\ read' = [read EXCEPT ![p] = [agents |-> {a}, doc |-> docs[root[p]][a]]]
    /\ Go(p, "replace") \/ (docs[root[p]][a].kind # "missing" /\ Go(p, "merge"))
    /\ UNCHANGED <<registry, projectLock, files, op, root, before, snap, scriptsLeft, wrote,
                   moved, conflict, released, created, blurred>> /\ Bounds

\* Somebody is between its look at a document and its write, or has yet to look again.
Watched(r, a, by) ==
    \E p \in Procs \ {by} : root[p] = r /\
        \/ at[p] \in {"archive", "write"} /\ (a \in docsLeft[p] \/ a \in read[p].agents)
        \/ at[p] = "replace" /\ a \in read[p].agents

\* The document with the entry of the design gate; a new one gets the legacy entries too.
Gated(doc) == [kind |-> IF doc.kind = "missing" THEN "legacy" ELSE doc.kind, edit |-> edits + 1]

UpgradeWrites(p) ==
    /\ at[p] = "replace"
    /\ \E a \in read[p].agents :
           /\ docs' = [docs EXCEPT ![root[p]][a] = Gated(read[p].doc)]
           /\ created' = IF read[p].doc.kind = "missing" THEN created \cup {<<root[p], a>>} ELSE created
           /\ blurred' = (blurred \/ docs[root[p]][a] # read[p].doc \/ Watched(root[p], a, p))
    /\ edits' = edits + 1
    /\ read' = [read EXCEPT ![p].agents = {}]
    /\ Go(p, "merge")
    /\ UNCHANGED <<registry, projectLock, scripts, op, root, before, snap, docsLeft,
                   scriptsLeft, wrote, moved, conflict, calls, incidents, released>>

Upgraded(p) ==
    /\ at[p] = "merge" /\ docsLeft[p] = {} /\ Go(p, "idle")
    /\ UNCHANGED <<registry, projectLock, files, op, root, before, snap, docsLeft, scriptsLeft,
                   read, wrote, moved, conflict, released, created, blurred>> /\ Bounds

-----------------------------------------------------------------------------
(* Deaths, and the other program *)

\* A process dies: the kernel frees its locks.  What it was restoring stays half restored.
Crash(p) ==
    /\ at[p] # "idle" /\ incidents < MaxIncidents
    /\ incidents' = incidents + 1
    /\ FreeProject(p) /\ FreeRegistry(p) /\ Go(p, "idle")
    /\ blurred' = (blurred \/ at[p] = "restore")
    /\ UNCHANGED <<projects, current, files, op, root, before, snap, docsLeft, scriptsLeft, read,
                   wrote, moved, conflict, edits, calls, released, created>>

\* A user or an agent saves a hook document.
Edit(r, a) ==
    /\ incidents < MaxIncidents /\ incidents' = incidents + 1
    /\ docs' = [docs EXCEPT ![r][a] = [kind |-> IF @.kind = "missing" THEN "clean" ELSE @.kind,
                                          edit |-> edits + 1]] /\ edits' = edits + 1
    /\ blurred' = (blurred \/ Watched(r, a, NoProc))
    /\ UNCHANGED <<registry, projectLock, scripts, call, calls, released, created>>
-----------------------------------------------------------------------------
RegistryStep(p) == Look(p) \/ Register(p) \/ Prepare(p) \/ Remove(p) \/ Undo(p)

MigrationStep(p) ==
    \/ Select(p) \/ ApplyLocks(p) \/ UnregisterLocks(p)
    \/ \E a \in Agents : ReadDoc(p, a) \/ MoveScript(p, a)
    \/ WriteDoc(p) \/ Archived(p) \/ RestoreDoc(p) \/ RestoreScript(p) \/ Restored(p)

UpgradeStep(p) ==
    \/ \E a \in Agents : UpgradeScript(p, a) \/ UpgradeReads(p, a)
    \/ UpgradeWrites(p) \/ Upgraded(p)

Step(p) == RegistryStep(p) \/ MigrationStep(p) \/ UpgradeStep(p)

Next ==
    \/ \E p \in Procs :
           \/ Step(p) \/ Fail(p) \/ FailAgain(p) \/ UndoFails(p) \/ Crash(p)
           \/ \E o \in Ops, r \in Roots : Start(p, o, r)
    \/ \E r \in Legacy, a \in Agents : Edit(r, a)

Spec == Init /\ [][Next]_vars
-----------------------------------------------------------------------------
(* Properties *)

\* The type of the registry, whose current project is a registered one (the inventory,
\* inspect_projects, reports any other), of the documents and of the locks, and a lock held
\* exactly where the code is between taking and releasing it (_registry_lock, _project_lock).
TypeOK ==
    /\ projects \subseteq Roots /\ current \in projects \cup {NoRoot}
    /\ op \in [Procs -> Ops] /\ at \in [Procs -> Places]
    /\ docs \in [Roots -> [Agents -> Docs]]
    /\ wrote \in [Procs -> SUBSET (Agents \X Docs)]
    /\ released \subseteq Roots /\ created \subseteq Roots \X Agents
    /\ \A p \in Procs : (registryLock = p) <=>
           at[p] \in {"relock", "undo"} \/ (op[p] = "unregister" /\ at[p] \in {"archive", "write", "restore"})
    /\ \A p \in Procs, r \in Roots : (projectLock[r] = p) <=>
           root[p] = r /\ at[p] \in {"archive", "write", "restore"}

\* A project leaves the registry only by its own unregistration: an unregistration that
\* fails and writes the old registry back drops nobody else's (unregister_project).
RegistrationsKept ==
    [][\A r \in projects \ projects' :
           \E p \in Procs : op[p] = "unregister" /\ root[p] = r /\ at[p] = "remove"]_vars

\* A project that has been unregistered, and not registered since, has no legacy hooks
\* left, but those an upgrade has put into a new document (unregister_project,
\* execute_legacy_hook_cleanup).
ReleasedClean ==
    ~blurred => \A r \in released, a \in Agents :
                    docs[r][a].kind = "legacy" => <<r, a>> \in created

\* No document refers to a legacy script that is gone, outside the locks: a hook that
\* cannot run fails at every event, and no migration accepts it any more
\* (_archive_project_legacy_hooks and _restore_legacy_snapshot, in their order).
EntriesHaveScript ==
    blurred \/ \A r \in Roots : projectLock[r] = NoProc => ~Broken(r)

\* A migration that failed without a conflict leaves every script and every document that
\* nobody else has edited as it found them, and no migration goes back on an edit, as long
\* as no edit fell between a look at a document and the write that followed it, and no write
\* failed after it had taken effect (blurred; _restore_legacy_snapshot).
FailureRestores ==
    [][/\ \A p \in Procs : at[p] = "restore" /\ at'[p] # "restore" /\ ~conflict'[p] /\ ~blurred'
                             => \A a \in Agents :
                                    /\ snap[p].scripts[a] => scripts[root[p]][a]
                                    /\ docs[root[p]][a].edit = snap[p].docs[a].edit
                                           => docs[root[p]][a] = snap[p].docs[a]
       /\ \A r \in Roots, a \in Agents : blurred \/ docs'[r][a].edit >= docs[r][a].edit]_vars
=============================================================================
