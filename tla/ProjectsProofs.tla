--------------------------- MODULE ProjectsProofs ---------------------------
(***************************************************************************)
(* Proofs about Projects, for every set of projects, agents and processes. *)
(***************************************************************************)
EXTENDS Projects, TLAPS

\* Where the code of unregister_project is between taking the lock of the registry and
\* releasing it.
OwnsRegistry(p) ==
    \/ at[p] \in {"relock", "undo"}
    \/ op[p] = "unregister" /\ at[p] \in {"archive", "write", "restore"}
OwnsProject(p) == at[p] \in {"archive", "write", "restore"}

LocksTyped ==
    /\ registryLock \in Procs \cup {NoProc}
    /\ projectLock \in [Roots -> Procs \cup {NoProc}]
    /\ projects \subseteq Roots /\ current \in projects \cup {NoRoot}

\* The calls, and the places an unregistration and a migration alone reach.
CallsTyped ==
    /\ op \in [Procs -> Ops] /\ at \in [Procs -> Places]
    /\ root \in [Procs -> Roots \cup {NoRoot}]
    /\ \A p \in Procs :
           /\ at[p] # "idle" => root[p] \in Roots
           /\ at[p] \in {"select", "lock"} => op[p] = "apply"
           /\ at[p] \in {"prepare", "remove", "relock", "undo"} => op[p] = "unregister"

\* The locks are held by whoever is between their acquisition and their release.
LocksHeld ==
    \A p \in Procs :
        /\ (registryLock = p) <=> OwnsRegistry(p)
        /\ \A r \in Roots : (projectLock[r] = p) <=> root[p] = r /\ OwnsProject(p)

\* While an unregistration owns the registry, the registry is the one it found without
\* its project: what it would write back drops nobody else.
RegistryOwned ==
    /\ before \in [Procs -> [projects : SUBSET Roots, current : Roots \cup {NoRoot}]]
    /\ \A p \in Procs :
           /\ before[p].current \in before[p].projects \cup {NoRoot}
           /\ OwnsRegistry(p) => projects = before[p].projects \ {root[p]}

LockInv == LocksTyped /\ CallsTyped /\ LocksHeld /\ RegistryOwned

-----------------------------------------------------------------------------
(* LockInv is inductive *)

\* No process owns anything at the start.
LEMMA InitLockInv == Init => LockInv
<1> SUFFICES ASSUME Init PROVE LockInv
    OBVIOUS
<1> QED
    BY NamesAssumption DEF Init, LockInv, LocksTyped, CallsTyped, LocksHeld, RegistryOwned,
        OwnsRegistry, OwnsProject, Ops, Places

\* An initialisation looks whether its project is registered.
LEMMA LookKeeps ==
    ASSUME NEW p \in Procs, LockInv, Look(p)
    PROVE  LockInv'
BY NamesAssumption DEF Look, LockInv, LocksTyped, CallsTyped, LocksHeld, RegistryOwned,
    OwnsRegistry, OwnsProject, Places, Ops, registry, files, Go, Bounds

\* Nobody owns the registry while a project is registered.
LEMMA RegisterKeeps ==
    ASSUME NEW p \in Procs, LockInv, Register(p)
    PROVE  LockInv'
BY NamesAssumption DEF Register, LockInv, LocksTyped, CallsTyped, LocksHeld,
    RegistryOwned, OwnsRegistry, OwnsProject, Places, Ops, registry, files, Go, Bounds

\* A preparation leaves the registry alone.
LEMMA PrepareKeeps ==
    ASSUME NEW p \in Procs, LockInv, Prepare(p)
    PROVE  LockInv'
BY NamesAssumption DEF Prepare, LockInv, LocksTyped, CallsTyped, LocksHeld,
    RegistryOwned, OwnsRegistry, OwnsProject, Places, Ops, registry, files, Go, Bounds

\* An unregistration takes the registry and remembers it.
LEMMA RemoveKeeps ==
    ASSUME NEW p \in Procs, LockInv, Remove(p)
    PROVE  LockInv'
BY NamesAssumption DEF Remove, Without, Registry, LockInv, LocksTyped, CallsTyped,
    LocksHeld, RegistryOwned, OwnsRegistry, OwnsProject, Places, Ops, registry, files,
    Go, Bounds

\* An unregistration puts the registry back and releases it.
LEMMA UndoKeeps ==
    ASSUME NEW p \in Procs, LockInv, Undo(p)
    PROVE  LockInv'
BY NamesAssumption DEF Undo, LockInv, LocksTyped, CallsTyped, LocksHeld, RegistryOwned,
    OwnsRegistry, OwnsProject, Places, Ops, registry, files, Go, Bounds

\* It releases the registry also when it cannot put it back.
LEMMA UndoFailsKeeps ==
    ASSUME NEW p \in Procs, LockInv, UndoFails(p)
    PROVE  LockInv'
BY NamesAssumption DEF UndoFails, LockInv, LocksTyped, CallsTyped, LocksHeld,
    RegistryOwned, OwnsRegistry, OwnsProject, Places, Ops, registry, files, Go, Bounds

\* A migration is selected.
LEMMA SelectKeeps ==
    ASSUME NEW p \in Procs, LockInv, Select(p)
    PROVE  LockInv'
BY NamesAssumption DEF Select, LockInv, LocksTyped, CallsTyped, LocksHeld,
    RegistryOwned, OwnsRegistry, OwnsProject, Places, Ops, registry, files, Go, Bounds

\* A migration takes its project, or is refused.
LEMMA ApplyLocksKeeps ==
    ASSUME NEW p \in Procs, LockInv, ApplyLocks(p)
    PROVE  LockInv'
BY NamesAssumption DEF ApplyLocks, TakeProject, LockInv, LocksTyped, CallsTyped,
    LocksHeld, RegistryOwned, OwnsRegistry, OwnsProject, Places, Ops, registry, files,
    Go, Bounds

\* An unregistration takes its project too, or goes back.
LEMMA UnregisterLocksKeeps ==
    ASSUME NEW p \in Procs, LockInv, UnregisterLocks(p)
    PROVE  LockInv'
BY NamesAssumption DEF UnregisterLocks, TakeProject, LockInv, LocksTyped, CallsTyped,
    LocksHeld, RegistryOwned, OwnsRegistry, OwnsProject, Places, Ops, registry, files,
    Go, Bounds

\* A document is replaced: the locks are not concerned.
LEMMA WriteDocKeeps ==
    ASSUME NEW p \in Procs, LockInv, WriteDoc(p)
    PROVE  LockInv'
BY NamesAssumption DEF WriteDoc, LockInv, LocksTyped, CallsTyped, LocksHeld,
    RegistryOwned, OwnsRegistry, OwnsProject, Places, Ops, registry, files, Go, Bounds

\* A migration that succeeds releases what it holds.
LEMMA ArchivedKeeps ==
    ASSUME NEW p \in Procs, LockInv, Archived(p)
    PROVE  LockInv'
BY NamesAssumption DEF Archived, FreeProject, FreeRegistry, LockInv, LocksTyped,
    CallsTyped, LocksHeld, RegistryOwned, OwnsRegistry, OwnsProject, Places, Ops,
    registry, files, Go, Bounds

\* Putting a document back does not concern the locks.
LEMMA RestoreDocKeeps ==
    ASSUME NEW p \in Procs, LockInv, RestoreDoc(p)
    PROVE  LockInv'
BY NamesAssumption DEF RestoreDoc, LockInv, LocksTyped, CallsTyped, LocksHeld,
    RegistryOwned, OwnsRegistry, OwnsProject, Places, Ops, registry, files, Go, Bounds

\* Putting a script back does not concern them.
LEMMA RestoreScriptKeeps ==
    ASSUME NEW p \in Procs, LockInv, RestoreScript(p)
    PROVE  LockInv'
BY NamesAssumption DEF RestoreScript, LockInv, LocksTyped, CallsTyped, LocksHeld,
    RegistryOwned, OwnsRegistry, OwnsProject, Places, Ops, registry, files, Go, Bounds

\* The project is released, the registry is kept for the last write.
LEMMA RestoredKeeps ==
    ASSUME NEW p \in Procs, LockInv, Restored(p)
    PROVE  LockInv'
BY NamesAssumption DEF Restored, FreeProject, LockInv, LocksTyped, CallsTyped,
    LocksHeld, RegistryOwned, OwnsRegistry, OwnsProject, Places, Ops, registry, files,
    Go, Bounds

\* A failure keeps the locks for the restoration.
LEMMA FailKeeps ==
    ASSUME NEW p \in Procs, LockInv, Fail(p)
    PROVE  LockInv'
BY NamesAssumption DEF Fail, LockInv, LocksTyped, CallsTyped, LocksHeld, RegistryOwned,
    OwnsRegistry, OwnsProject, Places, Ops, registry, files, Go, Bounds

\* A failed restoration still releases the project.
LEMMA FailAgainKeeps ==
    ASSUME NEW p \in Procs, LockInv, FailAgain(p)
    PROVE  LockInv'
BY NamesAssumption DEF FailAgain, FreeProject, LockInv, LocksTyped, CallsTyped,
    LocksHeld, RegistryOwned, OwnsRegistry, OwnsProject, Places, Ops, registry, files,
    Go, Bounds

\* An upgrade takes no lock.
LEMMA UpgradeWritesKeeps ==
    ASSUME NEW p \in Procs, LockInv, UpgradeWrites(p)
    PROVE  LockInv'
BY NamesAssumption DEF UpgradeWrites, LockInv, LocksTyped, CallsTyped, LocksHeld,
    RegistryOwned, OwnsRegistry, OwnsProject, Places, Ops, registry, files, Go, Bounds

\* An upgrade ends without a lock.
LEMMA UpgradedKeeps ==
    ASSUME NEW p \in Procs, LockInv, Upgraded(p)
    PROVE  LockInv'
BY NamesAssumption DEF Upgraded, LockInv, LocksTyped, CallsTyped, LocksHeld,
    RegistryOwned, OwnsRegistry, OwnsProject, Places, Ops, registry, files, Go, Bounds

\* The kernel frees the locks of a dead process.
LEMMA CrashKeeps ==
    ASSUME NEW p \in Procs, LockInv, Crash(p)
    PROVE  LockInv'
BY NamesAssumption DEF Crash, FreeProject, FreeRegistry, LockInv, LocksTyped,
    CallsTyped, LocksHeld, RegistryOwned, OwnsRegistry, OwnsProject, Places, Ops,
    registry, files, Go, Bounds

\* A migration looks at a document.
LEMMA ReadDocKeeps ==
    ASSUME NEW p \in Procs, NEW a \in Agents, LockInv, ReadDoc(p, a)
    PROVE  LockInv'
<1>1. /\ at[p] = "archive" /\ (at' = at \/ at' = [at EXCEPT ![p] = "write"])
      /\ UNCHANGED <<registry, projectLock, op, root, before>>
    BY DEF ReadDoc, Go
<1> QED
    BY <1>1, NamesAssumption
        DEF LockInv, LocksTyped, CallsTyped, LocksHeld, RegistryOwned, OwnsRegistry,
            OwnsProject, Places, Ops, registry

\* Moving a script does not concern the locks.
LEMMA MoveScriptKeeps ==
    ASSUME NEW p \in Procs, NEW a \in Agents, LockInv, MoveScript(p, a)
    PROVE  LockInv'
BY NamesAssumption DEF MoveScript, LockInv, LocksTyped, CallsTyped, LocksHeld,
    RegistryOwned, OwnsRegistry, OwnsProject, Places, Ops, registry, files, Go, Bounds

\* Writing a script does not concern them.
LEMMA UpgradeScriptKeeps ==
    ASSUME NEW p \in Procs, NEW a \in Agents, LockInv, UpgradeScript(p, a)
    PROVE  LockInv'
BY NamesAssumption DEF UpgradeScript, LockInv, LocksTyped, CallsTyped, LocksHeld,
    RegistryOwned, OwnsRegistry, OwnsProject, Places, Ops, registry, files, Go, Bounds

\* An upgrade looks at a document.
LEMMA UpgradeReadsKeeps ==
    ASSUME NEW p \in Procs, NEW a \in Agents, LockInv, UpgradeReads(p, a)
    PROVE  LockInv'
<1>1. /\ at[p] = "merge" /\ (at' = [at EXCEPT ![p] = "replace"] \/ at' = [at EXCEPT ![p] = "merge"])
      /\ UNCHANGED <<registry, projectLock, op, root, before>>
    BY DEF UpgradeReads, Go
<1> QED
    BY <1>1, NamesAssumption
        DEF LockInv, LocksTyped, CallsTyped, LocksHeld, RegistryOwned, OwnsRegistry,
            OwnsProject, Places, Ops, registry

\* A process that is idle begins a call.
LEMMA StartKeeps ==
    ASSUME NEW p \in Procs, NEW o \in Ops, NEW r \in Roots, LockInv, Start(p, o, r)
    PROVE  LockInv'
BY NamesAssumption DEF Start, FirstPlace, LockInv, LocksTyped, CallsTyped, LocksHeld,
    RegistryOwned, OwnsRegistry, OwnsProject, Places, Ops, registry, files, Go, Bounds

\* Every step preserves the invariant.
LEMMA NextLockInv == LockInv /\ [Next]_vars => LockInv'
<1> SUFFICES ASSUME LockInv, [Next]_vars PROVE LockInv'
    OBVIOUS
<1>1. CASE UNCHANGED vars
    BY <1>1 DEF vars, call, LockInv, LocksTyped, CallsTyped, LocksHeld, RegistryOwned,
    OwnsRegistry, OwnsProject, Places, Ops, registry
<1>2. ASSUME NEW p \in Procs, RegistryStep(p) PROVE LockInv'
    BY <1>2, LookKeeps, RegisterKeeps, PrepareKeeps, RemoveKeeps, UndoKeeps DEF RegistryStep
<1>3. ASSUME NEW p \in Procs, MigrationStep(p) PROVE LockInv'
    BY <1>3, SelectKeeps, ApplyLocksKeeps, UnregisterLocksKeeps, ReadDocKeeps, MoveScriptKeeps,
        WriteDocKeeps, ArchivedKeeps, RestoreDocKeeps, RestoreScriptKeeps, RestoredKeeps
        DEF MigrationStep
<1>4. ASSUME NEW p \in Procs, UpgradeStep(p) PROVE LockInv'
    BY <1>4, UpgradeScriptKeeps, UpgradeReadsKeeps, UpgradeWritesKeeps, UpgradedKeeps
        DEF UpgradeStep
<1>5. ASSUME NEW p \in Procs, Fail(p) \/ FailAgain(p) \/ UndoFails(p) \/ Crash(p) PROVE LockInv'
    BY <1>5, FailKeeps, FailAgainKeeps, UndoFailsKeeps, CrashKeeps
<1>6. ASSUME NEW r \in Legacy, NEW a \in Agents, Edit(r, a) PROVE LockInv'
    BY <1>6 DEF Edit, call, LockInv, LocksTyped, CallsTyped, LocksHeld, RegistryOwned,
    OwnsRegistry, OwnsProject, Places, Ops, registry
<1> QED
    BY <1>1, <1>2, <1>3, <1>4, <1>5, <1>6, StartKeeps DEF Next, Step

\* The locks are held as the code nests them, in every reachable state.
THEOREM LocksCorrect == Spec => []LockInv
BY InitLockInv, NextLockInv, PTL DEF Spec

-----------------------------------------------------------------------------
(* What follows *)

\* A step drops no registration but that of the project it unregisters.
LEMMA StepKeepsRegistrations ==
    ASSUME LockInv, [Next]_vars, NEW r \in projects \ projects'
    PROVE  \E p \in Procs : op[p] = "unregister" /\ root[p] = r /\ at[p] = "remove"
<1>1. PICK p \in Procs : Register(p) \/ Remove(p) \/ Undo(p)
    <2>1. CASE UNCHANGED vars
        BY <2>1 DEF vars, registry
    <2>2. ASSUME NEW p \in Procs, RegistryStep(p) PROVE Register(p) \/ Remove(p) \/ Undo(p)
        BY <2>2 DEF RegistryStep, Look, Prepare, registry
    <2>3. ASSUME NEW p \in Procs, MigrationStep(p) PROVE FALSE
        BY <2>3 DEF MigrationStep, Select, ApplyLocks, UnregisterLocks, ReadDoc, MoveScript,
            WriteDoc, Archived, RestoreDoc, RestoreScript, Restored, registry
    <2>4. ASSUME NEW p \in Procs, UpgradeStep(p) PROVE FALSE
        BY <2>4 DEF UpgradeStep, UpgradeScript, UpgradeReads, UpgradeWrites, Upgraded, registry
    <2>5. ASSUME NEW p \in Procs, Fail(p) \/ FailAgain(p) \/ UndoFails(p) \/ Crash(p) PROVE FALSE
        BY <2>5 DEF Fail, FailAgain, UndoFails, Crash, registry
    <2>6. ASSUME NEW p \in Procs, NEW o \in Ops, NEW s \in Roots, Start(p, o, s) PROVE FALSE
        BY <2>6 DEF Start, registry
    <2>7. ASSUME NEW s \in Legacy, NEW a \in Agents, Edit(s, a) PROVE FALSE
        BY <2>7 DEF Edit, registry
    <2> QED
        BY <2>1, <2>2, <2>3, <2>4, <2>5, <2>6, <2>7 DEF Next, Step
<1>2. CASE Register(p)
    BY <1>2 DEF Register
<1>3. CASE Remove(p)
    BY <1>3 DEF Remove, Without, Registry, registry, LockInv, CallsTyped
<1>4. CASE Undo(p)
    <2>1. projects = before[p].projects \ {root[p]}
        BY <1>4 DEF Undo, LockInv, RegistryOwned, OwnsRegistry
    <2> QED
        BY <2>1, <1>4 DEF Undo
<1> QED
    BY <1>1, <1>2, <1>3, <1>4

\* A project leaves the registry only by its own unregistration, whatever fails or dies and
\* whoever else registers or unregisters (unregister_project).
THEOREM RegistrationsAreKept == Spec => RegistrationsKept
<1>1. LockInv /\ [Next]_vars
        => [\A r \in projects \ projects' :
               \E p \in Procs : op[p] = "unregister" /\ root[p] = r /\ at[p] = "remove"]_vars
    BY StepKeepsRegistrations
<1> QED
    BY <1>1, LocksCorrect, PTL DEF Spec, RegistrationsKept

-----------------------------------------------------------------------------
(* The documents *)

\* The types of the documents and of what the calls remember of them.
FilesTyped ==
    /\ docs \in [Roots -> [Agents -> Docs]] /\ edits \in Nat
    /\ docsLeft \in [Procs -> SUBSET Agents]
    /\ wrote \in [Procs -> SUBSET (Agents \X Docs)]
    /\ released \subseteq Roots /\ created \subseteq Roots \X Agents
    /\ \A p \in Procs : snap[p].docs \in [Agents -> Docs]
    /\ read \in [Procs -> [agents : SUBSET Agents, doc : Docs]]
    /\ \A p \in Procs :
           /\ \A a, b \in read[p].agents : a = b
           /\ at[p] = "archive" => read[p].agents = {}
           /\ at[p] \in {"select", "lock", "prepare", "remove", "relock"}
                  => docsLeft[p] = Agents /\ read[p].agents = {}
    /\ DOMAIN snap = Procs

\* A document of project r is without legacy entries, or an upgrade has made it.
Clean(doc, r, a) == doc.kind = "legacy" => <<r, a>> \in created

\* While nothing is blurred: a released project is clean; a migration that holds one would
\* only put clean documents back; and what a migration has been through is clean.
CleanInv ==
    ~blurred =>
        /\ \A r \in released, a \in Agents : Clean(docs[r][a], r, a)
        /\ \A p \in Procs, a \in Agents :
               /\ OwnsProject(p) /\ root[p] \in released => Clean(snap[p].docs[a], root[p], a)
               /\ at[p] \in {"archive", "write"} /\ a \notin docsLeft[p] \cup read[p].agents
                      => Clean(docs[root[p]][a], root[p], a)

DocsInv == FilesTyped /\ CleanInv

\* Nothing is released at the start.
LEMMA InitDocsInv == Init => DocsInv
<1> SUFFICES ASSUME Init PROVE DocsInv
    OBVIOUS
<1> QED
    BY DEF Init, NoFiles, NoRead, Docs, DocsInv, FilesTyped, CleanInv, OwnsProject

\* A document without its legacy entries.
LEMMA CleanedIsClean ==
    ASSUME NEW d \in Docs
    PROVE  Cleaned(d) \in Docs /\ Cleaned(d).kind = "clean" /\ Cleaned(d).edit = d.edit
BY DEF Cleaned, Docs

\* What a document is after one of them is replaced.
LEMMA OneDocument ==
    ASSUME docs \in [Roots -> [Agents -> Docs]], NEW r \in Roots, NEW a \in Agents,
           NEW d \in Docs, docs' = [docs EXCEPT ![r][a] = d]
    PROVE  /\ docs' \in [Roots -> [Agents -> Docs]]
           /\ \A s \in Roots, b \in Agents :
                  docs'[s][b] = IF s = r /\ b = a THEN d ELSE docs[s][b]
OBVIOUS

\* An initialisation only looks at the registry.
LEMMA LookCleanly ==
    ASSUME NEW p \in Procs, LockInv, DocsInv, Look(p)
    PROVE  DocsInv'
BY NamesAssumption DEF Look, DocsInv, FilesTyped, CleanInv, Clean, OwnsProject, Docs,
    FirstPlace, LockInv, CallsTyped, LocksHeld, registry, files, Go, Bounds

\* A registered project is not a released one any more.
LEMMA RegisterCleanly ==
    ASSUME NEW p \in Procs, LockInv, DocsInv, Register(p)
    PROVE  DocsInv'
BY NamesAssumption DEF Register, DocsInv, FilesTyped, CleanInv, Clean, OwnsProject,
    Docs, FirstPlace, LockInv, CallsTyped, LocksHeld, registry, files, Go, Bounds

\* A preparation only remembers the files.
LEMMA PrepareCleanly ==
    ASSUME NEW p \in Procs, LockInv, DocsInv, Prepare(p)
    PROVE  DocsInv'
BY NamesAssumption DEF Prepare, HookFiles, DocsInv, FilesTyped, CleanInv, Clean,
    OwnsProject, Docs, FirstPlace, LockInv, CallsTyped, LocksHeld, registry, files, Go,
    Bounds

\* An unregistration has the documents ahead of it.
LEMMA RemoveCleanly ==
    ASSUME NEW p \in Procs, LockInv, DocsInv, Remove(p)
    PROVE  DocsInv'
BY NamesAssumption DEF Remove, DocsInv, FilesTyped, CleanInv, Clean, OwnsProject, Docs,
    FirstPlace, LockInv, CallsTyped, LocksHeld, registry, files, Go, Bounds

\* Writing the registry back releases no project.
LEMMA UndoCleanly ==
    ASSUME NEW p \in Procs, LockInv, DocsInv, Undo(p)
    PROVE  DocsInv'
BY NamesAssumption DEF Undo, DocsInv, FilesTyped, CleanInv, Clean, OwnsProject, Docs,
    FirstPlace, LockInv, CallsTyped, LocksHeld, registry, files, Go, Bounds

\* Nor does failing to.
LEMMA UndoFailsCleanly ==
    ASSUME NEW p \in Procs, LockInv, DocsInv, UndoFails(p)
    PROVE  DocsInv'
BY NamesAssumption DEF UndoFails, DocsInv, FilesTyped, CleanInv, Clean, OwnsProject,
    Docs, FirstPlace, LockInv, CallsTyped, LocksHeld, registry, files, Go, Bounds

\* A selected migration has the documents ahead of it.
LEMMA SelectCleanly ==
    ASSUME NEW p \in Procs, LockInv, DocsInv, Select(p)
    PROVE  DocsInv'
BY NamesAssumption DEF Select, DocsInv, FilesTyped, CleanInv, Clean, OwnsProject, Docs,
    FirstPlace, LockInv, CallsTyped, LocksHeld, registry, files, Go, Bounds

\* A migration finds what is there.
LEMMA ApplyLocksCleanly ==
    ASSUME NEW p \in Procs, LockInv, DocsInv, ApplyLocks(p)
    PROVE  DocsInv'
<1>1. CASE Broken(root[p])
    BY <1>1, NamesAssumption
        DEF ApplyLocks, DocsInv, FilesTyped, CleanInv, Clean, OwnsProject, registry, files,
            Go, Bounds, LockInv, CallsTyped
<1>2. CASE ~Broken(root[p])
    <2>1. /\ snap' = [snap EXCEPT ![p] = HookFiles(root[p])] /\ at' = [at EXCEPT ![p] = "archive"]
          /\ at[p] = "lock" /\ root[p] \in Roots /\ projectLock[root[p]] = NoProc
          /\ UNCHANGED <<docs, edits, root, docsLeft, wrote, read, released, created, blurred>>
        BY <1>2 DEF ApplyLocks, Go, files, Bounds, LockInv, CallsTyped
    <2>2. /\ DOMAIN snap' = Procs /\ snap'[p].docs = docs[root[p]]
          /\ \A q \in Procs \ {p} : snap'[q] = snap[q]
        BY <2>1 DEF HookFiles, DocsInv, FilesTyped
    <2>3. FilesTyped'
        BY <2>1, <2>2 DEF DocsInv, FilesTyped, LockInv, CallsTyped
    <2>4. CleanInv'
        BY <2>1, <2>2 DEF DocsInv, FilesTyped, CleanInv, Clean, OwnsProject, LockInv, CallsTyped
    <2> QED
        BY <2>3, <2>4 DEF DocsInv
<1> QED
    BY <1>1, <1>2

\* The files are those that were remembered.
LEMMA UnregisterLocksCleanly ==
    ASSUME NEW p \in Procs, LockInv, DocsInv, UnregisterLocks(p)
    PROVE  DocsInv'
BY NamesAssumption DEF UnregisterLocks, TakeProject, HookFiles, DocsInv, FilesTyped,
    CleanInv, Clean, OwnsProject, Docs, FirstPlace, LockInv, CallsTyped, LocksHeld,
    registry, files, Go, Bounds

\* A document that a migration writes is clean.
LEMMA WriteDocCleanly ==
    ASSUME NEW p \in Procs, LockInv, DocsInv, WriteDoc(p)
    PROVE  DocsInv'
<1>1. PICK a \in read[p].agents :
          /\ docs' = [docs EXCEPT ![root[p]][a] = Cleaned(read[p].doc)]
          /\ wrote' = [wrote EXCEPT ![p] = @ \cup {<<a, Cleaned(read[p].doc)>>}]
    BY DEF WriteDoc
<1>2. /\ at[p] = "write" /\ at' = [at EXCEPT ![p] = "archive"]
      /\ read' = [read EXCEPT ![p].agents = {}]
      /\ UNCHANGED <<edits, root, snap, docsLeft, released, created, blurred, projectLock>>
    BY DEF WriteDoc, Go, Bounds
<1>3. /\ Cleaned(read[p].doc) \in Docs /\ Cleaned(read[p].doc).kind = "clean"
      /\ a \in Agents /\ root[p] \in Roots
    <2>1. read[p].doc \in Docs /\ a \in Agents
        BY <1>1 DEF DocsInv, FilesTyped
    <2>2. root[p] \in Roots
        BY <1>2 DEF LockInv, CallsTyped
    <2> QED
        BY <2>1, <2>2, CleanedIsClean
<1>4. /\ docs' \in [Roots -> [Agents -> Docs]]
      /\ \A r \in Roots, b \in Agents :
             docs'[r][b] = IF r = root[p] /\ b = a THEN Cleaned(read[p].doc) ELSE docs[r][b]
    BY <1>1, <1>3, OneDocument DEF DocsInv, FilesTyped
<1>5. /\ read' \in [Procs -> [agents : SUBSET Agents, doc : Docs]] /\ read'[p].agents = {}
      /\ \A q \in Procs \ {p} : read'[q] = read[q]
    BY <1>2 DEF DocsInv, FilesTyped
<1>6. wrote' \in [Procs -> SUBSET (Agents \X Docs)]
    BY <1>1, <1>3 DEF DocsInv, FilesTyped
<1>7. FilesTyped'
    BY <1>2, <1>4, <1>5, <1>6 DEF DocsInv, FilesTyped, LockInv, CallsTyped
<1>8. read[p].agents = {a}
    BY <1>1, <1>2 DEF DocsInv, FilesTyped
<1>9. ASSUME ~blurred, NEW r \in Roots, NEW b \in Agents,
             Clean(docs[r][b], r, b) \/ (r = root[p] /\ b = a)
      PROVE  Clean(docs[r][b], r, b)'
    BY <1>2, <1>3, <1>4, <1>9 DEF Clean
<1>10. CleanInv'
    <2> SUFFICES ASSUME ~blurred' PROVE CleanInv'
        BY DEF CleanInv
    <2>1. \A r \in released', b \in Agents : Clean(docs[r][b], r, b)'
        BY <1>2, <1>9 DEF DocsInv, FilesTyped, CleanInv
    <2>2. ASSUME NEW q \in Procs, NEW b \in Agents, OwnsProject(q)', root'[q] \in released'
          PROVE  Clean(snap[q].docs[b], root[q], b)'
        BY <1>2, <2>2 DEF DocsInv, CleanInv, Clean, OwnsProject, LockInv, CallsTyped
    <2>3. ASSUME NEW q \in Procs, NEW b \in Agents, at'[q] \in {"archive", "write"},
                 b \notin docsLeft'[q] \cup read'[q].agents
          PROVE  Clean(docs[root[q]][b], root[q], b)'
        <3>1. /\ at[q] \in {"archive", "write"} /\ b \notin docsLeft[q] /\ root[q] \in Roots
              /\ b \notin read[q].agents \/ (q = p /\ b = a)
            BY <1>2, <1>5, <1>8, <2>3 DEF LockInv, CallsTyped
        <3>2. Clean(docs[root[q]][b], root[q], b) \/ (q = p /\ b = a)
            BY <1>2, <3>1 DEF DocsInv, CleanInv
        <3> QED
            BY <1>2, <1>9, <3>1, <3>2
    <2> QED
        BY <2>1, <2>2, <2>3 DEF CleanInv
<1> QED
    BY <1>7, <1>10 DEF DocsInv

\* A migration that is through has seen every document.
LEMMA ArchivedCleanly ==
    ASSUME NEW p \in Procs, LockInv, DocsInv, Archived(p)
    PROVE  DocsInv'
<1>1. /\ at[p] = "archive" /\ docsLeft[p] = {} /\ at' = [at EXCEPT ![p] = "idle"]
      /\ released' \subseteq released \cup {root[p]} /\ root[p] \in Roots
      /\ UNCHANGED <<docs, edits, root, snap, docsLeft, wrote, read, created, blurred>>
    BY DEF Archived, Go, files, Bounds, LockInv, CallsTyped
<1>2. FilesTyped'
    BY <1>1 DEF DocsInv, FilesTyped, LockInv, CallsTyped
<1>3. \A q \in Procs : OwnsProject(q) /\ root[q] = root[p] => q = p
    BY <1>1 DEF LockInv, LocksHeld, OwnsProject
<1>4. read[p].agents = {}
    BY <1>1 DEF DocsInv, FilesTyped
<1>5. CleanInv'
    BY <1>1, <1>3, <1>4
        DEF DocsInv, FilesTyped, CleanInv, Clean, OwnsProject, LockInv, CallsTyped
<1> QED
    BY <1>2, <1>5 DEF DocsInv

\* What a restoration puts back was clean if the project is released.
LEMMA RestoreDocCleanly ==
    ASSUME NEW p \in Procs, LockInv, DocsInv, RestoreDoc(p)
    PROVE  DocsInv'
<1>1. PICK w \in wrote[p] :
          docs' = [docs EXCEPT ![root[p]][w[1]] = snap[p].docs[w[1]]] \/ UNCHANGED docs
    BY DEF RestoreDoc
<1>2. /\ at[p] = "restore" /\ root[p] \in Roots /\ wrote' \in [Procs -> SUBSET (Agents \X Docs)]
      /\ UNCHANGED <<at, edits, root, snap, docsLeft, read, released, created, blurred>>
    BY DEF RestoreDoc, Bounds, LockInv, CallsTyped, DocsInv, FilesTyped
<1>3. CASE UNCHANGED docs
    BY <1>2, <1>3 DEF DocsInv, FilesTyped, CleanInv, Clean, OwnsProject, LockInv, CallsTyped
<1>4. CASE docs' = [docs EXCEPT ![root[p]][w[1]] = snap[p].docs[w[1]]]
    <2>1. w[1] \in Agents /\ snap[p].docs[w[1]] \in Docs
        BY DEF DocsInv, FilesTyped
    <2>2. /\ docs' \in [Roots -> [Agents -> Docs]]
          /\ \A r \in Roots, b \in Agents :
                 docs'[r][b] = IF r = root[p] /\ b = w[1] THEN snap[p].docs[b] ELSE docs[r][b]
        BY <1>2, <1>4, <2>1, OneDocument DEF DocsInv, FilesTyped
    <2>3. FilesTyped'
        BY <1>2, <2>2 DEF DocsInv, FilesTyped
    <2>4. \A q \in Procs : OwnsProject(q) /\ root[q] = root[p] => q = p
        BY <1>2 DEF LockInv, LocksHeld, OwnsProject
    <2>5. ASSUME ~blurred, root[p] \in released
          PROVE  Clean(snap[p].docs[w[1]], root[p], w[1])
        BY <1>2, <2>1, <2>5 DEF DocsInv, CleanInv, OwnsProject
    <2>6. ASSUME ~blurred', NEW r \in released', NEW b \in Agents
          PROVE  Clean(docs[r][b], r, b)'
        <3>1. ~blurred /\ r \in released /\ r \in Roots
            BY <1>2, <2>6 DEF DocsInv, FilesTyped
        <3>2. Clean(docs[r][b], r, b)
            BY <3>1 DEF DocsInv, CleanInv
        <3>3. CASE r = root[p] /\ b = w[1]
            BY <1>2, <2>2, <2>5, <3>1, <3>3 DEF Clean
        <3>4. CASE ~(r = root[p] /\ b = w[1])
            BY <1>2, <2>2, <3>1, <3>2, <3>4 DEF Clean
        <3> QED
            BY <3>3, <3>4
    <2>7. ASSUME ~blurred', NEW q \in Procs, NEW b \in Agents, at'[q] \in {"archive", "write"},
                 b \notin docsLeft'[q] \cup read'[q].agents
          PROVE  Clean(docs[root[q]][b], root[q], b)'
        <3>1. root[q] # root[p] /\ root[q] \in Roots
            BY <1>2, <2>4, <2>7 DEF OwnsProject, LockInv, CallsTyped
        <3> QED
            BY <1>2, <2>2, <2>7, <3>1 DEF DocsInv, CleanInv, Clean
    <2>8. CleanInv'
        BY <1>2, <2>6, <2>7 DEF DocsInv, CleanInv, Clean, OwnsProject
    <2> QED
        BY <2>3, <2>8 DEF DocsInv
<1> QED
    BY <1>1, <1>3, <1>4

\* Putting a script back leaves the documents.
LEMMA RestoreScriptCleanly ==
    ASSUME NEW p \in Procs, LockInv, DocsInv, RestoreScript(p)
    PROVE  DocsInv'
BY NamesAssumption DEF RestoreScript, DocsInv, FilesTyped, CleanInv, Clean, OwnsProject,
    Docs, FirstPlace, LockInv, CallsTyped, LocksHeld, registry, files, Go, Bounds

\* The end of a restoration leaves the documents.
LEMMA RestoredCleanly ==
    ASSUME NEW p \in Procs, LockInv, DocsInv, Restored(p)
    PROVE  DocsInv'
BY NamesAssumption DEF Restored, FreeProject, DocsInv, FilesTyped, CleanInv, Clean,
    OwnsProject, Docs, FirstPlace, LockInv, CallsTyped, LocksHeld, registry, files, Go,
    Bounds

\* A write that fails blurs what there is.
LEMMA FailCleanly ==
    ASSUME NEW p \in Procs, LockInv, DocsInv, Fail(p)
    PROVE  DocsInv'
<1>1. /\ at[p] \in {"archive", "write"} /\ at' = [at EXCEPT ![p] = "restore"] /\ root[p] \in Roots
      /\ UNCHANGED <<edits, root, snap, docsLeft, wrote, read, released, created>>
    BY DEF Fail, Go, LockInv, CallsTyped
<1>2. CASE UNCHANGED <<docs, blurred>>
    BY <1>1, <1>2 DEF DocsInv, FilesTyped, CleanInv, Clean, OwnsProject, LockInv, CallsTyped
<1>3. ASSUME NEW a \in read[p].agents, blurred',
             docs' = [docs EXCEPT ![root[p]][a] = Cleaned(read[p].doc)]
      PROVE  DocsInv'
    <2>1. a \in Agents /\ Cleaned(read[p].doc) \in Docs
        BY DEF Cleaned, Docs, DocsInv, FilesTyped
    <2>2. docs' \in [Roots -> [Agents -> Docs]]
        BY <1>1, <1>3, <2>1, OneDocument DEF DocsInv, FilesTyped
    <2> QED
        BY <1>1, <1>3, <2>2 DEF DocsInv, FilesTyped, CleanInv, LockInv, CallsTyped
<1> QED
    BY <1>2, <1>3 DEF Fail

\* A failed restoration blurs what there is.
LEMMA FailAgainCleanly ==
    ASSUME NEW p \in Procs, LockInv, DocsInv, FailAgain(p)
    PROVE  DocsInv'
BY NamesAssumption DEF FailAgain, FreeProject, DocsInv, FilesTyped, CleanInv, Clean,
    OwnsProject, Docs, FirstPlace, LockInv, CallsTyped, LocksHeld, registry, files, Go,
    Bounds

\* An upgrade keeps a document as clean as it is, or creates it.
LEMMA UpgradeWritesCleanly ==
    ASSUME NEW p \in Procs, LockInv, DocsInv, UpgradeWrites(p)
    PROVE  DocsInv'
<1>1. PICK a \in read[p].agents :
          /\ docs' = [docs EXCEPT ![root[p]][a] = Gated(read[p].doc)]
          /\ created' = IF read[p].doc.kind = "missing" THEN created \cup {<<root[p], a>>} ELSE created
          /\ blurred' = (blurred \/ docs[root[p]][a] # read[p].doc \/ Watched(root[p], a, p))
    BY DEF UpgradeWrites
<1>2. /\ at[p] = "replace" /\ at' = [at EXCEPT ![p] = "merge"] /\ root[p] \in Roots
      /\ read' = [read EXCEPT ![p].agents = {}] /\ edits' = edits + 1
      /\ UNCHANGED <<root, snap, docsLeft, wrote, released>>
    BY DEF UpgradeWrites, Go, LockInv, CallsTyped
<1>3. /\ Gated(read[p].doc) \in Docs /\ a \in Agents
      /\ read[p].doc.kind # "missing" => Gated(read[p].doc).kind = read[p].doc.kind
    BY <1>1 DEF Gated, Docs, DocsInv, FilesTyped
<1>4. /\ docs' \in [Roots -> [Agents -> Docs]]
      /\ \A r \in Roots, b \in Agents :
             docs'[r][b] = IF r = root[p] /\ b = a THEN Gated(read[p].doc) ELSE docs[r][b]
    BY <1>1, <1>2, <1>3, OneDocument DEF DocsInv, FilesTyped
<1>5. /\ read' \in [Procs -> [agents : SUBSET Agents, doc : Docs]] /\ read'[p].agents = {}
      /\ \A q \in Procs \ {p} : read'[q] = read[q]
    BY <1>2 DEF DocsInv, FilesTyped
<1>6. FilesTyped'
    <2>1. created' \subseteq Roots \X Agents /\ edits' \in Nat
        BY <1>1, <1>2, <1>3 DEF DocsInv, FilesTyped
    <2> QED
        BY <1>2, <1>4, <1>5, <2>1 DEF DocsInv, FilesTyped, LockInv, CallsTyped
<1>7. ASSUME ~blurred', Clean(docs[root[p]][a], root[p], a) 
      PROVE  Gated(read[p].doc).kind = "legacy" => <<root[p], a>> \in created'
    BY <1>1, <1>3, <1>7 DEF Clean
<1>8. created \subseteq created'
    BY <1>1
<1>9. ASSUME ~blurred', NEW r \in Roots, NEW b \in Agents, Clean(docs[r][b], r, b)
      PROVE  Clean(docs[r][b], r, b)'
    <2>1. CASE r = root[p] /\ b = a
        BY <1>3, <1>4, <1>7, <1>9, <2>1 DEF Clean
    <2>2. CASE ~(r = root[p] /\ b = a)
        BY <1>4, <1>8, <1>9, <2>2 DEF Clean
    <2> QED
        BY <2>1, <2>2
<1>10. CleanInv'
    <2> SUFFICES ASSUME ~blurred' PROVE CleanInv'
        BY DEF CleanInv
    <2>1. ~blurred
        BY <1>1
    <2>2. \A r \in released', b \in Agents : Clean(docs[r][b], r, b)'
        BY <1>2, <1>9, <2>1 DEF DocsInv, FilesTyped, CleanInv
    <2>3. ASSUME NEW q \in Procs, NEW b \in Agents, OwnsProject(q)', root'[q] \in released'
          PROVE  Clean(snap[q].docs[b], root[q], b)'
        BY <1>2, <1>8, <2>1, <2>3 DEF DocsInv, CleanInv, Clean, OwnsProject, LockInv, CallsTyped
    <2>4. ASSUME NEW q \in Procs, NEW b \in Agents, at'[q] \in {"archive", "write"},
                 b \notin docsLeft'[q] \cup read'[q].agents
          PROVE  Clean(docs[root[q]][b], root[q], b)'
        <3>1. /\ q # p /\ at[q] \in {"archive", "write"} /\ b \notin docsLeft[q] \cup read[q].agents
              /\ root'[q] = root[q] /\ root[q] \in Roots
            BY <1>2, <1>5, <2>4 DEF LockInv, CallsTyped
        <3>2. Clean(docs[root[q]][b], root[q], b)
            BY <2>1, <3>1 DEF DocsInv, CleanInv
        <3> QED
            BY <1>9, <3>1, <3>2 DEF Clean
    <2> QED
        BY <2>2, <2>3, <2>4 DEF CleanInv
<1> QED
    BY <1>6, <1>10 DEF DocsInv

\* The end of an upgrade leaves the documents.
LEMMA UpgradedCleanly ==
    ASSUME NEW p \in Procs, LockInv, DocsInv, Upgraded(p)
    PROVE  DocsInv'
BY NamesAssumption DEF Upgraded, DocsInv, FilesTyped, CleanInv, Clean, OwnsProject,
    Docs, FirstPlace, LockInv, CallsTyped, LocksHeld, registry, files, Go, Bounds

\* A dead process owns nothing.
LEMMA CrashCleanly ==
    ASSUME NEW p \in Procs, LockInv, DocsInv, Crash(p)
    PROVE  DocsInv'
<1>1. /\ at' = [at EXCEPT ![p] = "idle"] /\ (blurred => blurred')
      /\ UNCHANGED <<docs, edits, root, snap, docsLeft, wrote, read, released, created>>
    BY DEF Crash, Go, files
<1> QED
    BY <1>1 DEF DocsInv, FilesTyped, CleanInv, Clean, OwnsProject, LockInv, CallsTyped

\* A document is clean, or the one to be written next.
LEMMA ReadDocCleanly ==
    ASSUME NEW p \in Procs, NEW a \in Agents, LockInv, DocsInv, ReadDoc(p, a)
    PROVE  DocsInv'
<1>1. /\ at[p] = "archive" /\ a \in docsLeft[p] /\ root[p] \in Roots
      /\ docsLeft' = [docsLeft EXCEPT ![p] = @ \ {a}]
      /\ UNCHANGED <<docs, edits, root, snap, wrote, released, created, blurred>>
    BY DEF ReadDoc, files, Bounds, LockInv, CallsTyped
<1>2. CASE docs[root[p]][a].kind # "legacy"
    <2>1. UNCHANGED <<read, at>>
        BY <1>2 DEF ReadDoc
    <2> QED
        BY <1>1, <1>2, <2>1
            DEF DocsInv, FilesTyped, CleanInv, Clean, OwnsProject, LockInv, CallsTyped
<1>3. CASE docs[root[p]][a].kind = "legacy"
    <2>1. /\ read' = [read EXCEPT ![p] = [agents |-> {a}, doc |-> docs[root[p]][a]]]
          /\ at' = [at EXCEPT ![p] = "write"]
        BY <1>3 DEF ReadDoc, Go
    <2>2. /\ read' \in [Procs -> [agents : SUBSET Agents, doc : Docs]] /\ read'[p].agents = {a}
          /\ \A q \in Procs \ {p} : read'[q] = read[q]
        BY <1>1, <2>1 DEF DocsInv, FilesTyped
    <2>3. FilesTyped'
        BY <1>1, <2>1, <2>2 DEF DocsInv, FilesTyped, LockInv, CallsTyped
    <2>4. CleanInv'
        BY <1>1, <2>1, <2>2
            DEF DocsInv, FilesTyped, CleanInv, Clean, OwnsProject, LockInv, CallsTyped
    <2> QED
        BY <2>3, <2>4 DEF DocsInv
<1> QED
    BY <1>2, <1>3

\* Moving a script leaves the documents.
LEMMA MoveScriptCleanly ==
    ASSUME NEW p \in Procs, NEW a \in Agents, LockInv, DocsInv, MoveScript(p, a)
    PROVE  DocsInv'
BY NamesAssumption DEF MoveScript, DocsInv, FilesTyped, CleanInv, Clean, OwnsProject,
    Docs, FirstPlace, LockInv, CallsTyped, LocksHeld, registry, files, Go, Bounds

\* Writing a script leaves the documents.
LEMMA UpgradeScriptCleanly ==
    ASSUME NEW p \in Procs, NEW a \in Agents, LockInv, DocsInv, UpgradeScript(p, a)
    PROVE  DocsInv'
BY NamesAssumption DEF UpgradeScript, DocsInv, FilesTyped, CleanInv, Clean, OwnsProject,
    Docs, FirstPlace, LockInv, CallsTyped, LocksHeld, registry, files, Go, Bounds

\* An upgrade only reads a document.
LEMMA UpgradeReadsCleanly ==
    ASSUME NEW p \in Procs, NEW a \in Agents, LockInv, DocsInv, UpgradeReads(p, a)
    PROVE  DocsInv'
BY NamesAssumption DEF UpgradeReads, DocsInv, FilesTyped, CleanInv, Clean, OwnsProject,
    Docs, FirstPlace, LockInv, CallsTyped, LocksHeld, registry, files, Go, Bounds

\* A call begins with all documents ahead of it.
LEMMA StartCleanly ==
    ASSUME NEW p \in Procs, NEW o \in Ops, NEW r \in Roots, LockInv, DocsInv, Start(p, o, r)
    PROVE  DocsInv'
<1>1. /\ at[p] = "idle" /\ at' = [at EXCEPT ![p] = FirstPlace(o)]
      /\ root' = [root EXCEPT ![p] = r] /\ docsLeft' = [docsLeft EXCEPT ![p] = Agents]
      /\ wrote' = [wrote EXCEPT ![p] = {}] /\ read' = [read EXCEPT ![p].agents = {}]
      /\ UNCHANGED <<docs, edits, snap, released, created, blurred>>
    BY DEF Start, Go, files
<1>2. FirstPlace(o) \notin {"archive", "write", "restore"}
    BY DEF FirstPlace, Ops
<1>3. /\ read' \in [Procs -> [agents : SUBSET Agents, doc : Docs]] /\ read'[p].agents = {}
      /\ \A q \in Procs \ {p} : read'[q] = read[q]
    BY <1>1 DEF DocsInv, FilesTyped
<1>4. FilesTyped'
    BY <1>1, <1>2, <1>3 DEF DocsInv, FilesTyped, LockInv, CallsTyped
<1>5. CleanInv'
    BY <1>1, <1>2, <1>3
        DEF DocsInv, FilesTyped, CleanInv, Clean, OwnsProject, LockInv, CallsTyped
<1> QED
    BY <1>4, <1>5 DEF DocsInv


\* An edit neither adds nor removes legacy entries.
LEMMA EditCleanly ==
    ASSUME NEW r \in Legacy, NEW a \in Agents, LockInv, DocsInv, Edit(r, a)
    PROVE  DocsInv'
<1> DEFINE d == [kind |-> IF docs[r][a].kind = "missing" THEN "clean" ELSE docs[r][a].kind,
                 edit |-> edits + 1]
<1>1. /\ docs' = [docs EXCEPT ![r][a] = d] /\ edits' = edits + 1 /\ (blurred => blurred')
      /\ UNCHANGED <<at, root, snap, docsLeft, wrote, read, released, created>>
    BY NamesAssumption DEF Edit, call, DocsInv, FilesTyped
<1>2. d \in Docs /\ r \in Roots
    BY NamesAssumption DEF Docs, DocsInv, FilesTyped
<1>3. /\ docs' \in [Roots -> [Agents -> Docs]]
      /\ \A s \in Roots, b \in Agents : docs'[s][b] = IF s = r /\ b = a THEN d ELSE docs[s][b]
    BY <1>1, <1>2, OneDocument DEF DocsInv, FilesTyped
<1>4. FilesTyped'
    BY <1>1, <1>3 DEF DocsInv, FilesTyped
<1>5. Clean(docs[r][a], r, a) => Clean(d, r, a)
    BY DEF Clean
<1>6. CleanInv'
    BY <1>1, <1>3, <1>5
        DEF DocsInv, FilesTyped, CleanInv, Clean, OwnsProject, LockInv, CallsTyped
<1> QED
    BY <1>4, <1>6 DEF DocsInv

\* Every step preserves the invariant of the documents.
LEMMA NextDocsInv == LockInv /\ DocsInv /\ [Next]_vars => DocsInv'
<1> SUFFICES ASSUME LockInv, DocsInv, [Next]_vars PROVE DocsInv'
    OBVIOUS
<1>1. CASE UNCHANGED vars
    BY <1>1 DEF vars, call, files, DocsInv, FilesTyped, CleanInv, Clean, OwnsProject
<1>2. ASSUME NEW p \in Procs, RegistryStep(p) PROVE DocsInv'
    BY <1>2, LookCleanly, RegisterCleanly, PrepareCleanly, RemoveCleanly, UndoCleanly
        DEF RegistryStep
<1>3. ASSUME NEW p \in Procs, MigrationStep(p) PROVE DocsInv'
    BY <1>3, SelectCleanly, ApplyLocksCleanly, UnregisterLocksCleanly, ReadDocCleanly,
        MoveScriptCleanly, WriteDocCleanly, ArchivedCleanly, RestoreDocCleanly,
        RestoreScriptCleanly, RestoredCleanly DEF MigrationStep
<1>4. ASSUME NEW p \in Procs, UpgradeStep(p) PROVE DocsInv'
    BY <1>4, UpgradeScriptCleanly, UpgradeReadsCleanly, UpgradeWritesCleanly, UpgradedCleanly
        DEF UpgradeStep
<1>5. ASSUME NEW p \in Procs, Fail(p) \/ FailAgain(p) \/ UndoFails(p) \/ Crash(p) PROVE DocsInv'
    BY <1>5, FailCleanly, FailAgainCleanly, UndoFailsCleanly, CrashCleanly
<1> QED
    BY <1>1, <1>2, <1>3, <1>4, <1>5, StartCleanly, EditCleanly DEF Next, Step

\* The documents are typed, and clean where they should be, in every reachable state.
LEMMA DocsCorrect == Spec => []DocsInv
BY InitDocsInv, NextDocsInv, LocksCorrect, PTL DEF Spec

\* The registry, the documents and the locks are well typed, and each lock is held exactly
\* where the code is between taking and releasing it (_registry_lock, _project_lock).
THEOREM TypeCorrect == Spec => []TypeOK
<1>1. LockInv /\ DocsInv => TypeOK
    BY NamesAssumption DEF LockInv, LocksTyped, CallsTyped, LocksHeld, OwnsRegistry,
    OwnsProject, DocsInv, FilesTyped, TypeOK
<1> QED
    BY <1>1, LocksCorrect, DocsCorrect, PTL

\* A project that has been unregistered, and not registered since, has no legacy entries
\* left but those an upgrade has put into a new document, however many migrations, failures,
\* deaths and edits there were beside it (unregister_project, execute_legacy_hook_cleanup).
THEOREM ReleasedAreClean == Spec => []ReleasedClean
<1>1. DocsInv => ReleasedClean
    BY DEF DocsInv, FilesTyped, CleanInv, Clean, ReleasedClean
<1> QED
    BY <1>1, DocsCorrect, PTL

-----------------------------------------------------------------------------
(* The scripts, and the way back *)

\* A script of project r that a failed migration has yet to put back.
PutBack(r, a) == \E q \in Procs : at[q] = "restore" /\ root[q] = r /\ a \in moved[q]

\* The types of the scripts and of what a migration knows of them; no document has the
\* number of an edit still to come.
ScriptsTyped ==
    /\ scripts \in [Roots -> [Agents -> BOOLEAN]] /\ blurred \in BOOLEAN
    /\ scriptsLeft \in [Procs -> SUBSET Agents] /\ moved \in [Procs -> SUBSET Agents]
    /\ conflict \in [Procs -> BOOLEAN]
    /\ \A r \in Roots, a \in Agents : docs[r][a].edit <= edits
    /\ \A p \in Procs :
           /\ snap[p].scripts \in [Agents -> BOOLEAN]
           /\ \A a \in Agents : snap[p].docs[a].edit <= edits
           /\ read[p].doc.edit <= edits
           /\ at[p] \in {"select", "lock", "prepare", "remove", "relock"}
                  => wrote[p] = {} /\ moved[p] = {} /\ scriptsLeft[p] = {}

\* An entry has its script, or a restoration will put it back.
Served(r, a) == docs[r][a].kind = "legacy" => scripts[r][a] \/ PutBack(r, a)

\* The scripts a migration is to move belong to clean documents; what it wrote, and what it
\* is about to write, had a script that is there or on its list; an upgrade has written the
\* scripts of the documents it will complete.
ScriptKnown(p, a) ==
    /\ at[p] \in {"archive", "write"} /\ a \in scriptsLeft[p]
           => docs[root[p]][a].kind = "clean"
    /\ OwnsProject(p) /\ (\E w \in wrote[p] : w[1] = a)
           => scripts[root[p]][a] \/ a \in moved[p]
    /\ at[p] = "write" /\ a \in read[p].agents => scripts[root[p]][a] /\ a \notin docsLeft[p]
    /\ at[p] \in {"merge", "replace"} \/ (at[p] = "scripts" /\ a \notin scriptsLeft[p])
           => scripts[root[p]][a] \/ docs[root[p]][a].kind = "clean" \/ PutBack(root[p], a)

\* What a migration has yet to look at or to write is as it was found; what it wrote has
\* the number of what it found; and without a conflict, what is not as it was found is on
\* the list of what to put back, or edited.
Restorable(p, a) ==
    /\ at[p] \in {"archive", "write"} /\ a \in docsLeft[p] \cup read[p].agents
           => docs[root[p]][a] = snap[p].docs[a]
    /\ at[p] = "write" /\ a \in read[p].agents => read[p].doc = snap[p].docs[a]
    /\ \A w \in wrote[p] : w[1] = a => w[2].edit = snap[p].docs[a].edit
    /\ ~conflict[p] =>
           /\ snap[p].scripts[a] => scripts[root[p]][a] \/ a \in moved[p]
           /\ docs[root[p]][a].edit = snap[p].docs[a].edit
                  => \/ docs[root[p]][a] = snap[p].docs[a]
                     \/ <<a, docs[root[p]][a]>> \in wrote[p]

ScriptsInPlace ==
    ~blurred => /\ \A r \in Roots, a \in Agents : Served(r, a)
                /\ \A p \in Procs, a \in Agents : ScriptKnown(p, a)

RestoreReady ==
    ~blurred => \A p \in Procs, a \in Agents : OwnsProject(p) => Restorable(p, a)

ScriptsInv == ScriptsTyped /\ ScriptsInPlace /\ RestoreReady

\* What a step of p leaves alone: the calls of the others.
Others(p) ==
    \A q \in Procs \ {p} :
        /\ at'[q] = at[q] /\ op'[q] = op[q] /\ root'[q] = root[q] /\ snap'[q] = snap[q]
        /\ docsLeft'[q] = docsLeft[q] /\ scriptsLeft'[q] = scriptsLeft[q]
        /\ read'[q] = read[q] /\ wrote'[q] = wrote[q] /\ moved'[q] = moved[q]
        /\ conflict'[q] = conflict[q]

ProcStep(p) == \/ Step(p) \/ Fail(p) \/ FailAgain(p) \/ UndoFails(p) \/ Crash(p)
               \/ \E o \in Ops, r \in Roots : Start(p, o, r)

\* Each step of p changes the call of p only.
LEMMA OthersAlone ==
    ASSUME LockInv, DocsInv, ScriptsTyped, NEW p \in Procs, ProcStep(p)
    PROVE  Others(p)
<1> USE DEF LockInv, CallsTyped, DocsInv, FilesTyped, ScriptsTyped, Go, Others
<1>1. CASE RegistryStep(p)
    <2>1. CASE Look(p) \/ Register(p) \/ Prepare(p)
        BY <2>1 DEF Look, Register, Prepare
    <2>2. CASE Remove(p) \/ Undo(p)
        BY <2>2 DEF Remove, Undo
    <2> QED
        BY <1>1, <2>1, <2>2 DEF RegistryStep
<1>2. CASE MigrationStep(p)
    <2>1. CASE Select(p) \/ ApplyLocks(p) \/ UnregisterLocks(p)
        BY <2>1 DEF Select, ApplyLocks, UnregisterLocks
    <2>2. ASSUME NEW a \in Agents, ReadDoc(p, a) PROVE Others(p)
        BY <2>2 DEF ReadDoc
    <2>3. ASSUME NEW a \in Agents, MoveScript(p, a) PROVE Others(p)
        BY <2>3 DEF MoveScript
    <2>4. CASE WriteDoc(p)
        BY <2>4 DEF WriteDoc
    <2>5. CASE Archived(p) \/ Restored(p)
        BY <2>5 DEF Archived, Restored
    <2>6. CASE RestoreDoc(p) \/ RestoreScript(p)
        BY <2>6 DEF RestoreDoc, RestoreScript
    <2> QED
        BY <1>2, <2>1, <2>2, <2>3, <2>4, <2>5, <2>6 DEF MigrationStep
<1>3. CASE UpgradeStep(p)
    BY <1>3 DEF UpgradeStep, UpgradeScript, UpgradeReads, UpgradeWrites, Upgraded
<1>4. CASE Fail(p) \/ FailAgain(p) \/ UndoFails(p) \/ Crash(p)
    BY <1>4 DEF Fail, FailAgain, UndoFails, Crash
<1>5. ASSUME NEW o \in Ops, NEW r \in Roots, Start(p, o, r) PROVE Others(p)
    BY <1>5 DEF Start
<1> QED
    BY <1>1, <1>2, <1>3, <1>4, <1>5 DEF ProcStep, Step

\* Two migrations are never at work in one project.
LEMMA OneMigration ==
    ASSUME LockInv, NEW p \in Procs, NEW q \in Procs, p # q, OwnsProject(p), OwnsProject(q)
    PROVE  root[p] \in Roots /\ root[q] \in Roots /\ root[p] # root[q]
<1>1. root[p] \in Roots /\ root[q] \in Roots
    BY DEF LockInv, CallsTyped, OwnsProject
<1>2. projectLock[root[p]] = p /\ projectLock[root[q]] = q
    BY <1>1 DEF LockInv, LocksHeld
<1> QED
    BY <1>1, <1>2

\* A step of p that touches the files T: what others rely on in the other files stays, so
\* the invariants hold if they hold for p and for the files in T.
LEMMA StepFrame ==
    ASSUME LockInv, ScriptsInPlace, RestoreReady, NEW p \in Procs \cup {NoProc}, Others(p),
           blurred => blurred', NEW T \in SUBSET (Roots \X Agents),
           \A r \in Roots, a \in Agents : <<r, a>> \notin T =>
               /\ docs'[r][a] = docs[r][a] /\ scripts'[r][a] = scripts[r][a]
               /\ ~blurred' /\ PutBack(r, a) => PutBack(r, a)',
           ~blurred' =>
               /\ \A r \in Roots, a \in Agents : <<r, a>> \in T => Served(r, a)'
               /\ \A a \in Agents : p \in Procs =>
                      ScriptKnown(p, a)' /\ (OwnsProject(p)' => Restorable(p, a)')
               /\ \A q \in Procs \ {p}, a \in Agents :
                      at[q] # "idle" /\ <<root[q], a>> \in T =>
                          ScriptKnown(q, a)' /\ (OwnsProject(q)' => Restorable(q, a)')
    PROVE  ScriptsInPlace' /\ RestoreReady'
<1> SUFFICES ASSUME ~blurred' PROVE ScriptsInPlace' /\ RestoreReady'
    BY DEF ScriptsInPlace, RestoreReady
<1>1. ~blurred
    OBVIOUS
<1>2. ASSUME NEW r \in Roots, NEW a \in Agents PROVE Served(r, a)'
    <2>1. CASE <<r, a>> \in T
        BY <2>1
    <2>2. CASE <<r, a>> \notin T
        <3>1. Served(r, a)
            BY <1>1 DEF ScriptsInPlace
        <3>2. /\ docs'[r][a] = docs[r][a] /\ scripts'[r][a] = scripts[r][a]
              /\ PutBack(r, a) => PutBack(r, a)'
            BY <2>2
        <3> QED
            BY <3>1, <3>2 DEF Served
    <2> QED
        BY <2>1, <2>2
<1>3. ASSUME NEW q \in Procs \ {p}, NEW a \in Agents
      PROVE  ScriptKnown(q, a)' /\ (OwnsProject(q)' => Restorable(q, a)')
    <2>1. CASE at[q] = "idle"
        BY <2>1 DEF ScriptKnown, OwnsProject, Others
    <2>2. CASE at[q] # "idle" /\ <<root[q], a>> \in T
        BY <2>2
    <2>3. CASE at[q] # "idle" /\ <<root[q], a>> \notin T
        <3>1. root[q] \in Roots /\ root'[q] = root[q]
            BY <2>3 DEF LockInv, CallsTyped, Others
        <3>2. /\ docs'[root[q]][a] = docs[root[q]][a] /\ scripts'[root[q]][a] = scripts[root[q]][a]
              /\ PutBack(root[q], a) => PutBack(root[q], a)'
            BY <2>3, <3>1
        <3>3. ScriptKnown(q, a)'
            <4>1. ScriptKnown(q, a)
                BY <1>1 DEF ScriptsInPlace
            <4> QED
                BY <3>1, <3>2, <4>1 DEF ScriptKnown, OwnsProject, Others
        <3>4. OwnsProject(q)' => Restorable(q, a)'
            <4>1. OwnsProject(q) => Restorable(q, a)
                BY <1>1 DEF RestoreReady
            <4> QED
                BY <3>1, <3>2, <4>1 DEF Restorable, OwnsProject, Others
        <3> QED
            BY <3>3, <3>4
    <2> QED
        BY <2>1, <2>2, <2>3
<1> QED
    BY <1>2, <1>3 DEF ScriptsInPlace, RestoreReady

\* A step that touches no file, unless p abandons scripts it had to put back, which blurs
\* what there is.
LEMMA QuietStep ==
    ASSUME LockInv, ScriptsInPlace, RestoreReady, NEW p \in Procs, Others(p),
           UNCHANGED files, blurred => blurred',
           at[p] = "restore" => moved[p] = {} \/ blurred',
           ~blurred' => \A a \in Agents :
                            ScriptKnown(p, a)' /\ (OwnsProject(p)' => Restorable(p, a)')
    PROVE  ScriptsInPlace' /\ RestoreReady'
<1>1. ASSUME NEW r \in Roots, NEW a \in Agents, ~blurred', PutBack(r, a)
      PROVE  PutBack(r, a)'
    BY <1>1 DEF PutBack, Others
<1> DEFINE T == {}
<1>2. T \in SUBSET (Roots \X Agents)
    OBVIOUS
<1>3. \A r \in Roots, a \in Agents : <<r, a>> \notin T =>
          /\ docs'[r][a] = docs[r][a] /\ scripts'[r][a] = scripts[r][a]
          /\ ~blurred' /\ PutBack(r, a) => PutBack(r, a)'
    BY <1>1 DEF files
<1>4. ~blurred' =>
          /\ \A r \in Roots, a \in Agents : <<r, a>> \in T => Served(r, a)'
          /\ \A a \in Agents : p \in Procs =>
                 ScriptKnown(p, a)' /\ (OwnsProject(p)' => Restorable(p, a)')
          /\ \A q \in Procs \ {p}, a \in Agents :
                 at[q] # "idle" /\ <<root[q], a>> \in T =>
                     ScriptKnown(q, a)' /\ (OwnsProject(q)' => Restorable(q, a)')
    OBVIOUS
<1> HIDE DEF T
<1> QED
    BY <1>2, <1>3, <1>4, StepFrame

Plain == {"idle", "look", "register", "select", "lock", "prepare", "remove", "relock", "undo"}

\* A step that leaves p where no file is at stake.
LEMMA PlainStep ==
    ASSUME LockInv, ScriptsInPlace, RestoreReady, NEW p \in Procs, Others(p),
           UNCHANGED files, blurred => blurred', at'[p] \in Plain,
           at[p] = "restore" => moved[p] = {} \/ blurred'
    PROVE  ScriptsInPlace' /\ RestoreReady'
<1>1. \A a \in Agents : ScriptKnown(p, a)' /\ ~OwnsProject(p)'
    BY DEF ScriptKnown, OwnsProject, Plain
<1> QED
    BY <1>1, QuietStep

\* No script is written or moved at the start.
LEMMA InitScriptsInv == Init => ScriptsInv
<1> SUFFICES ASSUME Init PROVE ScriptsInv
    OBVIOUS
<1>1. ScriptsTyped
    <2>1. edits = 0 /\ \A r \in Roots, a \in Agents : docs[r][a].edit = 0
        BY DEF Init
    <2>2. \A p \in Procs : /\ snap[p].scripts = [a \in Agents |-> FALSE] /\ read[p].doc.edit = 0
                          /\ \A a \in Agents : snap[p].docs[a].edit = 0
        BY DEF Init, NoFiles, NoRead
    <2>3. scripts \in [Roots -> [Agents -> BOOLEAN]]
        BY DEF Init
    <2>4. scriptsLeft \in [Procs -> SUBSET Agents] /\ moved \in [Procs -> SUBSET Agents]
        BY DEF Init
    <2>5. conflict \in [Procs -> BOOLEAN] /\ blurred \in BOOLEAN
        BY DEF Init
    <2>6. \A p \in Procs : at[p] = "idle"
        BY DEF Init
    <2>7. /\ \A r \in Roots, a \in Agents : docs[r][a].edit <= edits
          /\ \A p \in Procs, a \in Agents : snap[p].docs[a].edit <= edits
          /\ \A p \in Procs : read[p].doc.edit <= edits
        BY <2>1, <2>2
    <2>8. \A p \in Procs : snap[p].scripts \in [Agents -> BOOLEAN]
        BY <2>2
    <2> QED
        BY <2>3, <2>4, <2>5, <2>6, <2>7, <2>8 DEF ScriptsTyped
<1>2. ScriptsInPlace
    BY DEF Init, ScriptsInPlace, Served, ScriptKnown, OwnsProject
<1>3. RestoreReady
    BY DEF Init, RestoreReady, OwnsProject
<1> QED
    BY <1>1, <1>2, <1>3 DEF ScriptsInv

\* A step that touches no file and remembers none.
LEMMA QuietlyTyped ==
    ASSUME ScriptsTyped, NEW p \in Procs, UNCHANGED files, edits' = edits, snap' = snap,
           read' = read, scriptsLeft' = scriptsLeft, moved' = moved, wrote' = wrote,
           conflict' \in [Procs -> BOOLEAN], blurred' \in BOOLEAN,
           \A q \in Procs \ {p} : at'[q] = at[q],
           at'[p] \in {"select", "lock", "prepare", "remove", "relock"}
               => at[p] \in {"select", "lock", "prepare", "remove", "relock"}
    PROVE  ScriptsTyped'
<1>1. \A q \in Procs : at'[q] \in {"select", "lock", "prepare", "remove", "relock"}
                         => at[q] \in {"select", "lock", "prepare", "remove", "relock"}
    OBVIOUS
<1> QED
    BY <1>1 DEF ScriptsTyped, files

\* The steps of the registry, and the ends of the calls.
LEMMA RegistryTyped ==
    ASSUME LockInv, DocsInv, ScriptsTyped, NEW p \in Procs,
           Look(p) \/ Register(p) \/ Remove(p) \/ Undo(p) \/ UndoFails(p) \/ Select(p)
              \/ UnregisterLocks(p) \/ Archived(p) \/ Restored(p) \/ FailAgain(p)
              \/ Upgraded(p) \/ Crash(p)
    PROVE  ScriptsTyped'
<1> USE DEF LockInv, CallsTyped, Go, Bounds
<1>0. conflict \in [Procs -> BOOLEAN] /\ blurred \in BOOLEAN
    BY DEF ScriptsTyped
<1>1. CASE Look(p) \/ Register(p) \/ Remove(p) \/ Undo(p)
    BY <1>0, <1>1, QuietlyTyped DEF Look, Register, Remove, Undo
<1>2. CASE UndoFails(p) \/ Select(p) \/ UnregisterLocks(p)
    BY <1>0, <1>2, QuietlyTyped DEF UndoFails, Select, UnregisterLocks
<1>3. CASE Archived(p) \/ Restored(p) \/ Upgraded(p)
    BY <1>0, <1>3, QuietlyTyped DEF Archived, Restored, Upgraded
<1>4. CASE FailAgain(p)
    BY <1>0, <1>4, QuietlyTyped DEF FailAgain
<1>5. CASE Crash(p)
    BY <1>0, <1>5, QuietlyTyped DEF Crash
<1> QED
    BY <1>1, <1>2, <1>3, <1>4, <1>5

\* The steps that remember what they find.
LEMMA LooksTyped ==
    ASSUME LockInv, DocsInv, ScriptsTyped, NEW p \in Procs,
           \/ Prepare(p) \/ ApplyLocks(p)
           \/ \E a \in Agents : ReadDoc(p, a) \/ UpgradeReads(p, a)
           \/ \E o \in Ops, r \in Roots : Start(p, o, r)
    PROVE  ScriptsTyped'
<1> USE DEF LockInv, CallsTyped, Go, Bounds, DocsInv, FilesTyped, ScriptsTyped, files
<1>1. CASE Prepare(p)
    <2>1. /\ snap' = [snap EXCEPT ![p] = HookFiles(root[p])] /\ root[p] \in Roots
          /\ at[p] = "prepare" /\ \A q \in Procs \ {p} : at'[q] = at[q]
          /\ UNCHANGED <<files, edits, scriptsLeft, read, wrote, moved, conflict, blurred>>
        BY <1>1 DEF Prepare
    <2>2. /\ snap'[p].docs = docs[root[p]] /\ snap'[p].scripts = scripts[root[p]]
          /\ \A q \in Procs \ {p} : snap'[q] = snap[q]
        BY <2>1 DEF HookFiles
    <2> QED
        BY <2>1, <2>2
<1>2. CASE ApplyLocks(p)
    <2>1. /\ UNCHANGED snap \/ snap' = [snap EXCEPT ![p] = HookFiles(root[p])]
          /\ root[p] \in Roots /\ at[p] = "lock" /\ \A q \in Procs \ {p} : at'[q] = at[q]
          /\ UNCHANGED <<files, edits, scriptsLeft, read, wrote, moved, conflict, blurred>>
        BY <1>2 DEF ApplyLocks
    <2>2. /\ \/ snap'[p] = snap[p]
             \/ snap'[p].docs = docs[root[p]] /\ snap'[p].scripts = scripts[root[p]]
          /\ \A q \in Procs \ {p} : snap'[q] = snap[q]
        BY <2>1 DEF HookFiles
    <2> QED
        BY <2>1, <2>2
<1>3. ASSUME NEW a \in Agents, ReadDoc(p, a) \/ UpgradeReads(p, a) PROVE ScriptsTyped'
    <2>1. /\ UNCHANGED read \/ read' = [read EXCEPT ![p] = [agents |-> {a}, doc |-> docs[root[p]][a]]]
          /\ root[p] \in Roots /\ at'[p] \in {"archive", "write", "merge", "replace"}
          /\ \A q \in Procs \ {p} : at'[q] = at[q]
          /\ UNCHANGED <<files, edits, snap, scriptsLeft, wrote, moved, conflict, blurred>>
        BY <1>3 DEF ReadDoc, UpgradeReads
    <2>2. /\ read'[p].doc \in {read[p].doc, docs[root[p]][a]}
          /\ \A q \in Procs \ {p} : read'[q] = read[q]
        BY <2>1
    <2>3. \A q \in Procs : read'[q].doc.edit <= edits
        <3>1. read[p].doc.edit <= edits /\ docs[root[p]][a].edit <= edits
            BY <2>1
        <3> QED
            BY <2>2, <3>1
    <2> QED
        BY <2>1, <2>3
<1>4. ASSUME NEW o \in Ops, NEW r \in Roots, Start(p, o, r) PROVE ScriptsTyped'
    <2>1. /\ at' = [at EXCEPT ![p] = FirstPlace(o)]
          /\ scriptsLeft' = [scriptsLeft EXCEPT ![p] = IF o = "upgrade" THEN Agents ELSE {}]
          /\ wrote' = [wrote EXCEPT ![p] = {}] /\ moved' = [moved EXCEPT ![p] = {}]
          /\ read' = [read EXCEPT ![p].agents = {}]
          /\ conflict' = [conflict EXCEPT ![p] = FALSE]
          /\ UNCHANGED <<files, edits, snap, blurred>>
        BY <1>4 DEF Start
    <2>2. o = "upgrade" => FirstPlace(o) = "scripts"
        BY DEF FirstPlace
    <2>3. \A q \in Procs : read'[q].doc = read[q].doc
        BY <2>1
    <2> QED
        BY <2>1, <2>2, <2>3
<1> QED
    BY <1>1, <1>2, <1>3, <1>4

\* A migration that has just taken its project knows the files as they are.
LEMMA TakesReady ==
    ASSUME LockInv, DocsInv, ScriptsInv, NEW p \in Procs, Others(p), UNCHANGED files,
           blurred' = blurred, at[p] \in {"lock", "relock"}, at'[p] = "archive",
           root'[p] = root[p], snap'[p] = HookFiles(root[p]),
           UNCHANGED <<docsLeft, scriptsLeft, read, wrote, moved>>
    PROVE  ScriptsInPlace' /\ RestoreReady'
<1>1. /\ scriptsLeft'[p] = {} /\ wrote'[p] = {} /\ moved'[p] = {} /\ read'[p].agents = {}
      /\ root[p] \in Roots
    BY DEF ScriptsInv, ScriptsTyped, DocsInv, FilesTyped, LockInv, CallsTyped
<1>2. ASSUME NEW a \in Agents PROVE ScriptKnown(p, a)'
    BY <1>1 DEF ScriptKnown
<1>3. ASSUME NEW a \in Agents PROVE Restorable(p, a)'
    BY <1>1 DEF Restorable, HookFiles, files
<1> QED
    BY <1>2, <1>3, QuietStep DEF ScriptsInv

\* The steps of the registry and the ends of the calls put no file at stake.
LEMMA RegistryReady ==
    ASSUME LockInv, DocsInv, ScriptsInv, NEW p \in Procs, Others(p),
           Look(p) \/ Register(p) \/ Remove(p) \/ Undo(p) \/ UndoFails(p) \/ Select(p)
              \/ UnregisterLocks(p) \/ Archived(p) \/ Restored(p) \/ FailAgain(p)
              \/ Upgraded(p) \/ Crash(p)
    PROVE  ScriptsInPlace' /\ RestoreReady'
<1> USE DEF LockInv, CallsTyped, Go, Bounds, Plain, ScriptsInv
<1>1. CASE Look(p) \/ Register(p) \/ Remove(p) \/ Undo(p)
    BY <1>1, PlainStep DEF Look, Register, Remove, Undo
<1>2. CASE UndoFails(p) \/ Select(p)
    BY <1>2, PlainStep DEF UndoFails, Select
<1>3. CASE UnregisterLocks(p)
    <2>1. CASE HookFiles(root[p]) = snap[p]
        BY <1>3, <2>1, TakesReady DEF UnregisterLocks
    <2>2. CASE HookFiles(root[p]) # snap[p]
        BY <1>3, <2>2, PlainStep DEF UnregisterLocks
    <2> QED
        BY <2>1, <2>2
<1>4. CASE Archived(p) \/ Restored(p) \/ Upgraded(p)
    BY <1>4, PlainStep DEF Archived, Restored, Upgraded
<1>5. CASE FailAgain(p)
    BY <1>5, PlainStep DEF FailAgain
<1>6. CASE Crash(p)
    BY <1>6, PlainStep DEF Crash
<1> QED
    BY <1>1, <1>2, <1>3, <1>4, <1>5, <1>6

\* A preparation, a migration that takes its project or is refused, the start of a call.
LEMMA StartsReady ==
    ASSUME LockInv, DocsInv, ScriptsInv, NEW p \in Procs, Others(p),
           Prepare(p) \/ ApplyLocks(p) \/ \E o \in Ops, r \in Roots : Start(p, o, r)
    PROVE  ScriptsInPlace' /\ RestoreReady'
<1> USE DEF LockInv, CallsTyped, Go, Bounds, Plain, ScriptsInv
<1>1. CASE Prepare(p)
    BY <1>1, PlainStep DEF Prepare
<1>2. CASE ApplyLocks(p)
    <2>1. CASE Broken(root[p])
        BY <1>2, <2>1, PlainStep DEF ApplyLocks
    <2>2. CASE ~Broken(root[p])
        <3>1. snap'[p] = HookFiles(root[p])
            BY <1>2, <2>2 DEF ApplyLocks, DocsInv, FilesTyped
        <3> QED
            BY <1>2, <2>2, <3>1, TakesReady DEF ApplyLocks
    <2> QED
        BY <2>1, <2>2
<1>3. ASSUME NEW o \in Ops, NEW r \in Roots, Start(p, o, r)
      PROVE  ScriptsInPlace' /\ RestoreReady'
    <2>1. /\ at[p] = "idle" /\ at'[p] = FirstPlace(o) /\ UNCHANGED <<files, blurred>>
        BY <1>3 DEF Start
    <2>2. CASE o # "upgrade"
        <3>1. FirstPlace(o) \in Plain
            BY <2>2 DEF FirstPlace, Ops
        <3> QED
            BY <2>1, <3>1, PlainStep
    <2>3. CASE o = "upgrade"
        <3>1. at'[p] = "scripts" /\ scriptsLeft'[p] = Agents
            BY <1>3, <2>1, <2>3 DEF FirstPlace, Start, ScriptsTyped
        <3>2. \A a \in Agents : ScriptKnown(p, a)' /\ ~OwnsProject(p)'
            BY <3>1 DEF ScriptKnown, OwnsProject
        <3> QED
            BY <2>1, <3>2, QuietStep
    <2> QED
        BY <2>2, <2>3
<1> QED
    BY <1>1, <1>2, <1>3

\* A document that holds legacy entries, in a project that p holds, has its script.
LEMMA ReadDocReady ==
    ASSUME LockInv, DocsInv, ScriptsInv, NEW p \in Procs, NEW a \in Agents, Others(p), ReadDoc(p, a)
    PROVE  ScriptsInPlace' /\ RestoreReady'
<1>1. /\ at[p] = "archive" /\ a \in docsLeft[p] /\ root[p] \in Roots /\ OwnsProject(p)
      /\ docsLeft'[p] = docsLeft[p] \ {a} /\ read[p].agents = {}
      /\ UNCHANGED <<files, root, snap, scriptsLeft, wrote, moved, conflict, blurred>>
    BY DEF ReadDoc, Bounds, LockInv, CallsTyped, DocsInv, FilesTyped, OwnsProject
<1>2. \/ at'[p] = "archive" /\ read' = read
      \/ /\ at'[p] = "write" /\ docs[root[p]][a].kind = "legacy"
         /\ read'[p] = [agents |-> {a}, doc |-> docs[root[p]][a]]
    BY <1>1 DEF ReadDoc, Go, LockInv, CallsTyped, DocsInv, FilesTyped
<1>3. ASSUME ~blurred', NEW b \in Agents PROVE ScriptKnown(p, b)' /\ Restorable(p, b)'
    <2>1. ScriptKnown(p, b) /\ Restorable(p, b) /\ Restorable(p, a) /\ Served(root[p], a)
        BY <1>1, <1>3 DEF ScriptsInv, ScriptsInPlace, RestoreReady
    <2>2. ~PutBack(root[p], a)
        BY <1>1, OneMigration DEF PutBack, OwnsProject
    <2>3. docs[root[p]][a] = snap[p].docs[a]
        BY <1>1, <2>1 DEF Restorable
    <2>4. docs[root[p]][a].kind = "legacy" => scripts[root[p]][a]
        BY <2>1, <2>2 DEF Served
    <2>5. ScriptKnown(p, b)'
        BY <1>1, <1>2, <2>1, <2>4 DEF ScriptKnown, OwnsProject, files
    <2>6. Restorable(p, b)'
        BY <1>1, <1>2, <2>1, <2>3 DEF Restorable, files
    <2> QED
        BY <2>5, <2>6
<1> QED
    BY <1>1, <1>3, QuietStep DEF ScriptsInv

\* An upgrade that looks at a document has written the scripts.
LEMMA UpgradeReadsReady ==
    ASSUME LockInv, DocsInv, ScriptsInv, NEW p \in Procs, NEW a \in Agents, Others(p),
           UpgradeReads(p, a)
    PROVE  ScriptsInPlace' /\ RestoreReady'
<1>1. /\ at[p] = "merge" /\ at'[p] \in {"merge", "replace"}
      /\ UNCHANGED <<files, root, snap, scriptsLeft, wrote, moved, conflict, blurred>>
    BY DEF UpgradeReads, Go, Bounds, LockInv, CallsTyped
<1>2. ~OwnsProject(p)'
    BY <1>1 DEF OwnsProject
<1>3. ASSUME ~blurred', NEW b \in Agents PROVE ScriptKnown(p, b)'
    <2>1. ScriptKnown(p, b)
        BY <1>1, <1>3 DEF ScriptsInv, ScriptsInPlace
    <2>2. PutBack(root[p], b) => PutBack(root[p], b)'
        BY <1>1 DEF PutBack, Others
    <2> QED
        BY <1>1, <2>1, <2>2 DEF ScriptKnown, OwnsProject, files
<1> QED
    BY <1>1, <1>2, <1>3, QuietStep DEF ScriptsInv

\* A script that is moved belongs to a document that is clean.
LEMMA MoveScriptReady ==
    ASSUME LockInv, DocsInv, ScriptsInv, NEW p \in Procs, NEW a \in Agents, Others(p),
           MoveScript(p, a)
    PROVE  ScriptsInv'
<1>1. /\ at[p] = "archive" /\ a \in scriptsLeft[p] /\ root[p] \in Roots /\ OwnsProject(p)
      /\ scripts' = [scripts EXCEPT ![root[p]][a] = FALSE]
      /\ moved' = [moved EXCEPT ![p] = @ \cup {a}]
      /\ scriptsLeft' = [scriptsLeft EXCEPT ![p] = @ \ {a}]
      /\ UNCHANGED <<docs, root, at, snap, docsLeft, read, wrote, conflict, edits, blurred>>
    BY DEF MoveScript, Bounds, LockInv, CallsTyped, OwnsProject
<1>2. /\ scripts' \in [Roots -> [Agents -> BOOLEAN]]
      /\ \A s \in Roots, c \in Agents :
             scripts'[s][c] = IF s = root[p] /\ c = a THEN FALSE ELSE scripts[s][c]
    BY <1>1 DEF ScriptsInv, ScriptsTyped
<1>3. moved'[p] = moved[p] \cup {a} /\ scriptsLeft'[p] = scriptsLeft[p] \ {a}
    BY <1>1 DEF ScriptsInv, ScriptsTyped
<1>4. ScriptsTyped'
    BY <1>1, <1>2 DEF ScriptsInv, ScriptsTyped
<1> DEFINE T == {<<root[p], a>>}
<1>5. T \in SUBSET (Roots \X Agents)
    BY <1>1
<1>6. \A r \in Roots, b \in Agents : <<r, b>> \notin T =>
          /\ docs'[r][b] = docs[r][b] /\ scripts'[r][b] = scripts[r][b]
          /\ ~blurred' /\ PutBack(r, b) => PutBack(r, b)'
    BY <1>1, <1>2 DEF PutBack, Others
<1>7. ASSUME ~blurred' PROVE docs'[root[p]][a].kind = "clean"
    BY <1>1, <1>7 DEF ScriptsInv, ScriptsInPlace, ScriptKnown
<1>8. ASSUME ~blurred', NEW r \in Roots, NEW b \in Agents, <<r, b>> \in T PROVE Served(r, b)'
    BY <1>7, <1>8 DEF Served
<1>9. ASSUME ~blurred', NEW b \in Agents
      PROVE  ScriptKnown(p, b)' /\ (OwnsProject(p)' => Restorable(p, b)')
    <2>1. ScriptKnown(p, b) /\ Restorable(p, b) /\ read[p].agents = {}
        BY <1>1, <1>9 DEF ScriptsInv, ScriptsInPlace, RestoreReady, DocsInv, FilesTyped
    <2>2. ScriptKnown(p, b)'
        BY <1>1, <1>2, <1>3, <2>1 DEF ScriptKnown, OwnsProject
    <2>3. Restorable(p, b)'
        BY <1>1, <1>2, <1>3, <2>1 DEF Restorable
    <2> QED
        BY <2>2, <2>3
<1>10. ASSUME ~blurred', NEW q \in Procs \ {p}, NEW b \in Agents, at[q] # "idle",
              <<root[q], b>> \in T
       PROVE  ScriptKnown(q, b)' /\ (OwnsProject(q)' => Restorable(q, b)')
    <2>1. ~OwnsProject(q)' /\ root'[q] = root[p] /\ b = a
        BY <1>1, <1>10, OneMigration DEF OwnsProject
    <2> QED
        BY <1>7, <1>10, <2>1 DEF ScriptKnown, OwnsProject
<1>11. ScriptsInPlace' /\ RestoreReady'
    <2> HIDE DEF T
    <2> QED
        BY <1>1, <1>5, <1>6, <1>8, <1>9, <1>10, StepFrame DEF ScriptsInv
<1> QED
    BY <1>4, <1>11 DEF ScriptsInv

\* A script that an upgrade writes serves whoever refers to it.
LEMMA UpgradeScriptReady ==
    ASSUME LockInv, DocsInv, ScriptsInv, NEW p \in Procs, NEW a \in Agents, Others(p),
           UpgradeScript(p, a)
    PROVE  ScriptsInv'
<1>1. /\ at[p] = "scripts" /\ a \in scriptsLeft[p] /\ root[p] \in Roots
      /\ scripts' = [scripts EXCEPT ![root[p]][a] = TRUE]
      /\ scriptsLeft' = [scriptsLeft EXCEPT ![p] = @ \ {a}]
      /\ at' = [at EXCEPT ![p] = IF scriptsLeft[p] = {a} THEN "merge" ELSE "scripts"]
      /\ UNCHANGED <<docs, root, snap, docsLeft, read, wrote, moved, conflict, edits, blurred>>
    BY DEF UpgradeScript, Go, Bounds, LockInv, CallsTyped
<1>2. /\ scripts' \in [Roots -> [Agents -> BOOLEAN]]
      /\ \A s \in Roots, c \in Agents :
             scripts'[s][c] = IF s = root[p] /\ c = a THEN TRUE ELSE scripts[s][c]
    BY <1>1 DEF ScriptsInv, ScriptsTyped
<1>3. /\ scriptsLeft'[p] = scriptsLeft[p] \ {a} /\ at'[p] \in {"merge", "scripts"}
      /\ at'[p] = "merge" => scriptsLeft[p] = {a}
    BY <1>1 DEF ScriptsInv, ScriptsTyped, LockInv, CallsTyped
<1>4. ScriptsTyped'
    BY <1>1, <1>2 DEF ScriptsInv, ScriptsTyped, LockInv, CallsTyped
<1> DEFINE T == {<<root[p], a>>}
<1>5. T \in SUBSET (Roots \X Agents)
    BY <1>1
<1>6. \A r \in Roots, b \in Agents : PutBack(r, b) => PutBack(r, b)'
    BY <1>1 DEF PutBack, Others
<1>7. \A r \in Roots, b \in Agents : <<r, b>> \notin T =>
          /\ docs'[r][b] = docs[r][b] /\ scripts'[r][b] = scripts[r][b]
          /\ ~blurred' /\ PutBack(r, b) => PutBack(r, b)'
    BY <1>1, <1>2, <1>6
<1>8. ASSUME NEW r \in Roots, NEW b \in Agents, <<r, b>> \in T PROVE Served(r, b)'
    BY <1>1, <1>2, <1>8 DEF Served
<1>9. ASSUME ~blurred', NEW b \in Agents
      PROVE  ScriptKnown(p, b)' /\ (OwnsProject(p)' => Restorable(p, b)')
    <2>1. ScriptKnown(p, b)
        BY <1>1, <1>9 DEF ScriptsInv, ScriptsInPlace
    <2>2. CASE b = a
        BY <1>1, <1>2, <1>3, <2>2 DEF ScriptKnown, OwnsProject
    <2>3. CASE b # a
        BY <1>1, <1>2, <1>3, <1>6, <2>1, <2>3 DEF ScriptKnown, OwnsProject
    <2> QED
        BY <2>2, <2>3
<1>10. ASSUME ~blurred', NEW q \in Procs \ {p}, NEW b \in Agents, at[q] # "idle",
              <<root[q], b>> \in T
       PROVE  ScriptKnown(q, b)' /\ (OwnsProject(q)' => Restorable(q, b)')
    <2>1. scripts'[root[q]][b] /\ root'[q] = root[q] /\ root[q] = root[p] /\ b = a
        BY <1>1, <1>2, <1>10
    <2>2. ScriptKnown(q, b) /\ (OwnsProject(q) => Restorable(q, b))
        BY <1>1, <1>10 DEF ScriptsInv, ScriptsInPlace, RestoreReady
    <2>3. ScriptKnown(q, b)'
        BY <1>1, <2>1, <2>2 DEF ScriptKnown, OwnsProject, Others
    <2>4. OwnsProject(q)' => Restorable(q, b)'
        BY <1>1, <2>1, <2>2 DEF Restorable, OwnsProject, Others
    <2> QED
        BY <2>3, <2>4
<1>11. ScriptsInPlace' /\ RestoreReady'
    <2> HIDE DEF T
    <2> QED
        BY <1>1, <1>5, <1>7, <1>8, <1>9, <1>10, StepFrame DEF ScriptsInv
<1> QED
    BY <1>4, <1>11 DEF ScriptsInv

\* A script that is put back is no longer on the list of what to put back.
LEMMA RestoreScriptReady ==
    ASSUME LockInv, DocsInv, ScriptsInv, NEW p \in Procs, Others(p), RestoreScript(p)
    PROVE  ScriptsInv'
<1>1. PICK a \in moved[p] :
          /\ \/ scripts' = [scripts EXCEPT ![root[p]][a] = TRUE] /\ UNCHANGED conflict
             \/ /\ scripts[root[p]][a] /\ UNCHANGED scripts
                /\ conflict' = [conflict EXCEPT ![p] = TRUE]
          /\ moved' = [moved EXCEPT ![p] = @ \ {a}]
    BY DEF RestoreScript
<1>2. /\ at[p] = "restore" /\ a \in Agents /\ root[p] \in Roots /\ OwnsProject(p)
      /\ UNCHANGED <<docs, root, at, snap, docsLeft, scriptsLeft, read, wrote, edits, blurred>>
    BY DEF RestoreScript, Bounds, LockInv, CallsTyped, OwnsProject, ScriptsInv, ScriptsTyped
<1>3. /\ scripts' \in [Roots -> [Agents -> BOOLEAN]]
      /\ \A s \in Roots, c \in Agents :
             scripts'[s][c] = IF s = root[p] /\ c = a THEN TRUE ELSE scripts[s][c]
    <2>1. CASE scripts' = [scripts EXCEPT ![root[p]][a] = TRUE]
        BY <1>2, <2>1 DEF ScriptsInv, ScriptsTyped
    <2>2. CASE scripts[root[p]][a] /\ UNCHANGED scripts
        <3>1. scripts[root[p]][a] = TRUE
            BY <1>2, <2>2 DEF ScriptsInv, ScriptsTyped
        <3> QED
            BY <2>2, <3>1 DEF ScriptsInv, ScriptsTyped
    <2> QED
        BY <1>1, <2>1, <2>2
<1>4. /\ moved'[p] = moved[p] \ {a} /\ conflict' \in [Procs -> BOOLEAN]
      /\ conflict[p] => conflict'[p]
    BY <1>1 DEF ScriptsInv, ScriptsTyped
<1>5. ScriptsTyped'
    BY <1>1, <1>2, <1>3, <1>4 DEF ScriptsInv, ScriptsTyped
<1> DEFINE T == {<<root[p], a>>}
<1>6. T \in SUBSET (Roots \X Agents)
    BY <1>2
<1>7. ASSUME NEW r \in Roots, NEW b \in Agents, <<r, b>> \notin T, PutBack(r, b)
      PROVE  PutBack(r, b)'
    <2>1. PICK q \in Procs : at[q] = "restore" /\ root[q] = r /\ b \in moved[q]
        BY <1>7 DEF PutBack
    <2>2. b \in moved'[q]
        BY <1>4, <1>7, <2>1 DEF Others
    <2> QED
        BY <1>2, <2>1, <2>2 DEF PutBack
<1>8. \A r \in Roots, b \in Agents : <<r, b>> \notin T =>
          /\ docs'[r][b] = docs[r][b] /\ scripts'[r][b] = scripts[r][b]
          /\ ~blurred' /\ PutBack(r, b) => PutBack(r, b)'
    BY <1>2, <1>3, <1>7
<1>9. ASSUME NEW r \in Roots, NEW b \in Agents, <<r, b>> \in T PROVE Served(r, b)'
    BY <1>2, <1>3, <1>9 DEF Served
<1>10. ASSUME ~blurred', NEW b \in Agents
       PROVE  ScriptKnown(p, b)' /\ (OwnsProject(p)' => Restorable(p, b)')
    <2>1. ScriptKnown(p, b) /\ Restorable(p, b)
        BY <1>2, <1>10 DEF ScriptsInv, ScriptsInPlace, RestoreReady
    <2>2. ScriptKnown(p, b)'
        BY <1>2, <1>3, <1>4, <2>1 DEF ScriptKnown, OwnsProject
    <2>3. Restorable(p, b)'
        BY <1>2, <1>3, <1>4, <2>1 DEF Restorable
    <2> QED
        BY <2>2, <2>3
<1>11. ASSUME ~blurred', NEW q \in Procs \ {p}, NEW b \in Agents, at[q] # "idle",
              <<root[q], b>> \in T
       PROVE  ScriptKnown(q, b)' /\ (OwnsProject(q)' => Restorable(q, b)')
    <2>1. ~OwnsProject(q)' /\ root'[q] = root[p] /\ b = a
        BY <1>2, <1>11, OneMigration DEF OwnsProject
    <2> QED
        BY <1>2, <1>3, <2>1 DEF ScriptKnown, OwnsProject
<1>12. ScriptsInPlace' /\ RestoreReady'
    <2> HIDE DEF T
    <2> QED
        BY <1>2, <1>6, <1>8, <1>9, <1>10, <1>11, StepFrame DEF ScriptsInv
<1> QED
    BY <1>5, <1>12 DEF ScriptsInv

\* A document that is put back has its script, or finds it on the list.
LEMMA RestoreDocReady ==
    ASSUME LockInv, DocsInv, ScriptsInv, NEW p \in Procs, Others(p), RestoreDoc(p)
    PROVE  ScriptsInv'
<1>1. PICK w \in wrote[p] :
          /\ \/ /\ docs[root[p]][w[1]] = w[2] /\ UNCHANGED conflict
                /\ docs' = [docs EXCEPT ![root[p]][w[1]] = snap[p].docs[w[1]]]
             \/ UNCHANGED docs /\ conflict' = [conflict EXCEPT ![p] = TRUE]
          /\ wrote' = [wrote EXCEPT ![p] = @ \ {w}]
    BY DEF RestoreDoc
<1> DEFINE a == w[1]
<1> DEFINE T == {<<root[p], a>>}
<1>2. /\ at[p] = "restore" /\ root[p] \in Roots /\ OwnsProject(p)
      /\ UNCHANGED <<scripts, root, at, snap, docsLeft, scriptsLeft, read, moved, edits, blurred>>
    BY DEF RestoreDoc, Bounds, LockInv, CallsTyped, OwnsProject
<1>3. /\ a \in Agents /\ w = <<a, w[2]>> /\ snap[p].docs[a] \in Docs
      /\ wrote'[p] = wrote[p] \ {w}
    BY <1>1 DEF DocsInv, FilesTyped
<1>4. /\ conflict' \in [Procs -> BOOLEAN] /\ (conflict[p] => conflict'[p])
      /\ ~conflict'[p] => /\ docs[root[p]][a] = w[2]
                          /\ docs' = [docs EXCEPT ![root[p]][a] = snap[p].docs[a]]
    BY <1>1 DEF ScriptsInv, ScriptsTyped
<1>5. \A s \in Roots, b \in Agents :
          docs'[s][b] = docs[s][b] \/ (s = root[p] /\ b = a /\ docs'[s][b] = snap[p].docs[a])
    <2>1. CASE UNCHANGED docs
        BY <2>1
    <2>2. CASE docs' = [docs EXCEPT ![root[p]][a] = snap[p].docs[a]]
        BY <1>2, <1>3, <2>2, OneDocument DEF DocsInv, FilesTyped
    <2> QED
        BY <1>1, <2>1, <2>2
<1>6. ~conflict'[p] => docs'[root[p]][a] = snap[p].docs[a]
    BY <1>2, <1>3, <1>4, OneDocument DEF DocsInv, FilesTyped
<1> HIDE DEF a
<1>7. ScriptsTyped'
    <2>1. \A s \in Roots, b \in Agents : docs'[s][b].edit <= edits'
        BY <1>2, <1>3, <1>5 DEF ScriptsInv, ScriptsTyped
    <2>2. \A q \in Procs : at'[q] \in {"select", "lock", "prepare", "remove", "relock"}
              => wrote'[q] = {} /\ moved'[q] = {} /\ scriptsLeft'[q] = {}
        BY <1>2 DEF ScriptsInv, ScriptsTyped, Others
    <2> QED
        BY <1>2, <1>4, <2>1, <2>2 DEF ScriptsInv, ScriptsTyped
<1>8. ASSUME ~blurred' PROVE scripts[root[p]][a] \/ a \in moved[p]
    <2>1. ScriptKnown(p, a)
        BY <1>2, <1>3, <1>8 DEF ScriptsInv, ScriptsInPlace
    <2>2. \E v \in wrote[p] : v[1] = a
        BY <1>1 DEF a
    <2> QED
        BY <1>2, <2>1, <2>2 DEF ScriptKnown
<1>9. T \in SUBSET (Roots \X Agents)
    BY <1>2, <1>3
<1>10. \A r \in Roots, b \in Agents : PutBack(r, b) => PutBack(r, b)'
    BY <1>2 DEF PutBack
<1>11. \A r \in Roots, b \in Agents : <<r, b>> \notin T =>
          /\ docs'[r][b] = docs[r][b] /\ scripts'[r][b] = scripts[r][b]
          /\ ~blurred' /\ PutBack(r, b) => PutBack(r, b)'
    BY <1>2, <1>5, <1>10
<1>12. ASSUME ~blurred' PROVE scripts'[root[p]][a] \/ PutBack(root[p], a)'
    BY <1>2, <1>8, <1>12 DEF PutBack
<1>13. ASSUME ~blurred', NEW r \in Roots, NEW b \in Agents, <<r, b>> \in T PROVE Served(r, b)'
    BY <1>2, <1>12, <1>13 DEF Served
<1>14. ASSUME ~blurred', NEW b \in Agents
       PROVE  ScriptKnown(p, b)' /\ (OwnsProject(p)' => Restorable(p, b)')
    <2>1. ScriptKnown(p, b) /\ Restorable(p, b)
        BY <1>2, <1>14 DEF ScriptsInv, ScriptsInPlace, RestoreReady
    <2>2. ScriptKnown(p, b)'
        BY <1>2, <1>3, <2>1 DEF ScriptKnown, OwnsProject
    <2>3. Restorable(p, b)'
        <3>1. \A v \in wrote'[p] : v[1] = b => v[2].edit = snap'[p].docs[b].edit
            BY <1>2, <1>3, <2>1 DEF Restorable
        <3>2. ASSUME ~conflict'[p] PROVE snap'[p].scripts[b] => scripts'[root[p]][b] \/ b \in moved'[p]
            BY <1>2, <1>4, <2>1, <3>2 DEF Restorable
        <3>3. ASSUME ~conflict'[p], docs'[root[p]][b].edit = snap'[p].docs[b].edit
              PROVE  \/ docs'[root[p]][b] = snap'[p].docs[b]
                     \/ <<b, docs'[root[p]][b]>> \in wrote'[p]
            <4>1. CASE b = a
                BY <1>2, <1>6, <3>3, <4>1
            <4>2. CASE b # a
                <5>1. docs'[root[p]][b] = docs[root[p]][b] /\ <<b, docs[root[p]][b]>> # w
                    BY <1>2, <1>3, <1>5, <4>2
                <5> QED
                    BY <1>2, <1>3, <1>4, <2>1, <3>3, <5>1 DEF Restorable
            <4> QED
                BY <4>1, <4>2
        <3> QED
            BY <1>2, <3>1, <3>2, <3>3 DEF Restorable
    <2> QED
        BY <2>2, <2>3
<1>15. ASSUME ~blurred', NEW q \in Procs \ {p}, NEW b \in Agents, at[q] # "idle",
              <<root[q], b>> \in T
       PROVE  ScriptKnown(q, b)' /\ (OwnsProject(q)' => Restorable(q, b)')
    <2>1. ~OwnsProject(q)' /\ root'[q] = root[p] /\ b = a
        BY <1>2, <1>15, OneMigration DEF OwnsProject
    <2> QED
        BY <1>2, <1>12, <1>15, <2>1 DEF ScriptKnown, OwnsProject
<1>16. ScriptsInPlace' /\ RestoreReady'
    <2> HIDE DEF T
    <2> QED
        BY <1>2, <1>9, <1>11, <1>13, <1>14, <1>15, StepFrame DEF ScriptsInv
<1> QED
    BY <1>7, <1>16 DEF ScriptsInv

\* A document is written clean, and the migration remembers it; its script was there.
LEMMA WriteDocReady ==
    ASSUME LockInv, DocsInv, ScriptsInv, NEW p \in Procs, Others(p), WriteDoc(p)
    PROVE  ScriptsInv'
<1> DEFINE d == Cleaned(read[p].doc)
<1>1. PICK a \in read[p].agents :
          /\ docs' = [docs EXCEPT ![root[p]][a] = d]
          /\ wrote' = [wrote EXCEPT ![p] = @ \cup {<<a, d>>}]
          /\ scriptsLeft' = [scriptsLeft EXCEPT ![p] = @ \cup {a}]
    BY DEF WriteDoc
<1> DEFINE T == {<<root[p], a>>}
<1>2. /\ at[p] = "write" /\ at'[p] = "archive" /\ root[p] \in Roots /\ OwnsProject(p)
      /\ read' = [read EXCEPT ![p].agents = {}]
      /\ UNCHANGED <<scripts, root, snap, docsLeft, moved, conflict, edits, blurred>>
    BY DEF WriteDoc, Go, Bounds, LockInv, CallsTyped, OwnsProject
<1>3. /\ a \in Agents /\ d \in Docs /\ d.kind = "clean" /\ d.edit = read[p].doc.edit
      /\ read[p].agents = {a}
    <2>1. a \in Agents /\ read[p].doc \in Docs /\ read[p].agents = {a}
        BY <1>1 DEF DocsInv, FilesTyped
    <2> QED
        BY <2>1, CleanedIsClean
<1>4. \A s \in Roots, b \in Agents :
          docs'[s][b] = IF s = root[p] /\ b = a THEN d ELSE docs[s][b]
    BY <1>1, <1>2, <1>3, OneDocument DEF DocsInv, FilesTyped
<1>5. /\ wrote'[p] = wrote[p] \cup {<<a, d>>} /\ scriptsLeft'[p] = scriptsLeft[p] \cup {a}
      /\ scriptsLeft' \in [Procs -> SUBSET Agents]
      /\ read'[p].agents = {} /\ \A q \in Procs : read'[q].doc = read[q].doc
    BY <1>1, <1>2, <1>3 DEF DocsInv, FilesTyped, ScriptsInv, ScriptsTyped
<1> HIDE DEF d
<1>6. ScriptsTyped'
    <2>1. \A s \in Roots, b \in Agents : docs'[s][b].edit <= edits'
        BY <1>2, <1>3, <1>4 DEF ScriptsInv, ScriptsTyped
    <2>2. \A q \in Procs : at'[q] \in {"select", "lock", "prepare", "remove", "relock"}
              => wrote'[q] = {} /\ moved'[q] = {} /\ scriptsLeft'[q] = {}
        BY <1>2 DEF ScriptsInv, ScriptsTyped, Others
    <2> QED
        BY <1>2, <1>5, <2>1, <2>2 DEF ScriptsInv, ScriptsTyped
<1>7. T \in SUBSET (Roots \X Agents)
    BY <1>2, <1>3
<1>8. \A r \in Roots, b \in Agents : PutBack(r, b) => PutBack(r, b)'
    BY <1>2 DEF PutBack, Others
<1>9. \A r \in Roots, b \in Agents : <<r, b>> \notin T =>
          /\ docs'[r][b] = docs[r][b] /\ scripts'[r][b] = scripts[r][b]
          /\ ~blurred' /\ PutBack(r, b) => PutBack(r, b)'
    BY <1>2, <1>4, <1>8
<1>10. ASSUME NEW r \in Roots, NEW b \in Agents, <<r, b>> \in T PROVE Served(r, b)'
    BY <1>2, <1>3, <1>4, <1>10 DEF Served
<1>11. ASSUME ~blurred', NEW b \in Agents
       PROVE  ScriptKnown(p, b)' /\ (OwnsProject(p)' => Restorable(p, b)')
    <2>1. /\ ScriptKnown(p, b) /\ Restorable(p, b) /\ ScriptKnown(p, a) /\ Restorable(p, a)
        BY <1>2, <1>3, <1>11 DEF ScriptsInv, ScriptsInPlace, RestoreReady
    <2>2. scripts[root[p]][a] /\ a \notin docsLeft[p] /\ read[p].doc = snap[p].docs[a]
        BY <1>2, <1>3, <2>1 DEF ScriptKnown, Restorable
    <2>3. ScriptKnown(p, b)'
        <3>1. CASE b = a
            BY <1>2, <1>3, <1>4, <1>5, <2>2, <3>1 DEF ScriptKnown
        <3>2. CASE b # a
            BY <1>2, <1>4, <1>5, <2>1, <3>2 DEF ScriptKnown, OwnsProject
        <3> QED
            BY <3>1, <3>2
    <2>4. Restorable(p, b)'
        <3>1. CASE b = a
            BY <1>2, <1>3, <1>4, <1>5, <2>1, <2>2, <3>1 DEF Restorable
        <3>2. CASE b # a
            BY <1>2, <1>4, <1>5, <2>1, <3>2 DEF Restorable
        <3> QED
            BY <3>1, <3>2
    <2> QED
        BY <2>3, <2>4
<1>12. ASSUME ~blurred', NEW q \in Procs \ {p}, NEW b \in Agents, at[q] # "idle",
              <<root[q], b>> \in T
       PROVE  ScriptKnown(q, b)' /\ (OwnsProject(q)' => Restorable(q, b)')
    <2>1. ~OwnsProject(q)' /\ root'[q] = root[p] /\ b = a
        BY <1>2, <1>12, OneMigration DEF OwnsProject, Others
    <2> QED
        BY <1>2, <1>3, <1>4, <2>1 DEF ScriptKnown, OwnsProject
<1>13. ScriptsInPlace' /\ RestoreReady'
    <2> HIDE DEF T
    <2> QED
        BY <1>2, <1>7, <1>9, <1>10, <1>11, <1>12, StepFrame DEF ScriptsInv
<1> QED
    BY <1>6, <1>13 DEF ScriptsInv

\* What a failing migration wrote, or was about to write, stays on its lists; a write that
\* took effect and failed blurs what there is.
LEMMA FailReady ==
    ASSUME LockInv, DocsInv, ScriptsInv, NEW p \in Procs, Others(p), Fail(p)
    PROVE  ScriptsInv'
<1>1. /\ at[p] \in {"archive", "write"} /\ at'[p] = "restore" /\ root[p] \in Roots
      /\ UNCHANGED <<scripts, root, snap, docsLeft, scriptsLeft, read, wrote, moved, conflict, edits>>
    BY DEF Fail, Go, LockInv, CallsTyped
<1>2. \A q \in Procs : at'[q] \in {"select", "lock", "prepare", "remove", "relock"}
          => wrote'[q] = {} /\ moved'[q] = {} /\ scriptsLeft'[q] = {}
    BY <1>1 DEF ScriptsInv, ScriptsTyped, Others
<1>3. CASE UNCHANGED <<docs, blurred>>
    <2>1. ScriptsTyped'
        BY <1>1, <1>2, <1>3 DEF ScriptsInv, ScriptsTyped
    <2>2. ASSUME ~blurred', NEW b \in Agents PROVE ScriptKnown(p, b)' /\ Restorable(p, b)'
        <3>1. ScriptKnown(p, b) /\ Restorable(p, b) /\ OwnsProject(p)
            BY <1>1, <1>3, <2>2 DEF ScriptsInv, ScriptsInPlace, RestoreReady, OwnsProject
        <3>2. ScriptKnown(p, b)'
            BY <1>1, <3>1 DEF ScriptKnown
        <3>3. Restorable(p, b)'
            BY <1>1, <1>3, <3>1 DEF Restorable
        <3> QED
            BY <3>2, <3>3
    <2>3. ScriptsInPlace' /\ RestoreReady'
        BY <1>1, <1>3, <2>2, QuietStep DEF ScriptsInv, files
    <2> QED
        BY <2>1, <2>3 DEF ScriptsInv
<1>4. ASSUME NEW a \in read[p].agents, blurred' = TRUE,
             docs' = [docs EXCEPT ![root[p]][a] = Cleaned(read[p].doc)]
      PROVE  ScriptsInv'
    <2>1. /\ a \in Agents /\ Cleaned(read[p].doc) \in Docs
          /\ Cleaned(read[p].doc).edit = read[p].doc.edit
        BY CleanedIsClean DEF DocsInv, FilesTyped
    <2>2. \A s \in Roots, b \in Agents :
              docs'[s][b] = IF s = root[p] /\ b = a THEN Cleaned(read[p].doc) ELSE docs[s][b]
        BY <1>1, <1>4, <2>1, OneDocument DEF DocsInv, FilesTyped
    <2>3. \A s \in Roots, b \in Agents : docs'[s][b].edit <= edits'
        BY <1>1, <2>1, <2>2 DEF ScriptsInv, ScriptsTyped
    <2>4. ScriptsTyped'
        BY <1>1, <1>2, <1>4, <2>3 DEF ScriptsInv, ScriptsTyped
    <2> QED
        BY <1>4, <2>4 DEF ScriptsInv, ScriptsInPlace, RestoreReady
<1> QED
    BY <1>3, <1>4 DEF Fail

\* A document that somebody replaces beside the migrations: its new content has the number
\* of a new edit, is no less clean, and is not what anybody has looked at.
LEMMA NewEdit ==
    ASSUME LockInv, DocsInv, ScriptsInv, NEW p \in Procs \cup {NoProc}, Others(p),
           NEW r \in Roots, NEW a \in Agents, NEW d \in Docs,
           docs' = [docs EXCEPT ![r][a] = d], d.edit = edits + 1, edits' = edits + 1,
           UNCHANGED <<scripts, root, snap, scriptsLeft, moved, wrote, conflict>>,
           blurred' \in BOOLEAN,
           ~blurred' =>
               /\ ~blurred /\ ~Watched(r, a, p)
               /\ docs[r][a].kind = "clean" => d.kind = "clean"
               /\ d.kind = "legacy" => scripts[r][a] \/ PutBack(r, a)
               /\ p \in Procs => at[p] = "replace" /\ root[p] = r,
           p \in Procs => at'[p] = "merge",
           \A q \in Procs : read'[q].doc = read[q].doc
    PROVE  ScriptsInv'
<1>1. \A s \in Roots, b \in Agents : docs'[s][b] = IF s = r /\ b = a THEN d ELSE docs[s][b]
    BY OneDocument DEF DocsInv, FilesTyped
<1>2. edits \in Nat /\ \A s \in Roots, b \in Agents : docs[s][b].edit \in Nat
    BY DEF DocsInv, FilesTyped, Docs
<1>3. \A q \in Procs, b \in Agents : snap[q].docs[b].edit \in Nat /\ read[q].doc.edit \in Nat
    BY DEF DocsInv, FilesTyped, Docs
<1>4. ScriptsTyped'
    <2>1. \A s \in Roots, b \in Agents : docs'[s][b].edit <= edits'
        BY <1>1, <1>2 DEF ScriptsInv, ScriptsTyped
    <2>2. \A q \in Procs : /\ \A b \in Agents : snap[q].docs[b].edit <= edits'
                           /\ read'[q].doc.edit <= edits'
        <3>1. ASSUME NEW q \in Procs, NEW b \in Agents
              PROVE  snap[q].docs[b].edit <= edits'
            BY <1>2, <1>3 DEF ScriptsInv, ScriptsTyped
        <3>2. ASSUME NEW q \in Procs PROVE read'[q].doc.edit <= edits'
            <4>1. read[q].doc.edit \in Nat /\ read[q].doc.edit <= edits
                BY DEF ScriptsInv, ScriptsTyped, DocsInv, FilesTyped, Docs
            <4> QED
                BY <1>2, <4>1
        <3> QED
            BY <3>1, <3>2
    <2>3. \A q \in Procs : at'[q] \in {"select", "lock", "prepare", "remove", "relock"}
              => wrote'[q] = {} /\ moved'[q] = {} /\ scriptsLeft'[q] = {}
        BY DEF ScriptsInv, ScriptsTyped, Others
    <2> QED
        BY <2>1, <2>2, <2>3 DEF ScriptsInv, ScriptsTyped
<1> DEFINE T == {<<r, a>>}
<1>5. T \in SUBSET (Roots \X Agents)
    OBVIOUS
<1>6. ASSUME ~blurred', NEW s \in Roots, NEW b \in Agents, PutBack(s, b) PROVE PutBack(s, b)'
    <2>1. PICK q \in Procs : at[q] = "restore" /\ root[q] = s /\ b \in moved[q]
        BY <1>6 DEF PutBack
    <2>2. at'[q] = "restore"
        BY <1>6, <2>1 DEF Others
    <2> QED
        BY <2>1, <2>2 DEF PutBack
<1>7. \A s \in Roots, b \in Agents : <<s, b>> \notin T =>
          /\ docs'[s][b] = docs[s][b] /\ scripts'[s][b] = scripts[s][b]
          /\ ~blurred' /\ PutBack(s, b) => PutBack(s, b)'
    BY <1>1, <1>6
<1>8. ASSUME ~blurred', NEW s \in Roots, NEW b \in Agents, <<s, b>> \in T PROVE Served(s, b)'
    BY <1>1, <1>6, <1>8 DEF Served
<1>9. ASSUME ~blurred', NEW b \in Agents, p \in Procs
      PROVE  ScriptKnown(p, b)' /\ (OwnsProject(p)' => Restorable(p, b)')
    <2>1. ScriptKnown(p, b) /\ at[p] = "replace" /\ root[p] = r /\ at'[p] = "merge"
        BY <1>9 DEF ScriptsInv, ScriptsInPlace
    <2>2. scripts[r][b] \/ docs[r][b].kind = "clean" \/ PutBack(r, b)
        BY <2>1 DEF ScriptKnown
    <2>3. docs[r][b].kind = "clean" => docs'[r][b].kind = "clean"
        BY <1>1, <1>9
    <2>4. scripts'[r][b] \/ docs'[r][b].kind = "clean" \/ PutBack(r, b)'
        BY <1>6, <1>9, <2>2, <2>3
    <2> QED
        BY <2>1, <2>4 DEF ScriptKnown, OwnsProject
<1>10. ASSUME ~blurred', NEW q \in Procs \ {p}, NEW b \in Agents, at[q] # "idle",
              <<root[q], b>> \in T
       PROVE  ScriptKnown(q, b)' /\ (OwnsProject(q)' => Restorable(q, b)')
    <2>1. ScriptKnown(q, b) /\ root[q] = r /\ b = a /\ docs'[r][a] = d
        BY <1>1, <1>10 DEF ScriptsInv, ScriptsInPlace
    <2>2. PutBack(r, a) => PutBack(r, a)'
        BY <1>6, <1>10
    <2>3. at[q] \in {"archive", "write"} => a \notin docsLeft[q] \cup read[q].agents
        BY <1>10, <2>1 DEF Watched
    <2>4. ScriptKnown(q, b)'
        BY <1>10, <2>1, <2>2, <2>3 DEF ScriptKnown, OwnsProject, Others
    <2>5. ASSUME OwnsProject(q)' PROVE Restorable(q, b)'
        <3>1. Restorable(q, b)
            BY <1>10, <2>5 DEF ScriptsInv, RestoreReady, OwnsProject, Others
        <3>2. d.edit # snap[q].docs[a].edit
            BY <1>2, <1>3 DEF ScriptsInv, ScriptsTyped
        <3> QED
            BY <2>1, <2>3, <3>1, <3>2 DEF Restorable, Others
    <2> QED
        BY <2>4, <2>5
<1>11. ScriptsInPlace' /\ RestoreReady'
    <2> HIDE DEF T
    <2> QED
        BY <1>5, <1>7, <1>8, <1>9, <1>10, StepFrame DEF ScriptsInv
<1> QED
    BY <1>4, <1>11 DEF ScriptsInv

\* An upgrade that completes a document has written its script before.
LEMMA UpgradeWritesReady ==
    ASSUME LockInv, DocsInv, ScriptsInv, NEW p \in Procs, Others(p), UpgradeWrites(p)
    PROVE  ScriptsInv'
<1> DEFINE d == Gated(read[p].doc)
<1>1. PICK a \in read[p].agents :
          /\ docs' = [docs EXCEPT ![root[p]][a] = d]
          /\ blurred' = (blurred \/ docs[root[p]][a] # read[p].doc \/ Watched(root[p], a, p))
    BY DEF UpgradeWrites
<1>2. /\ at[p] = "replace" /\ at'[p] = "merge" /\ root[p] \in Roots /\ edits' = edits + 1
      /\ read' = [read EXCEPT ![p].agents = {}]
      /\ UNCHANGED <<scripts, root, snap, scriptsLeft, moved, wrote, conflict>>
    BY DEF UpgradeWrites, Go, LockInv, CallsTyped
<1>3. /\ a \in Agents /\ d \in Docs /\ d.edit = edits + 1
      /\ d.kind = IF read[p].doc.kind = "missing" THEN "legacy" ELSE read[p].doc.kind
    BY <1>1 DEF Gated, Docs, DocsInv, FilesTyped
<1> HIDE DEF d
<1>4. \A q \in Procs : read'[q].doc = read[q].doc
    BY <1>2 DEF DocsInv, FilesTyped
<1>5. blurred' \in BOOLEAN
    BY <1>1 DEF ScriptsInv, ScriptsTyped
<1>6. ASSUME ~blurred'
      PROVE  /\ ~blurred /\ ~Watched(root[p], a, p)
             /\ docs[root[p]][a].kind = "clean" => d.kind = "clean"
             /\ d.kind = "legacy" => scripts[root[p]][a] \/ PutBack(root[p], a)
    <2>1. ~blurred /\ ~Watched(root[p], a, p) /\ docs[root[p]][a] = read[p].doc
        BY <1>1, <1>6
    <2>2. scripts[root[p]][a] \/ docs[root[p]][a].kind = "clean" \/ PutBack(root[p], a)
        BY <1>2, <1>3, <2>1 DEF ScriptsInv, ScriptsInPlace, ScriptKnown
    <2> QED
        BY <1>3, <2>1, <2>2
<1> QED
    BY <1>1, <1>2, <1>3, <1>4, <1>5, <1>6, NewEdit

\* An edit keeps the entries a document has and adds none.
LEMMA EditReady ==
    ASSUME LockInv, DocsInv, ScriptsInv, NEW r \in Legacy, NEW a \in Agents, Edit(r, a)
    PROVE  ScriptsInv'
<1> DEFINE d == [kind |-> IF docs[r][a].kind = "missing" THEN "clean" ELSE docs[r][a].kind,
                 edit |-> edits + 1]
<1>1. /\ docs' = [docs EXCEPT ![r][a] = d] /\ edits' = edits + 1 /\ r \in Roots
      /\ blurred' = (blurred \/ Watched(r, a, NoProc))
      /\ UNCHANGED <<scripts, call>>
    BY NamesAssumption DEF Edit, DocsInv, FilesTyped
<1>2. /\ d \in Docs /\ d.edit = edits + 1
      /\ docs[r][a].kind = "clean" => d.kind = "clean"
      /\ d.kind = "legacy" => docs[r][a].kind = "legacy"
    BY <1>1 DEF Docs, DocsInv, FilesTyped
<1> HIDE DEF d
<1>3. blurred' \in BOOLEAN
    BY <1>1 DEF ScriptsInv, ScriptsTyped
<1>4. Others(NoProc) /\ NoProc \notin Procs
    BY <1>1, NamesAssumption DEF Others, call
<1>5. ASSUME ~blurred'
      PROVE  /\ ~blurred /\ ~Watched(r, a, NoProc)
             /\ d.kind = "legacy" => scripts[r][a] \/ PutBack(r, a)
    <2>1. ~blurred /\ ~Watched(r, a, NoProc)
        BY <1>1, <1>5
    <2> QED
        BY <1>1, <1>2, <2>1 DEF ScriptsInv, ScriptsInPlace, Served
<1>6. /\ UNCHANGED <<root, snap, scriptsLeft, moved, wrote, conflict>>
      /\ \A q \in Procs : read'[q].doc = read[q].doc
    BY <1>1 DEF call
<1> QED
    BY <1>1, <1>2, <1>3, <1>4, <1>5, <1>6, NewEdit

\* Every step preserves what there is to know of the scripts and of the way back.
LEMMA NextScriptsInv == LockInv /\ DocsInv /\ ScriptsInv /\ [Next]_vars => ScriptsInv'
<1> SUFFICES ASSUME LockInv, DocsInv, ScriptsInv, [Next]_vars PROVE ScriptsInv'
    OBVIOUS
<1>1. CASE UNCHANGED vars
    BY <1>1 DEF vars, call, files, ScriptsInv, ScriptsTyped, ScriptsInPlace, RestoreReady,
        Served, ScriptKnown, Restorable, PutBack, OwnsProject
<1>2. ASSUME NEW p \in Procs, ProcStep(p) PROVE ScriptsInv'
    <2>1. Others(p)
        BY <1>2, OthersAlone DEF ScriptsInv
    <2>2. CASE Look(p) \/ Register(p) \/ Remove(p) \/ Undo(p) \/ UndoFails(p) \/ Select(p)
                  \/ UnregisterLocks(p) \/ Archived(p) \/ Restored(p) \/ FailAgain(p)
                  \/ Upgraded(p) \/ Crash(p)
        BY <2>1, <2>2, RegistryTyped, RegistryReady DEF ScriptsInv
    <2>3. CASE Prepare(p) \/ ApplyLocks(p) \/ \E o \in Ops, r \in Roots : Start(p, o, r)
        BY <2>1, <2>3, LooksTyped, StartsReady DEF ScriptsInv
    <2>4. ASSUME NEW a \in Agents, ReadDoc(p, a) \/ UpgradeReads(p, a) PROVE ScriptsInv'
        BY <2>1, <2>4, LooksTyped, ReadDocReady, UpgradeReadsReady DEF ScriptsInv
    <2>5. ASSUME NEW a \in Agents, MoveScript(p, a) \/ UpgradeScript(p, a) PROVE ScriptsInv'
        BY <2>1, <2>5, MoveScriptReady, UpgradeScriptReady
    <2>6. CASE WriteDoc(p) \/ RestoreDoc(p) \/ RestoreScript(p) \/ Fail(p) \/ UpgradeWrites(p)
        BY <2>1, <2>6, WriteDocReady, RestoreDocReady, RestoreScriptReady, FailReady,
            UpgradeWritesReady
    <2> QED
        BY <1>2, <2>2, <2>3, <2>4, <2>5, <2>6
            DEF ProcStep, Step, RegistryStep, MigrationStep, UpgradeStep
<1> QED
    BY <1>1, <1>2, EditReady DEF Next, ProcStep

\* The entries and the scripts are as the migrations need them, in every reachable state.
LEMMA ScriptsCorrect == Spec => []ScriptsInv
BY InitScriptsInv, NextScriptsInv, LocksCorrect, DocsCorrect, PTL DEF Spec

\* No document refers to a legacy script that is gone while nobody holds the project:
\* the scripts are moved when their documents are clean, an upgrade writes them first, and
\* a restoration puts them back before it lets the project go
\* (_archive_project_legacy_hooks, _restore_legacy_snapshot, upgrade-memory-hooks).
THEOREM EntriesAreServed == Spec => []EntriesHaveScript
<1>1. ASSUME LockInv, ScriptsInv PROVE EntriesHaveScript
    <2> SUFFICES ASSUME ~blurred, NEW r \in Roots, projectLock[r] = NoProc, NEW a \in Agents,
                        docs[r][a].kind = "legacy"
                 PROVE  scripts[r][a]
        BY DEF EntriesHaveScript, Broken
    <2>1. ~PutBack(r, a)
        BY <1>1, NamesAssumption DEF PutBack, LockInv, LocksHeld, OwnsProject
    <2> QED
        BY <1>1, <2>1 DEF ScriptsInv, ScriptsInPlace, Served
<1> QED
    BY <1>1, LocksCorrect, ScriptsCorrect, PTL

\* The restoration of p is over when everything on its lists is put back, or is blurred.
LEMMA RestorationEnds ==
    ASSUME LockInv, DocsInv, ScriptsInv, [Next]_vars, NEW p \in Procs,
           at[p] = "restore", at'[p] # "restore", ~blurred'
    PROVE  ~blurred /\ wrote[p] = {} /\ moved[p] = {} /\ conflict'[p] = conflict[p]
<1>1. ProcStep(p)
    <2>1. CASE UNCHANGED vars
        BY <2>1 DEF vars, call
    <2>2. ASSUME NEW q \in Procs, ProcStep(q) PROVE q = p
        BY <2>2, OthersAlone DEF ScriptsInv, Others
    <2>3. ASSUME NEW r \in Legacy, NEW a \in Agents, Edit(r, a) PROVE FALSE
        BY <2>3 DEF Edit, call
    <2> QED
        BY <2>1, <2>2, <2>3 DEF Next, ProcStep
<1>2. Restored(p)
    <2>1. CASE RegistryStep(p)
        BY <2>1 DEF RegistryStep, Look, Register, Prepare, Remove, Undo
    <2>2. CASE MigrationStep(p)
        BY <2>2 DEF MigrationStep, Select, ApplyLocks, UnregisterLocks, ReadDoc, MoveScript,
            WriteDoc, Archived, RestoreDoc, RestoreScript
    <2>3. CASE UpgradeStep(p)
        BY <2>3 DEF UpgradeStep, UpgradeScript, UpgradeReads, UpgradeWrites, Upgraded
    <2>4. CASE Fail(p) \/ FailAgain(p) \/ UndoFails(p) \/ Crash(p)
        BY <2>4 DEF Fail, FailAgain, UndoFails, Crash
    <2>5. ASSUME NEW o \in Ops, NEW r \in Roots, Start(p, o, r) PROVE FALSE
        BY <2>5 DEF Start
    <2> QED
        BY <1>1, <2>1, <2>2, <2>3, <2>4, <2>5 DEF ProcStep, Step
<1> QED
    BY <1>2 DEF Restored

\* No document goes back behind an edit in it.
LEMMA EditsStay ==
    ASSUME LockInv, DocsInv, ScriptsInv, [Next]_vars, ~blurred, NEW r \in Roots, NEW a \in Agents
    PROVE  docs'[r][a].edit >= docs[r][a].edit
<1>1. edits \in Nat /\ docs[r][a].edit \in Nat /\ docs[r][a].edit <= edits
    BY DEF DocsInv, FilesTyped, Docs, ScriptsInv, ScriptsTyped
<1>2. CASE UNCHANGED docs
    BY <1>1, <1>2
<1>3. ASSUME NEW s \in Roots, NEW b \in Agents, NEW d \in Docs,
             docs' = [docs EXCEPT ![s][b] = d], d.edit \in {docs[s][b].edit, edits + 1}
      PROVE  docs'[r][a].edit >= docs[r][a].edit
    <2>1. docs'[r][a] = IF r = s /\ a = b THEN d ELSE docs[r][a]
        BY <1>3, OneDocument DEF DocsInv, FilesTyped
    <2> QED
        BY <1>1, <1>3, <2>1
<1>4. ASSUME NEW p \in Procs, at[p] = "write", NEW b \in read[p].agents,
             docs' = [docs EXCEPT ![root[p]][b] = Cleaned(read[p].doc)]
      PROVE  docs'[r][a].edit >= docs[r][a].edit
    <2>1. /\ root[p] \in Roots /\ b \in Agents /\ Cleaned(read[p].doc) \in Docs
          /\ Cleaned(read[p].doc).edit = read[p].doc.edit
        BY <1>4, CleanedIsClean DEF LockInv, CallsTyped, DocsInv, FilesTyped
    <2>2. Restorable(p, b)
        BY <1>4, <2>1 DEF ScriptsInv, RestoreReady, OwnsProject
    <2>3. docs[root[p]][b] = read[p].doc
        BY <1>4, <2>2 DEF Restorable
    <2> QED
        BY <1>3, <1>4, <2>1, <2>3
<1>5. ASSUME NEW p \in Procs, WriteDoc(p) \/ Fail(p) PROVE docs'[r][a].edit >= docs[r][a].edit
    BY <1>2, <1>4, <1>5 DEF WriteDoc, Fail
<1>6. ASSUME NEW p \in Procs, RestoreDoc(p) PROVE docs'[r][a].edit >= docs[r][a].edit
    <2>1. PICK w \in wrote[p] :
              \/ UNCHANGED docs
              \/ /\ docs[root[p]][w[1]] = w[2]
                 /\ docs' = [docs EXCEPT ![root[p]][w[1]] = snap[p].docs[w[1]]]
        BY <1>6 DEF RestoreDoc
    <2>2. at[p] = "restore" /\ root[p] \in Roots /\ w[1] \in Agents /\ snap[p].docs[w[1]] \in Docs
        BY <1>6 DEF RestoreDoc, LockInv, CallsTyped, DocsInv, FilesTyped
    <2>3. w[2].edit = snap[p].docs[w[1]].edit
        BY <2>2 DEF ScriptsInv, RestoreReady, Restorable, OwnsProject
    <2> QED
        BY <1>2, <1>3, <2>1, <2>2, <2>3
<1>7. ASSUME NEW p \in Procs, UpgradeWrites(p) PROVE docs'[r][a].edit >= docs[r][a].edit
    <2>1. PICK b \in read[p].agents : docs' = [docs EXCEPT ![root[p]][b] = Gated(read[p].doc)]
        BY <1>7 DEF UpgradeWrites
    <2>2. /\ root[p] \in Roots /\ b \in Agents /\ Gated(read[p].doc) \in Docs
          /\ Gated(read[p].doc).edit = edits + 1
        BY <1>7, <2>1 DEF UpgradeWrites, Gated, Docs, LockInv, CallsTyped, DocsInv, FilesTyped
    <2> QED
        BY <1>3, <2>1, <2>2
<1>8. ASSUME NEW s \in Legacy, NEW b \in Agents, Edit(s, b)
      PROVE  docs'[r][a].edit >= docs[r][a].edit
    <2> DEFINE d == [kind |-> IF docs[s][b].kind = "missing" THEN "clean" ELSE docs[s][b].kind,
                     edit |-> edits + 1]
    <2>1. docs' = [docs EXCEPT ![s][b] = d] /\ s \in Roots
        BY <1>8, NamesAssumption DEF Edit, DocsInv, FilesTyped
    <2>2. d \in Docs /\ d.edit = edits + 1
        BY <2>1 DEF Docs, DocsInv, FilesTyped
    <2> QED
        BY <1>3, <2>1, <2>2
<1>9. ASSUME NEW p \in Procs, ProcStep(p), ~WriteDoc(p), ~Fail(p), ~RestoreDoc(p), ~UpgradeWrites(p)
      PROVE  UNCHANGED docs
    <2>1. CASE RegistryStep(p)
        BY <2>1 DEF RegistryStep, Look, Register, Prepare, Remove, Undo, files
    <2>2. CASE MigrationStep(p)
        BY <1>9, <2>2 DEF MigrationStep, Select, ApplyLocks, UnregisterLocks, ReadDoc, MoveScript,
            Archived, RestoreScript, Restored, files
    <2>3. CASE UpgradeStep(p)
        BY <1>9, <2>3 DEF UpgradeStep, UpgradeScript, UpgradeReads, Upgraded, files
    <2>4. CASE FailAgain(p) \/ UndoFails(p) \/ Crash(p)
        BY <2>4 DEF FailAgain, UndoFails, Crash, files
    <2>5. ASSUME NEW o \in Ops, NEW s \in Roots, Start(p, o, s) PROVE UNCHANGED docs
        BY <2>5 DEF Start, files
    <2> QED
        BY <1>9, <2>1, <2>2, <2>3, <2>4, <2>5 DEF ProcStep, Step
<1>10. CASE UNCHANGED vars
    BY <1>2, <1>10 DEF vars, files
<1>11. ASSUME NEW p \in Procs, ProcStep(p) PROVE docs'[r][a].edit >= docs[r][a].edit
    BY <1>2, <1>5, <1>6, <1>7, <1>9, <1>11
<1> QED
    BY <1>8, <1>10, <1>11 DEF Next, ProcStep

\* A migration that failed without a conflict leaves every script and every document that
\* nobody else has edited as it found them, and no migration goes back behind an edit,
\* whoever edits, upgrades or migrates other projects beside it (_restore_legacy_snapshot).
THEOREM FailuresAreRestored == Spec => FailureRestores
<1> DEFINE Back ==
        /\ \A p \in Procs : at[p] = "restore" /\ at'[p] # "restore" /\ ~conflict'[p] /\ ~blurred'
                              => \A a \in Agents :
                                     /\ snap[p].scripts[a] => scripts[root[p]][a]
                                     /\ docs[root[p]][a].edit = snap[p].docs[a].edit
                                            => docs[root[p]][a] = snap[p].docs[a]
        /\ \A r \in Roots, a \in Agents : blurred \/ docs'[r][a].edit >= docs[r][a].edit
<1>1. ASSUME LockInv, DocsInv, ScriptsInv, [Next]_vars PROVE Back
    <2>1. ASSUME NEW p \in Procs, at[p] = "restore", at'[p] # "restore", ~conflict'[p], ~blurred',
                 NEW a \in Agents
          PROVE  /\ snap[p].scripts[a] => scripts[root[p]][a]
                 /\ docs[root[p]][a].edit = snap[p].docs[a].edit
                        => docs[root[p]][a] = snap[p].docs[a]
        <3>1. ~blurred /\ wrote[p] = {} /\ moved[p] = {} /\ ~conflict[p]
            BY <1>1, <2>1, RestorationEnds
        <3>2. Restorable(p, a)
            BY <1>1, <2>1, <3>1 DEF ScriptsInv, RestoreReady, OwnsProject
        <3> QED
            BY <3>1, <3>2 DEF Restorable
    <2>2. \A r \in Roots, a \in Agents : blurred \/ docs'[r][a].edit >= docs[r][a].edit
        BY <1>1, EditsStay
    <2> QED
        BY <2>1, <2>2
<1>2. LockInv /\ DocsInv /\ ScriptsInv /\ [Next]_vars => [Back]_vars
    BY <1>1
<1> QED
    BY <1>2, LocksCorrect, DocsCorrect, ScriptsCorrect, PTL DEF Spec, FailureRestores
=============================================================================
