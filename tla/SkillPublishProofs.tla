------------------------- MODULE SkillPublishProofs -------------------------
(***************************************************************************)
(* Proofs about SkillPublish, for every set of drafts and processes.       *)
(***************************************************************************)
EXTENDS SkillPublish, TLAPS

Digests == [Agents -> Drafts \cup {Gone}] \cup {Nothing}
TxType == [at : Places, op : Ops, draft : Drafts \cup {NoDraft}, key : Nat, expected : Digests,
           todo : SUBSET Agents, previous : [Agents -> Contents], backup : [Agents -> Contents],
           installed : SUBSET Agents, found : Digests]

Typed ==
    /\ status \in [Drafts -> Statuses] /\ packages \subseteq onDisk /\ onDisk \subseteq Drafts
    /\ deployed \in Digests /\ edits \in Nat
    /\ targets \in [Agents -> Contents] /\ litter \in [Agents -> SUBSET Contents]
    /\ tx \in [Procs -> TxType]
    /\ deployLock \in Procs \cup {Free, Dead} /\ registryLock \in Procs \cup {Free, Dead}

\* A call that puts something in place has a draft, and the places of a publication alone.
Intents ==
    \A p \in Procs :
        /\ tx[p].op # "disable" => tx[p].draft \in Drafts
        /\ tx[p].at \in {"mark", "audit"} => tx[p].op = "publish"
        /\ tx[p].at = "install" => tx[p].op # "disable"

\* The locks are held by whoever is between their acquisition and their release.
LocksHeld ==
    \A p \in Procs :
        /\ (deployLock = p) <=> tx[p].at \in Locked
        /\ (registryLock = p) <=> tx[p].at = "audit"

LockInv == Typed /\ Intents /\ LocksHeld /\ PublishingHeld
-----------------------------------------------------------------------------
(* LockInv is inductive *)

\* Nobody does anything at the start.
LEMMA InitLockInv == Init => LockInv
BY NamesAssumption DEF Init, LockInv, Typed, Intents, LocksHeld, PublishingHeld, NoTx, TxType,
    Digests, Contents, Places, Locked, Ops, Statuses

\* What a step of p has to show: the record of its transaction is of the type, and the locks
\* follow its place.
Moves(p, t) ==
    /\ t \in TxType /\ tx' = [tx EXCEPT ![p] = t]
    /\ t.op # "disable" => t.draft \in Drafts
    /\ t.at \in {"mark", "audit"} => t.op = "publish"
    /\ t.at = "install" => t.op # "disable"
    /\ (deployLock' = p) <=> t.at \in Locked
    /\ (registryLock' = p) <=> t.at = "audit"
    /\ \A q \in Procs \ {p} : ((deployLock' = q) <=> deployLock = q)
                                /\ ((registryLock' = q) <=> registryLock = q)
    /\ t.op = "publish" /\ t.at \in {"move", "install", "verify", "record"}
           => status'[t.draft] = "publishing"
    /\ status' = status \/ tx[p].at \in Locked

\* That is enough for the calls, the locks and the status of the draft.
LEMMA MovesKeeps ==
    ASSUME NEW p \in Procs, NEW t, LockInv, Moves(p, t)
    PROVE  tx' \in [Procs -> TxType] /\ Intents' /\ LocksHeld' /\ PublishingHeld'
<1>1. tx' \in [Procs -> TxType] /\ tx'[p] = t /\ \A q \in Procs \ {p} : tx'[q] = tx[q]
    BY DEF Moves, LockInv, Typed
<1>2. Intents'
    BY <1>1 DEF Moves, LockInv, Intents
<1>3. LocksHeld'
    BY <1>1 DEF Moves, LockInv, LocksHeld
<1>4. PublishingHeld'
    BY <1>1 DEF Moves, LockInv, LocksHeld, PublishingHeld, Locked
<1> QED
    BY <1>1, <1>2, <1>3, <1>4


\* A transaction that goes on to the next agent or place is a transaction.
LEMMA AfterMoves ==
    ASSUME NEW t \in TxType, NEW a \in Agents, NEW same \in Places, NEW next \in Places, t.at = same
    PROVE  /\ After(t, a, same, next) \in TxType
           /\ After(t, a, same, next).at \in {same, next}
           /\ After(t, a, same, next).op = t.op /\ After(t, a, same, next).draft = t.draft
           /\ After(t, a, same, next).backup = t.backup
           /\ After(t, a, same, next).installed = t.installed
           /\ After(t, a, same, next).previous = t.previous
           /\ IF t.todo = {a} THEN After(t, a, same, next).at = next /\ After(t, a, same, next).todo = Agents
              ELSE After(t, a, same, next).at = same /\ After(t, a, same, next).todo = t.todo \ {a}
BY DEF TxType, After

\* It goes on with what it expects.
LEMMA AfterExpects ==
    ASSUME NEW t \in TxType, NEW a \in Agents, NEW same, NEW next
    PROVE  After(t, a, same, next).expected = t.expected
BY DEF TxType, After

\* So is one that fails.
LEMMA RaisedMoves ==
    ASSUME NEW t \in TxType
    PROVE  /\ Raised(t) \in TxType /\ Raised(t).at = "recover" /\ Raised(t).todo = Agents
           /\ Raised(t).op = t.op /\ Raised(t).draft = t.draft
           /\ Raised(t).backup = t.backup /\ Raised(t).installed = t.installed
           /\ Raised(t).previous = t.previous /\ Raised(t).expected = t.expected
BY DEF TxType, Raised, Places, Locked

\* No transaction is one.
LEMMA NoTxTyped == NoTx \in TxType
BY DEF NoTx, TxType, Places, Ops, Digests, Contents

\* A call goes to the lock.
LEMMA LookupKeeps ==
    ASSUME NEW p \in Procs, LockInv, Lookup(p)
    PROVE  LockInv'
<1> DEFINE t == tx[p]
           u == [t EXCEPT !.at = "lock", !.todo = Agents]
<1>1. t \in TxType
    BY DEF LockInv, Typed
<1>2. u \in TxType /\ tx' = [tx EXCEPT ![p] = u]
    BY <1>1 DEF Lookup, TxType, Go, Raise, Return, Places, Locked
<1>a. u.at = "lock" /\ u.op = t.op /\ u.draft = t.draft
    BY <1>1 DEF Places, Locked, TxType
<1> HIDE DEF u
<1>3. Moves(p, u)
    BY <1>1, <1>2, <1>a, NamesAssumption DEF Lookup, Moves, LockInv, Typed, Intents, LocksHeld,
        PublishingHeld, Places, Locked, reviews, records, locks, bounds, history
<1>4. Typed'
    BY <1>2, <1>3, MovesKeeps DEF Lookup, LockInv, Typed, reviews, records, locks, bounds, history,
        Incident, Leave, TxType, Digests, Statuses
<1> QED
    BY <1>3, <1>4, MovesKeeps DEF LockInv

\* A call that is answered ends.
LEMMA AnsweredKeeps ==
    ASSUME NEW p \in Procs, LockInv, Answered(p)
    PROVE  LockInv'
<1> DEFINE t == tx[p]
           u == NoTx
<1>1. t \in TxType
    BY DEF LockInv, Typed
<1>2. u \in TxType /\ tx' = [tx EXCEPT ![p] = u]
    BY <1>1, NoTxTyped DEF Answered, TxType, Go, Raise, Return, Places, Locked
<1>3. Moves(p, u)
    BY <1>1, <1>2, NoTxTyped, NamesAssumption DEF Answered, Moves, LockInv, Typed, Intents,
        LocksHeld, PublishingHeld, Places, Locked, NoTx, reviews, records, locks, bounds, history
<1>4. Typed'
    BY <1>2, <1>3, MovesKeeps DEF Answered, LockInv, Typed, reviews, records, locks, bounds,
        history, Incident, Leave, TxType, Digests, Statuses, NoTx
<1> QED
    BY <1>3, <1>4, MovesKeeps DEF LockInv

\* A free lock gets its holder.
LEMMA TakeLockKeeps ==
    ASSUME NEW p \in Procs, LockInv, TakeLock(p)
    PROVE  LockInv'
<1> DEFINE t == tx[p]
           u == [t EXCEPT !.at = "check", !.todo = Agents]
<1>1. t \in TxType
    BY DEF LockInv, Typed
<1>2. u \in TxType /\ tx' = [tx EXCEPT ![p] = u]
    BY <1>1 DEF TakeLock, TxType, Go, Raise, Return, Places, Locked
<1>a. u.at = "check" /\ u.op = t.op /\ u.draft = t.draft
    BY <1>1 DEF Places, Locked, TxType
<1> HIDE DEF u
<1>3. Moves(p, u)
    BY <1>1, <1>2, <1>a, NamesAssumption DEF TakeLock, Moves, LockInv, Typed, Intents, LocksHeld,
        PublishingHeld, Places, Locked, reviews, records, locks, bounds, history
<1>4. Typed'
    BY <1>2, <1>3, MovesKeeps DEF TakeLock, LockInv, Typed, reviews, records, locks, bounds,
        history, Incident, Leave, TxType, Digests, Statuses
<1> QED
    BY <1>3, <1>4, MovesKeeps DEF LockInv

\* A call that gives up ends.
LEMMA TimeoutKeeps ==
    ASSUME NEW p \in Procs, LockInv, Timeout(p)
    PROVE  LockInv'
<1> DEFINE t == tx[p]
           u == NoTx
<1>1. t \in TxType
    BY DEF LockInv, Typed
<1>2. u \in TxType /\ tx' = [tx EXCEPT ![p] = u]
    BY <1>1, NoTxTyped DEF Timeout, TxType, Go, Raise, Return, Places, Locked
<1>3. Moves(p, u)
    BY <1>1, <1>2, NoTxTyped, NamesAssumption DEF Timeout, Moves, LockInv, Typed, Intents,
        LocksHeld, PublishingHeld, Places, Locked, NoTx, reviews, records, locks, bounds, history
<1>4. Typed'
    BY <1>2, <1>3, MovesKeeps DEF Timeout, LockInv, Typed, reviews, records, locks, bounds, history,
        Incident, Leave, TxType, Digests, Statuses, NoTx
<1> QED
    BY <1>3, <1>4, MovesKeeps DEF LockInv

\* A failing step goes to the recovery.
LEMMA FailsKeeps ==
    ASSUME NEW p \in Procs, LockInv, Fails(p)
    PROVE  LockInv'
<1> DEFINE t == tx[p]
           u == Raised(t)
<1>1. t \in TxType
    BY DEF LockInv, Typed
<1>2. u \in TxType /\ tx' = [tx EXCEPT ![p] = u]
    BY <1>1, RaisedMoves DEF Fails, TxType, Go, Raise, Return, Places, Locked
<1>3. Moves(p, u)
    BY <1>1, <1>2, RaisedMoves, NamesAssumption DEF Fails, Moves, LockInv, Typed, Intents,
        LocksHeld, PublishingHeld, Places, Locked, reviews, records, locks, bounds, history
<1>4. Typed'
    BY <1>2, <1>3, MovesKeeps DEF Fails, LockInv, Typed, reviews, records, locks, bounds, history,
        Incident, Leave, TxType, Digests, Statuses
<1> QED
    BY <1>3, <1>4, MovesKeeps DEF LockInv

\* A draft may be in "publishing" and the call fail.
LEMMA MarkFailsKeeps ==
    ASSUME NEW p \in Procs, LockInv, MarkFails(p)
    PROVE  LockInv'
<1> DEFINE t == tx[p]
           u == Raised(t)
<1>1. t \in TxType
    BY DEF LockInv, Typed
<1>2. u \in TxType /\ tx' = [tx EXCEPT ![p] = u]
    BY <1>1, RaisedMoves DEF MarkFails, TxType, Go, Raise, Return, Places, Locked
<1>3. Moves(p, u)
    BY <1>1, <1>2, RaisedMoves, NamesAssumption DEF MarkFails, Moves, LockInv, Typed, Intents,
        LocksHeld, PublishingHeld, Places, Locked, Incident, reviews, records, locks, bounds,
        history
<1>4. Typed'
    BY <1>2, <1>3, MovesKeeps DEF MarkFails, LockInv, Typed, reviews, records, locks, bounds,
        history, Incident, Leave, TxType, Digests, Statuses, Incident
<1> QED
    BY <1>3, <1>4, MovesKeeps DEF LockInv

\* The registry is released.
LEMMA AuditKeeps ==
    ASSUME NEW p \in Procs, LockInv, Audit(p)
    PROVE  LockInv'
<1> DEFINE t == tx[p]
           u == [t EXCEPT !.at = "clean", !.todo = Agents]
<1>1. t \in TxType
    BY DEF LockInv, Typed
<1>2. u \in TxType /\ tx' = [tx EXCEPT ![p] = u]
    BY <1>1 DEF Audit, TxType, Go, Raise, Return, Places, Locked
<1>a. u.at = "clean" /\ u.op = t.op /\ u.draft = t.draft
    BY <1>1 DEF Places, Locked, TxType
<1> HIDE DEF u
<1>3. Moves(p, u)
    BY <1>1, <1>2, <1>a, NamesAssumption DEF Audit, Moves, LockInv, Typed, Intents, LocksHeld,
        PublishingHeld, Places, Locked, reviews, records, locks, bounds, history
<1>4. Typed'
    BY <1>2, <1>3, MovesKeeps DEF Audit, LockInv, Typed, reviews, records, locks, bounds, history,
        Incident, Leave, TxType, Digests, Statuses
<1> QED
    BY <1>3, <1>4, MovesKeeps DEF LockInv

\* The registry is as it was, and released.
LEMMA AuditFailsKeeps ==
    ASSUME NEW p \in Procs, LockInv, AuditFails(p)
    PROVE  LockInv'
<1> DEFINE t == tx[p]
           u == Raised(t)
<1>1. t \in TxType
    BY DEF LockInv, Typed
<1>2. u \in TxType /\ tx' = [tx EXCEPT ![p] = u]
    BY <1>1, RaisedMoves DEF AuditFails, TxType, Go, Raise, Return, Places, Locked
<1>3. Moves(p, u)
    BY <1>1, <1>2, RaisedMoves, NamesAssumption DEF AuditFails, Moves, LockInv, Typed, Intents,
        LocksHeld, PublishingHeld, Places, Locked, reviews, records, locks, bounds, history
<1>4. Typed'
    BY <1>2, <1>3, MovesKeeps DEF AuditFails, LockInv, Typed, reviews, records, locks, bounds,
        history, Incident, Leave, TxType, Digests, Statuses
<1> QED
    BY <1>3, <1>4, MovesKeeps DEF LockInv

\* The registry is released also when it cannot be put back.
LEMMA RegistryStaysKeeps ==
    ASSUME NEW p \in Procs, LockInv, RegistryStays(p)
    PROVE  LockInv'
<1> DEFINE t == tx[p]
           u == Raised(t)
<1>1. t \in TxType
    BY DEF LockInv, Typed
<1>2. u \in TxType /\ tx' = [tx EXCEPT ![p] = u]
    BY <1>1, RaisedMoves DEF RegistryStays, TxType, Go, Raise, Return, Places, Locked
<1>3. Moves(p, u)
    BY <1>1, <1>2, RaisedMoves, NamesAssumption DEF RegistryStays, Moves, LockInv, Typed, Intents,
        LocksHeld, PublishingHeld, Places, Locked, reviews, records, locks, bounds, history
<1>4. Typed'
    BY <1>2, <1>3, MovesKeeps DEF RegistryStays, LockInv, Typed, reviews, records, locks, bounds,
        history, Incident, Leave, TxType, Digests, Statuses
<1> QED
    BY <1>3, <1>4, MovesKeeps DEF LockInv

\* A success ends the call and releases the lock.
LEMMA CleanKeeps ==
    ASSUME NEW p \in Procs, LockInv, Clean(p)
    PROVE  LockInv'
<1> DEFINE t == tx[p]
           u == NoTx
<1>1. t \in TxType
    BY DEF LockInv, Typed
<1>2. u \in TxType /\ tx' = [tx EXCEPT ![p] = u]
    BY <1>1, NoTxTyped DEF Clean, TxType, Go, Raise, Return, Places, Locked
<1>3. Moves(p, u)
    BY <1>1, <1>2, NoTxTyped, NamesAssumption DEF Clean, Moves, LockInv, Typed, Intents, LocksHeld,
        PublishingHeld, Places, Locked, NoTx, reviews, records, locks, bounds, history
<1>4. Typed'
    BY <1>2, <1>3, MovesKeeps DEF Clean, LockInv, Typed, reviews, records, locks, bounds, history,
        Incident, Leave, TxType, Digests, Statuses, NoTx
<1> QED
    BY <1>3, <1>4, MovesKeeps DEF LockInv

\* So does a failure to delete the backups.
LEMMA CleanFailsKeeps ==
    ASSUME NEW p \in Procs, LockInv, CleanFails(p)
    PROVE  LockInv'
<1> DEFINE t == tx[p]
           u == NoTx
<1>1. t \in TxType
    BY DEF LockInv, Typed
<1>2. u \in TxType /\ tx' = [tx EXCEPT ![p] = u]
    BY <1>1, NoTxTyped DEF CleanFails, TxType, Go, Raise, Return, Places, Locked
<1>3. Moves(p, u)
    BY <1>1, <1>2, NoTxTyped, NamesAssumption DEF CleanFails, Moves, LockInv, Typed, Intents,
        LocksHeld, PublishingHeld, Places, Locked, NoTx, reviews, records, locks, bounds, history
<1>4. Typed'
    BY <1>2, <1>3, MovesKeeps DEF CleanFails, LockInv, Typed, reviews, records, locks, bounds,
        history, Incident, Leave, TxType, Digests, Statuses, NoTx
<1> QED
    BY <1>3, <1>4, MovesKeeps DEF LockInv

\* The end of a failure releases the lock; the draft was the one of its holder.
LEMMA FailedKeeps ==
    ASSUME NEW p \in Procs, LockInv, Failed(p)
    PROVE  LockInv'
<1> DEFINE t == tx[p]
           u == NoTx
<1>1. t \in TxType
    BY DEF LockInv, Typed
<1>2. u \in TxType /\ tx' = [tx EXCEPT ![p] = u]
    BY <1>1, NoTxTyped DEF Failed, TxType, Go, Raise, Return, Places, Locked
<1>3. Moves(p, u)
    BY <1>1, <1>2, NoTxTyped, NamesAssumption DEF Failed, Moves, LockInv, Typed, Intents, LocksHeld,
        PublishingHeld, Places, Locked, NoTx, reviews, records, locks, bounds, history
<1>4. Typed'
    BY <1>2, <1>3, MovesKeeps DEF Failed, LockInv, Typed, reviews, records, locks, bounds, history,
        Incident, Leave, TxType, Digests, Statuses, NoTx
<1> QED
    BY <1>3, <1>4, MovesKeeps DEF LockInv

\* It releases the lock without its report too.
LEMMA FailedFailsKeeps ==
    ASSUME NEW p \in Procs, LockInv, FailedFails(p)
    PROVE  LockInv'
<1> DEFINE t == tx[p]
           u == NoTx
<1>1. t \in TxType
    BY DEF LockInv, Typed
<1>2. u \in TxType /\ tx' = [tx EXCEPT ![p] = u]
    BY <1>1, NoTxTyped DEF FailedFails, TxType, Go, Raise, Return, Places, Locked
<1>3. Moves(p, u)
    BY <1>1, <1>2, NoTxTyped, NamesAssumption DEF FailedFails, Moves, LockInv, Typed, Intents,
        LocksHeld, PublishingHeld, Places, Locked, NoTx, reviews, records, locks, bounds, history
<1>4. Typed'
    BY <1>2, <1>3, MovesKeeps DEF FailedFails, LockInv, Typed, reviews, records, locks, bounds,
        history, Incident, Leave, TxType, Digests, Statuses, NoTx
<1> QED
    BY <1>3, <1>4, MovesKeeps DEF LockInv

\* A death leaves the locks.
LEMMA CrashKeeps ==
    ASSUME NEW p \in Procs, LockInv, Crash(p)
    PROVE  LockInv'
<1> DEFINE t == tx[p]
           u == NoTx
<1>1. t \in TxType
    BY DEF LockInv, Typed
<1>2. u \in TxType /\ tx' = [tx EXCEPT ![p] = u]
    BY <1>1, NoTxTyped DEF Crash, TxType, Go, Raise, Return, Places, Locked
<1>3. Moves(p, u)
    BY <1>1, <1>2, NoTxTyped, NamesAssumption DEF Crash, Moves, LockInv, Typed, Intents, LocksHeld,
        PublishingHeld, Places, Locked, NoTx, reviews, records, locks, bounds, history
<1>4. Typed'
    BY <1>2, <1>3, MovesKeeps DEF Crash, LockInv, Typed, reviews, records, locks, bounds, history,
        Incident, Leave, TxType, Digests, Statuses, NoTx
<1> QED
    BY <1>3, <1>4, MovesKeeps DEF LockInv

\* A target is checked.
LEMMA CheckKeeps ==
    ASSUME NEW p \in Procs, LockInv, Check(p)
    PROVE  LockInv'
<1> DEFINE t == tx[p]
           u == tx'[p]
           a == First(t)
           seen == [t EXCEPT !.previous[a] = targets[a]]
           next == IF t.op = "publish" THEN "mark" ELSE "move"
<1>1. t \in TxType /\ (t.op # "disable" => t.draft \in Drafts)
    BY DEF LockInv, Typed, Intents
<1>2. a \in Agents /\ t.at = "check" /\ targets[a] \in Contents
    BY DEF Check, First, Agents, LockInv, Typed
<1>3. seen \in TxType /\ seen.at = "check" /\ seen.op = t.op /\ seen.draft = t.draft
    BY <1>1, <1>2 DEF TxType
<1>4. tx' = [tx EXCEPT ![p] = IF targets[a] # Expected(t.expected, a) THEN Raised(seen)
                               ELSE After(seen, a, "check", next)]
    BY DEF Check
<1>5. /\ u \in TxType /\ tx' = [tx EXCEPT ![p] = u] /\ u.op = t.op /\ u.draft = t.draft
      /\ u.at \in {"recover", "check", next}
    <2>1. {"check", next} \subseteq Places
        BY DEF Places, Locked
    <2>2. CASE targets[a] # Expected(t.expected, a)
        BY <1>3, <1>4, <2>2, RaisedMoves DEF LockInv, Typed
    <2>3. CASE targets[a] = Expected(t.expected, a)
        <3> HIDE DEF seen, next
        <3> QED
            BY <1>2, <1>3, <1>4, <2>1, <2>3, AfterMoves DEF LockInv, Typed
    <2> QED
        BY <2>2, <2>3
<1> HIDE DEF u
<1>8. Moves(p, u)
    BY <1>1, <1>5, NamesAssumption DEF Check, Moves, LockInv, Typed, Intents, LocksHeld,
        PublishingHeld, Places, Locked, Allowed, reviews, records, locks, bounds, history
<1>9. Typed'
    BY <1>1, <1>5, <1>8, MovesKeeps DEF Check, LockInv, Typed, reviews, records, locks, bounds,
        history, Incident, Digests, Statuses, Contents
<1> QED
    BY <1>8, <1>9, MovesKeeps DEF LockInv

\* The draft is in "publishing" before anything moves.
LEMMA MarkKeeps ==
    ASSUME NEW p \in Procs, LockInv, Mark(p)
    PROVE  LockInv'
<1> DEFINE t == tx[p]
           u == tx'[p]
<1>1. t \in TxType /\ (t.op # "disable" => t.draft \in Drafts)
    BY DEF LockInv, Typed, Intents
<1>2. t.at = "mark"
    BY DEF Mark
<1>5. /\ u \in TxType /\ tx' = [tx EXCEPT ![p] = u] /\ u.op = t.op /\ u.draft = t.draft
      /\ \/ u.at = "recover" /\ status' = status
         \/ u.at = "move" /\ status' = [status EXCEPT ![t.draft] = "publishing"]
    <2>1. CASE tx' = [tx EXCEPT ![p] = Raised(t)] /\ status' = status
        BY <1>1, <2>1, RaisedMoves DEF LockInv, Typed
    <2>2. CASE /\ tx' = [tx EXCEPT ![p] = [t EXCEPT !.at = "move", !.todo = Agents]]
               /\ status' = [status EXCEPT ![t.draft] = "publishing"]
        BY <1>1, <2>2 DEF TxType, LockInv, Typed, Places, Locked
    <2> QED
        BY <2>1, <2>2 DEF Mark, Go, Raise
<1> HIDE DEF u
<1>8. Moves(p, u)
    BY <1>1, <1>5, NamesAssumption DEF Mark, Moves, LockInv, Typed, Intents, LocksHeld,
        PublishingHeld, Places, Locked, Allowed, reviews, records, locks, bounds, history
<1>9. Typed'
    BY <1>1, <1>5, <1>8, MovesKeeps DEF Mark, LockInv, Typed, reviews, records, locks, bounds,
        history, Incident, Digests, Statuses, Contents
<1> QED
    BY <1>8, <1>9, MovesKeeps DEF LockInv

\* A target is moved aside.
LEMMA MoveAsideKeeps ==
    ASSUME NEW p \in Procs, LockInv, MoveAside(p)
    PROVE  LockInv'
<1> DEFINE t == tx[p]
           u == tx'[p]
           a == First(t)
           aside == [t EXCEPT !.backup[a] = targets[a]]
           next == IF t.op = "disable" THEN After(aside, a, "move", "verify")
                                       ELSE [aside EXCEPT !.at = "install"]
<1>1. t \in TxType /\ (t.op # "disable" => t.draft \in Drafts)
    BY DEF LockInv, Typed, Intents
<1>2. a \in Agents /\ t.at = "move" /\ targets[a] \in Contents /\ Gone \in Contents
    BY DEF MoveAside, First, Agents, LockInv, Typed, Contents
<1>3. aside \in TxType /\ aside.at = "move" /\ aside.op = t.op /\ aside.draft = t.draft
    BY <1>1, <1>2 DEF TxType
<1>4. tx' = [tx EXCEPT ![p] = IF targets[a] = Gone \/ AsChecked(t, a) THEN next ELSE Raised(aside)]
    BY DEF MoveAside
<1>5. /\ u \in TxType /\ tx' = [tx EXCEPT ![p] = u] /\ u.op = t.op /\ u.draft = t.draft
      /\ \/ u.at \in {"recover", "move", "verify"}
         \/ u.at = "install" /\ t.op # "disable"
    <2>1. {"move", "verify", "install"} \subseteq Places
        BY DEF Places, Locked
    <2>2. CASE ~(targets[a] = Gone \/ AsChecked(t, a))
        BY <1>3, <1>4, <2>2, RaisedMoves DEF LockInv, Typed
    <2>3. CASE (targets[a] = Gone \/ AsChecked(t, a)) /\ t.op = "disable"
        <3> HIDE DEF aside
        <3> QED
            BY <1>2, <1>3, <1>4, <2>1, <2>3, AfterMoves DEF LockInv, Typed
    <2>4. CASE (targets[a] = Gone \/ AsChecked(t, a)) /\ t.op # "disable"
        <3> HIDE DEF aside
        <3>1. /\ [aside EXCEPT !.at = "install"] \in TxType
              /\ [aside EXCEPT !.at = "install"].op = aside.op
              /\ [aside EXCEPT !.at = "install"].at = "install"
              /\ [aside EXCEPT !.at = "install"].draft = aside.draft
            BY <1>3, <2>1 DEF TxType
        <3> QED
            BY <1>3, <1>4, <2>4, <3>1 DEF LockInv, Typed
    <2> QED
        BY <2>2, <2>3, <2>4
<1> HIDE DEF u
<1>8. Moves(p, u)
    BY <1>1, <1>5, NamesAssumption DEF MoveAside, Moves, LockInv, Typed, Intents, LocksHeld,
        PublishingHeld, Places, Locked, Allowed, reviews, records, locks, bounds, history
<1>9. Typed'
    BY <1>1, <1>5, <1>8, MovesKeeps DEF MoveAside, LockInv, Typed, reviews, records, locks, bounds,
        history, Incident, Digests, Statuses, Contents
<1> QED
    BY <1>8, <1>9, MovesKeeps DEF LockInv

\* A target is installed.
LEMMA InstallKeeps ==
    ASSUME NEW p \in Procs, LockInv, Install(p)
    PROVE  LockInv'
<1> DEFINE t == tx[p]
           u == tx'[p]
           a == First(t)
           done == [t EXCEPT !.installed = @ \cup {a}]
<1>1. t \in TxType /\ (t.op # "disable" => t.draft \in Drafts)
    BY DEF LockInv, Typed, Intents
<1>2. a \in Agents /\ t.at = "install" /\ Gone \in Contents /\ t.op # "disable"
    BY DEF Install, First, Agents, LockInv, Intents, Contents
<1>3. done \in TxType /\ done.at = "install" /\ done.op = t.op /\ done.draft = t.draft
    BY <1>1, <1>2 DEF TxType
<1>5. /\ u \in TxType /\ tx' = [tx EXCEPT ![p] = u] /\ u.op = t.op /\ u.draft = t.draft
      /\ u.at \in {"recover", "move", "verify"}
    <2>2. CASE targets[a] # Gone
        BY <1>1, <2>2, RaisedMoves DEF LockInv, Typed, Install, Raise
    <2>3. CASE targets[a] = Gone
        <3>1. tx' = [tx EXCEPT ![p] = After(done, a, "move", "verify")]
            BY <2>3 DEF Install
        <3>2. /\ After(done, a, "move", "verify") \in TxType
              /\ After(done, a, "move", "verify").at \in {"move", "verify"}
              /\ After(done, a, "move", "verify").op = done.op
              /\ After(done, a, "move", "verify").draft = done.draft
            BY <1>3 DEF After, TxType, Places, Locked, Agents
        <3> QED
            BY <1>3, <3>1, <3>2 DEF LockInv, Typed
    <2> QED
        BY <2>2, <2>3
<1> HIDE DEF u
<1>8. Moves(p, u)
    BY <1>1, <1>5, NamesAssumption DEF Install, Moves, LockInv, Typed, Intents, LocksHeld,
        PublishingHeld, Places, Locked, Allowed, First, reviews, records, locks, bounds, history
<1>9. Typed'
    BY <1>1, <1>5, <1>8, MovesKeeps, <1>2 DEF Install, LockInv, Typed, reviews, records, locks,
        bounds, history, Incident, Digests, Statuses, Contents, First
<1> QED
    BY <1>8, <1>9, MovesKeeps DEF LockInv

\* The targets are verified.
LEMMA VerifyKeeps ==
    ASSUME NEW p \in Procs, LockInv, Verify(p)
    PROVE  LockInv'
<1> DEFINE t == tx[p]
           u == tx'[p]
<1>1. t \in TxType /\ (t.op # "disable" => t.draft \in Drafts)
    BY DEF LockInv, Typed, Intents
<1>2. t.at = "verify"
    BY DEF Verify
<1>5. /\ u \in TxType /\ tx' = [tx EXCEPT ![p] = u] /\ u.op = t.op /\ u.draft = t.draft
      /\ u.at \in {"recover", "record"}
    <2>1. CASE tx' = [tx EXCEPT ![p] = Raised(t)]
        BY <1>1, <2>1, RaisedMoves DEF LockInv, Typed
    <2>2. CASE tx' = [tx EXCEPT ![p] = [t EXCEPT !.at = "record", !.todo = Agents]]
        BY <1>1, <2>2 DEF TxType, LockInv, Typed, Places, Locked
    <2> QED
        BY <2>1, <2>2 DEF Verify, Go, Raise
<1> HIDE DEF u
<1>8. Moves(p, u)
    BY <1>1, <1>5, NamesAssumption DEF Verify, Moves, LockInv, Typed, Intents, LocksHeld,
        PublishingHeld, Places, Locked, Allowed, reviews, records, locks, bounds, history
<1>9. Typed'
    BY <1>1, <1>5, <1>8, MovesKeeps DEF Verify, LockInv, Typed, reviews, records, locks, bounds,
        history, Incident, Digests, Statuses, Contents
<1> QED
    BY <1>8, <1>9, MovesKeeps DEF LockInv

\* A deployment is recorded, and a draft published by its own publication alone.
LEMMA RecordKeeps ==
    ASSUME NEW p \in Procs, LockInv, Record(p)
    PROVE  LockInv'
<1> DEFINE t == tx[p]
           u == tx'[p]
           place == IF t.op = "publish" THEN "audit" ELSE "clean"
           kept == [t EXCEPT !.at = place, !.found = deployed]
<1>1. t \in TxType /\ (t.op # "disable" => t.draft \in Drafts)
    BY DEF LockInv, Typed, Intents
<1>2. t.at = "record"
    BY DEF Record
<1>3. /\ kept \in TxType /\ kept.at = place /\ kept.op = t.op /\ kept.draft = t.draft
    BY <1>1 DEF TxType, LockInv, Typed, Places, Locked
<1>5. /\ u \in TxType /\ tx' = [tx EXCEPT ![p] = u] /\ u.op = t.op /\ u.draft = t.draft
      /\ \/ /\ u.at = "recover" /\ status' = status /\ registryLock' = registryLock
            /\ deployed' = deployed
         \/ /\ u.at = place /\ registryLock = Free
            /\ status' = IF t.op = "publish" THEN [status EXCEPT ![t.draft] = "published"] ELSE status
            /\ registryLock' = IF t.op = "publish" THEN p ELSE Free
            /\ deployed' = [b \in Agents |-> Desired(t)]
    <2>1. CASE /\ tx' = [tx EXCEPT ![p] = Raised(t)] /\ status' = status
               /\ registryLock' = registryLock /\ deployed' = deployed
        BY <1>1, <2>1, RaisedMoves DEF LockInv, Typed
    <2>2. CASE ~(/\ tx' = [tx EXCEPT ![p] = Raised(t)] /\ status' = status
                 /\ registryLock' = registryLock /\ deployed' = deployed)
        <3>1. /\ tx' = [tx EXCEPT ![p] = kept] /\ registryLock = Free
              /\ status' = IF t.op = "publish" THEN [status EXCEPT ![t.draft] = "published"] ELSE status
              /\ registryLock' = IF t.op = "publish" THEN p ELSE Free
              /\ deployed' = [b \in Agents |-> Desired(t)]
            BY <2>2 DEF Record, Raise
        <3> HIDE DEF kept
        <3> QED
            BY <1>3, <3>1 DEF LockInv, Typed
    <2> QED
        BY <2>1, <2>2
<1> HIDE DEF u
<1>8. Moves(p, u)
    BY <1>1, <1>5, NamesAssumption DEF Record, Moves, LockInv, Typed, Intents, LocksHeld,
        PublishingHeld, Places, Locked, Allowed, Desired, reviews, records, locks, bounds, history
<1>9. Typed'
    BY <1>1, <1>5, <1>8, MovesKeeps DEF Record, LockInv, Typed, reviews, records, locks, bounds,
        history, Incident, Digests, Statuses, Contents, Desired
<1> QED
    BY <1>8, <1>9, MovesKeeps DEF LockInv

\* A directory is put back.
LEMMA RecoverKeeps ==
    ASSUME NEW p \in Procs, LockInv, Recover(p)
    PROVE  LockInv'
<1> DEFINE t == tx[p]
           u == tx'[p]
           a == Last(t)
           done == [t EXCEPT !.backup[a] = Gone, !.installed = @ \ {a}]
<1>1. t \in TxType /\ (t.op # "disable" => t.draft \in Drafts)
    BY DEF LockInv, Typed, Intents
<1>2. a \in Agents /\ t.at = "recover" /\ Gone \in Contents
    BY DEF Recover, Last, Agents, Contents
<1>3. done \in TxType /\ done.at = "recover" /\ done.op = t.op /\ done.draft = t.draft
    BY <1>1, <1>2 DEF TxType
<1>5. /\ u \in TxType /\ tx' = [tx EXCEPT ![p] = u] /\ u.op = t.op /\ u.draft = t.draft
      /\ u.at \in {"recover", "failed"}
    <2>1. {"recover", "failed"} \subseteq Places
        BY DEF Places, Locked
    <2>2. tx' = [tx EXCEPT ![p] = After(done, a, "recover", "failed")]
        BY DEF Recover
    <2> HIDE DEF done
    <2> QED
        BY <1>2, <1>3, <2>1, <2>2, AfterMoves DEF LockInv, Typed
<1> HIDE DEF u
<1>8. Moves(p, u)
    BY <1>1, <1>5, NamesAssumption DEF Recover, Moves, LockInv, Typed, Intents, LocksHeld,
        PublishingHeld, Places, Locked, Allowed, reviews, records, locks, bounds, history
<1>9. Typed'
    BY <1>1, <1>5, <1>8, MovesKeeps, <1>2 DEF Recover, LockInv, Typed, reviews, records, locks,
        bounds, history, Incident, Digests, Statuses, Contents, TxType
<1> QED
    BY <1>8, <1>9, MovesKeeps DEF LockInv

\* Or left.
LEMMA RecoverFailsKeeps ==
    ASSUME NEW p \in Procs, LockInv, RecoverFails(p)
    PROVE  LockInv'
<1> DEFINE t == tx[p]
           u == tx'[p]
           a == Last(t)
           done == [t EXCEPT !.backup[a] = Gone, !.installed = @ \ {a}]
<1>1. t \in TxType /\ (t.op # "disable" => t.draft \in Drafts)
    BY DEF LockInv, Typed, Intents
<1>2. a \in Agents /\ t.at = "recover" /\ Gone \in Contents
    BY DEF RecoverFails, Last, Agents, Contents
<1>3. done \in TxType /\ done.at = "recover" /\ done.op = t.op /\ done.draft = t.draft
    BY <1>1, <1>2 DEF TxType
<1>5. /\ u \in TxType /\ tx' = [tx EXCEPT ![p] = u] /\ u.op = t.op /\ u.draft = t.draft
      /\ u.at \in {"recover", "failed"}
    <2>1. {"recover", "failed"} \subseteq Places
        BY DEF Places, Locked
    <2>2. tx' = [tx EXCEPT ![p] = After(done, a, "recover", "failed")]
        BY DEF RecoverFails
    <2> HIDE DEF done
    <2> QED
        BY <1>2, <1>3, <2>1, <2>2, AfterMoves DEF LockInv, Typed
<1> HIDE DEF u
<1>8. Moves(p, u)
    BY <1>1, <1>5, NamesAssumption DEF RecoverFails, Moves, LockInv, Typed, Intents, LocksHeld,
        PublishingHeld, Places, Locked, Allowed, reviews, records, locks, bounds, history
<1>9. Typed'
    BY <1>1, <1>5, <1>8, MovesKeeps, <1>2 DEF RecoverFails, LockInv, Typed, reviews, records, locks,
        bounds, history, Incident, Digests, Statuses, Contents, TxType, Last
<1> QED
    BY <1>8, <1>9, MovesKeeps DEF LockInv

\* A draft in "publishing" is not approved.
LEMMA ApproveKeeps ==
    ASSUME NEW d \in Drafts, LockInv, Approve(d)
    PROVE  LockInv'
BY DEF Approve, Review, Allowed, Transitions, LockInv, Typed, Intents, LocksHeld, PublishingHeld,
    Statuses, Digests,
    reviews, records, locks, bounds, history

\* A failing approval leaves the registry.
LEMMA ApproveFailsKeeps ==
    ASSUME NEW d \in Drafts, LockInv, ApproveFails(d)
    PROVE  LockInv'
BY DEF ApproveFails, Review, Allowed, Transitions, LockInv, Typed, Intents, LocksHeld,
    PublishingHeld, Statuses, Digests,
    reviews, records, locks, bounds, history

\* A draft in "publishing" is not rejected.
LEMMA RejectKeeps ==
    ASSUME NEW d \in Drafts, LockInv, Reject(d)
    PROVE  LockInv'
BY DEF Reject, Review, Allowed, Transitions, LockInv, Typed, Intents, LocksHeld, PublishingHeld,
    Statuses, Digests,
    reviews, records, locks, bounds, history

\* It is not sent back either.
LEMMA ReviseKeeps ==
    ASSUME NEW d \in Drafts, LockInv, Revise(d)
    PROVE  LockInv'
BY DEF Revise, Review, Allowed, Transitions, LockInv, Typed, Intents, LocksHeld, PublishingHeld,
    Statuses, Digests,
    reviews, records, locks, bounds, history

\* Nor validated.
LEMMA ValidateKeeps ==
    ASSUME NEW d \in Drafts, LockInv, Validate(d)
    PROVE  LockInv'
BY DEF Validate, Review, Allowed, Transitions, LockInv, Typed, Intents, LocksHeld, PublishingHeld,
    Statuses, Digests,
    reviews, records, locks, bounds, history

\* A call begins without a lock.
LEMMA BeginKeeps ==
    ASSUME NEW p \in Procs, NEW o \in Ops, NEW d \in Drafts \cup {NoDraft}, NEW k \in Keys,
           LockInv, Begin(p, o, d, k)
    PROVE  LockInv'
<1> DEFINE u == [NoTx EXCEPT !.at = "lookup", !.op = o, !.draft = d, !.key = k, !.expected = deployed]
<1>1. /\ u \in TxType /\ u.at = "lookup" /\ u.op = o /\ u.draft = d
      /\ o # "disable" => d \in Drafts
    <2>1. k \in Nat /\ NoTx \in TxType /\ "lookup" \in Places /\ deployed \in Digests
        BY BoundsAssumption, NoTxTyped DEF Keys, Places, LockInv, Typed
    <2>2. o # "disable" => d \in Drafts
        BY DEF Begin, LockInv, Typed
    <2> HIDE DEF NoTx
    <2> QED
        BY <2>1, <2>2 DEF TxType
<1>2. tx' = [tx EXCEPT ![p] = u]
    BY DEF Begin
<1> HIDE DEF u
<1>3. Moves(p, u)
    BY <1>1, <1>2 DEF Begin, Moves, LockInv, LocksHeld, Locked, reviews, records, locks, bounds,
        history
<1>4. Typed'
    BY <1>3, MovesKeeps DEF Begin, LockInv, Typed, reviews, records, locks, bounds, history
<1> QED
    BY <1>3, <1>4, MovesKeeps DEF LockInv

\* A lock is removed only when its holder is dead.
LEMMA UnlockKeeps ==
    ASSUME LockInv, Unlock
    PROVE  LockInv'
BY NamesAssumption DEF Unlock, LockInv, Typed, Intents, LocksHeld, PublishingHeld, reviews, records,
    locks, bounds, history

\* An edit changes a directory.
LEMMA EditKeeps ==
    ASSUME NEW a \in Agents, LockInv, Edit(a)
    PROVE  LockInv'
BY BoundsAssumption DEF Edit, LockInv, Typed, Intents, LocksHeld, PublishingHeld, Contents, Foreign,
    reviews, records, locks, bounds, history

\* A step that changes nothing.
LEMMA StutterKeeps ==
    ASSUME LockInv, UNCHANGED vars
    PROVE  LockInv'
BY DEF vars, LockInv, Typed, Intents, LocksHeld, PublishingHeld, reviews, records, locks, bounds,
    history

\* LockInv is inductive.
LEMMA NextKeeps ==
    ASSUME LockInv, [Next]_vars
    PROVE  LockInv'
<1>1. ASSUME NEW d \in Drafts, Approve(d) \/ ApproveFails(d) \/ Reject(d) \/ Revise(d) \/ Validate(d)
      PROVE  LockInv'
    BY <1>1, ApproveKeeps, ApproveFailsKeeps, RejectKeeps, ReviseKeeps, ValidateKeeps
<1>2. ASSUME NEW p \in Procs, Step(p)
      PROVE  LockInv'
    BY <1>2, LookupKeeps, AnsweredKeeps, TakeLockKeeps, TimeoutKeeps, CheckKeeps, MarkKeeps,
        MoveAsideKeeps, InstallKeeps, VerifyKeeps, RecordKeeps, AuditKeeps, CleanKeeps,
        RecoverKeeps, FailedKeeps DEF Step
<1>3. ASSUME NEW p \in Procs,
             MarkFails(p) \/ AuditFails(p) \/ RegistryStays(p) \/ CleanFails(p) \/ Fails(p) \/ RecoverFails(p)
                 \/ FailedFails(p) \/ Crash(p)
      PROVE  LockInv'
    BY <1>3, MarkFailsKeeps, AuditFailsKeeps, RegistryStaysKeeps, CleanFailsKeeps, FailsKeeps,
        RecoverFailsKeeps, FailedFailsKeeps, CrashKeeps
<1>4. ASSUME NEW p \in Procs, NEW o \in Ops, NEW d \in Drafts \cup {NoDraft}, NEW k \in Keys,
             Begin(p, o, d, k)
      PROVE  LockInv'
    BY <1>4, BeginKeeps
<1> QED
    BY <1>1, <1>2, <1>3, <1>4, UnlockKeeps, EditKeeps, StutterKeeps DEF Next

\* LockInv holds in every reachable state.
THEOREM LocksCorrect == Spec => []LockInv
<1>1. LockInv /\ [Next]_vars => LockInv'
    BY NextKeeps
<1> QED
    BY <1>1, InitLockInv, PTL DEF Spec

\* The type invariant, with deployments.lock and registry.lock held exactly where the code
\* is between taking and releasing them (exclusive_lock, _run_transaction).
THEOREM TypeCorrect == Spec => []TypeOK
<1>1. LockInv => TypeOK
    BY DEF LockInv, Typed, LocksHeld, TypeOK, TxType, Digests
<1> QED
    BY <1>1, LocksCorrect, PTL

\* Nobody rejects a draft that is being published or closes its status
\* (DRAFT_TRANSITIONS, _transition_if_registered).
THEOREM PublishingIsHeld == Spec => []PublishingHeld
<1>1. LockInv => PublishingHeld
    BY DEF LockInv
<1> QED
    BY <1>1, LocksCorrect, PTL

-----------------------------------------------------------------------------
(* Nothing is lost *)

\* Agents a transaction has not reached yet in its round of renames.
Waiting(t, a) ==
    \/ t.at = "move" /\ a \in t.todo
    \/ t.at = "install" /\ a \in t.todo \ {First(t)}

Untouched(t, a) ==
    \/ t.at \in {"idle", "lookup", "lock", "check", "mark", "failed"} \/ Waiting(t, a)
    \/ t.at = "recover" /\ a \notin t.todo

Unrecorded == {"check", "mark", "move", "install", "verify", "record", "recover", "failed"}

\* Where the content an agent should find is, at each place of a transaction.
Kept(p, a) ==
    LET t == tx[p]
    IN  /\ Untouched(t, a) => ~InHand(t, a)
        /\ t.at \in Unrecorded /\ InHand(t, a) /\ a \notin meddled
               => owed[a] \in {Gone, t.backup[a]} \cup litter[a]
        /\ t.at = "record" /\ InHand(t, a) /\ a \notin meddled => targets[a] = Desired(t)
        /\ t.at \in {"audit", "clean"} /\ InHand(t, a) /\ a \notin meddled
               => owed[a] \in {Gone, targets[a]}
        /\ Waiting(t, a) \/ t.at = "mark" \/ (t.at = "check" /\ a \notin t.todo)
               => (t.previous[a] # Gone => targets[a] # Gone)
        /\ t.at \in {"move", "install", "verify", "record", "audit"} /\ ~Waiting(t, a)
               => t.backup[a] = t.previous[a]

\* What each agent should find when a transaction is recorded.
Claimed(t) ==
    [b \in Agents |-> IF InHand(t, b) \/ targets[b] = Desired(t) THEN Desired(t) ELSE owed[b]]

\* The same, for the agents and backups of one transaction.
Found(p, a) ==
    a \notin meddled => owed[a] \in {Gone, targets[a], tx[p].backup[a]} \cup litter[a]

KeptInv ==
    /\ owed \in [Agents -> Contents]
    /\ \A p \in Procs : tx[p].at \in Locked => tx[p].todo # {}
    /\ \A p \in Procs, a \in Agents : Kept(p, a)
    /\ NothingLost

\* Nothing is owed at the start.
LEMMA InitKept == Init => KeptInv
BY DEF Init, KeptInv, Kept, NoTx, Untouched, Waiting, InHand, NothingLost, Contents, Locked,
    Unrecorded

\* Only the holder of deployments.lock has anything in hand.
LEMMA HolderAlone ==
    ASSUME NEW p \in Procs, LockInv, KeptInv, tx[p].at \in Locked
    PROVE  /\ \A q \in Procs \ {p} : tx[q].at \in {"idle", "lookup", "lock"}
           /\ \A q \in Procs \ {p}, a \in Agents : ~InHand(tx[q], a)
           /\ \A a \in Agents : Found(p, a)
<1>1. \A q \in Procs \ {p} : tx[q].at \in {"idle", "lookup", "lock"}
    BY DEF LockInv, LocksHeld, Typed, TxType, Places
<1>2. \A q \in Procs \ {p}, a \in Agents : ~InHand(tx[q], a)
    BY <1>1 DEF KeptInv, Kept, Untouched
<1>3. \A a \in Agents : Found(p, a)
    BY <1>2 DEF KeptInv, NothingLost, Found, InHand
<1> QED
    BY <1>1, <1>2, <1>3

\* What a step of the holder has to show, for each agent.
LEMMA HolderKeeps ==
    ASSUME NEW p \in Procs, NEW u \in TxType, LockInv, KeptInv, tx[p].at \in Locked,
           tx' = [tx EXCEPT ![p] = u], owed' \in [Agents -> Contents],
           u.at \in Locked => u.todo # {},
           \A a \in Agents : Kept(p, a)' /\ Found(p, a)'
    PROVE  KeptInv'
<1>1. tx'[p] = u /\ \A q \in Procs \ {p} : tx'[q] = tx[q]
    BY DEF LockInv, Typed
<1>2. \A q \in Procs \ {p} : tx'[q].at \in {"idle", "lookup", "lock"}
    BY <1>1, HolderAlone
<1>3. \A q \in Procs \ {p}, a \in Agents : Kept(q, a)'
    BY <1>1, <1>2, HolderAlone DEF Kept, Waiting, Unrecorded
<1>4. NothingLost'
    BY DEF Found, NothingLost
<1>5. \A q \in Procs : tx'[q].at \in Locked => tx'[q].todo # {}
    BY <1>1, <1>2 DEF Locked
<1> QED
    BY <1>3, <1>4, <1>5 DEF KeptInv

\* A step of a call that does not hold the lock, and has nothing in hand.
LEMMA OtherKeeps ==
    ASSUME NEW p \in Procs, NEW u \in TxType, LockInv, KeptInv, tx[p].at \notin Locked,
           tx' = [tx EXCEPT ![p] = u], UNCHANGED <<targets, litter, owed, meddled>>,
           u.at \in {"idle", "lookup", "lock"} \/ (u.at = "check" /\ u.todo = Agents),
           \A a \in Agents : ~InHand(u, a)
    PROVE  KeptInv'
<1>1. tx'[p] = u /\ \A q \in Procs \ {p} : tx'[q] = tx[q]
    BY DEF LockInv, Typed
<1>2. \A a \in Agents : ~InHand(tx[p], a)
    BY DEF KeptInv, Kept, Untouched, LockInv, Typed, TxType, Places
<1>3. \A a \in Agents : Kept(p, a)'
    BY <1>1 DEF Kept, Waiting, Unrecorded
<1>4. \A q \in Procs \ {p}, a \in Agents : Kept(q, a)'
    BY <1>1 DEF KeptInv, Kept
<1>5. NothingLost'
    BY <1>1, <1>2 DEF KeptInv, NothingLost, InHand
<1>6. \A q \in Procs : tx'[q].at \in Locked => tx'[q].todo # {}
    BY <1>1 DEF KeptInv, Locked, Agents
<1> QED
    BY <1>3, <1>4, <1>5, <1>6 DEF KeptInv

\* A call that goes to the lock has nothing in hand.
LEMMA LookupLoses ==
    ASSUME NEW p \in Procs, LockInv, KeptInv, Lookup(p)
    PROVE  KeptInv'
<1> DEFINE t == tx[p]
           u == [t EXCEPT !.at = "lock", !.todo = Agents]
<1>1. t \in TxType
    BY DEF LockInv, Typed
<1>2. /\ u \in TxType /\ tx' = [tx EXCEPT ![p] = u] /\ \A a \in Agents : ~InHand(u, a)
      /\ u.at \in {"idle", "lookup", "lock"} \/ (u.at = "check" /\ u.todo = Agents)
      /\ t.at \notin Locked
    BY <1>1 DEF Lookup, TxType, Go, Return, Places, Locked, InHand, KeptInv, Kept, Untouched
<1>3. UNCHANGED <<targets, litter, owed, meddled>>
    BY DEF Lookup, reviews, records, locks, bounds, history
<1> HIDE DEF u
<1> QED
    BY <1>2, <1>3, OtherKeeps

\* Nor has one that is answered.
LEMMA AnsweredLoses ==
    ASSUME NEW p \in Procs, LockInv, KeptInv, Answered(p)
    PROVE  KeptInv'
<1> DEFINE t == tx[p]
           u == NoTx
<1>1. t \in TxType
    BY DEF LockInv, Typed
<1>2. /\ u \in TxType /\ tx' = [tx EXCEPT ![p] = u] /\ \A a \in Agents : ~InHand(u, a)
      /\ u.at \in {"idle", "lookup", "lock"} \/ (u.at = "check" /\ u.todo = Agents)
      /\ t.at \notin Locked
    BY <1>1, NoTxTyped DEF Answered, TxType, Go, Return, Places, Locked, InHand, KeptInv, Kept,
        Untouched, NoTx
<1>3. UNCHANGED <<targets, litter, owed, meddled>>
    BY DEF Answered, reviews, records, locks, bounds, history
<1> HIDE DEF u
<1> QED
    BY <1>2, <1>3, OtherKeeps

\* Nor one that takes the lock.
LEMMA TakeLockLoses ==
    ASSUME NEW p \in Procs, LockInv, KeptInv, TakeLock(p)
    PROVE  KeptInv'
<1> DEFINE t == tx[p]
           u == [t EXCEPT !.at = "check", !.todo = Agents]
<1>1. t \in TxType
    BY DEF LockInv, Typed
<1>2. /\ u \in TxType /\ tx' = [tx EXCEPT ![p] = u] /\ \A a \in Agents : ~InHand(u, a)
      /\ u.at \in {"idle", "lookup", "lock"} \/ (u.at = "check" /\ u.todo = Agents)
      /\ t.at \notin Locked
    BY <1>1 DEF TakeLock, TxType, Go, Return, Places, Locked, InHand, KeptInv, Kept, Untouched
<1>3. UNCHANGED <<targets, litter, owed, meddled>>
    BY DEF TakeLock, reviews, records, locks, bounds, history
<1> HIDE DEF u
<1> QED
    BY <1>2, <1>3, OtherKeeps

\* Nor one that gives up.
LEMMA TimeoutLoses ==
    ASSUME NEW p \in Procs, LockInv, KeptInv, Timeout(p)
    PROVE  KeptInv'
<1> DEFINE t == tx[p]
           u == NoTx
<1>1. t \in TxType
    BY DEF LockInv, Typed
<1>2. /\ u \in TxType /\ tx' = [tx EXCEPT ![p] = u] /\ \A a \in Agents : ~InHand(u, a)
      /\ u.at \in {"idle", "lookup", "lock"} \/ (u.at = "check" /\ u.todo = Agents)
      /\ t.at \notin Locked
    BY <1>1, NoTxTyped DEF Timeout, TxType, Go, Return, Places, Locked, InHand, KeptInv, Kept,
        Untouched, NoTx
<1>3. UNCHANGED <<targets, litter, owed, meddled>>
    BY DEF Timeout, reviews, records, locks, bounds, history
<1> HIDE DEF u
<1> QED
    BY <1>2, <1>3, OtherKeeps

\* A failing step leaves what is in hand to the recovery.
LEMMA FailsLoses ==
    ASSUME NEW p \in Procs, LockInv, KeptInv, Fails(p)
    PROVE  KeptInv'
<1> DEFINE t == tx[p]
           u == tx'[p]
<1>1. t \in TxType /\ targets \in [Agents -> Contents] /\ litter \in [Agents -> SUBSET Contents]
    BY DEF LockInv, Typed
<1>2. t.at \in {"check", "mark", "move", "install", "verify", "record"}
    BY DEF Fails
<1>5. /\ u \in TxType /\ tx' = [tx EXCEPT ![p] = u] /\ u.at = "recover" /\ u.todo = Agents
      /\ u.backup = t.backup /\ u.installed = t.installed /\ u.previous = t.previous
      /\ u.op = t.op /\ u.draft = t.draft
    BY <1>1, RaisedMoves DEF Fails, Raise, LockInv, Typed
<1>7. \A b \in Agents : Found(p, b)
    BY <1>2, HolderAlone DEF Locked
<1>6. tx'[p] = u
    OBVIOUS
<1> HIDE DEF u
<1>8. \A b \in Agents : Kept(p, b)' /\ Found(p, b)'
    BY <1>1, <1>2, <1>5, <1>6, <1>7 DEF Fails, KeptInv, Kept, Found, Untouched, Waiting, Unrecorded,
        InHand, reviews, records, locks, bounds, history
<1>9. owed' \in [Agents -> Contents]
    BY <1>1, <1>2, <1>5 DEF Fails, KeptInv, reviews, records, locks, bounds, history
<1> QED
    BY <1>2, <1>5, <1>8, <1>9, HolderKeeps DEF Locked, Agents

\* So does a failing change of status.
LEMMA MarkFailsLoses ==
    ASSUME NEW p \in Procs, LockInv, KeptInv, MarkFails(p)
    PROVE  KeptInv'
<1> DEFINE t == tx[p]
           u == tx'[p]
<1>1. t \in TxType /\ targets \in [Agents -> Contents] /\ litter \in [Agents -> SUBSET Contents]
    BY DEF LockInv, Typed
<1>2. t.at \in {"mark"}
    BY DEF MarkFails
<1>5. /\ u \in TxType /\ tx' = [tx EXCEPT ![p] = u] /\ u.at = "recover" /\ u.todo = Agents
      /\ u.backup = t.backup /\ u.installed = t.installed /\ u.previous = t.previous
      /\ u.op = t.op /\ u.draft = t.draft
    BY <1>1, RaisedMoves DEF MarkFails, Raise, LockInv, Typed
<1>7. \A b \in Agents : Found(p, b)
    BY <1>2, HolderAlone DEF Locked
<1>6. tx'[p] = u
    OBVIOUS
<1> HIDE DEF u
<1>8. \A b \in Agents : Kept(p, b)' /\ Found(p, b)'
    BY <1>1, <1>2, <1>5, <1>6, <1>7 DEF MarkFails, KeptInv, Kept, Found, Untouched, Waiting,
        Unrecorded, InHand, reviews, records, locks, bounds, history
<1>9. owed' \in [Agents -> Contents]
    BY <1>1, <1>2, <1>5 DEF MarkFails, KeptInv, reviews, records, locks, bounds, history
<1> QED
    BY <1>2, <1>5, <1>8, <1>9, HolderKeeps DEF Locked, Agents

\* What was owed before the record is in the backups.
LEMMA AuditFailsLoses ==
    ASSUME NEW p \in Procs, LockInv, KeptInv, AuditFails(p)
    PROVE  KeptInv'
<1> DEFINE t == tx[p]
           u == tx'[p]
<1>1. t \in TxType /\ targets \in [Agents -> Contents] /\ litter \in [Agents -> SUBSET Contents]
    BY DEF LockInv, Typed
<1>2. t.at = "audit" /\ owed' = t.previous /\ UNCHANGED <<targets, litter, meddled>>
    BY DEF AuditFails, reviews, records, locks, bounds, history
<1>3. \A a \in Agents : t.backup[a] = t.previous[a]
    BY <1>2 DEF KeptInv, Kept, Waiting
<1>4. t.previous \in [Agents -> Contents]
    BY <1>1 DEF TxType
<1>5. /\ u \in TxType /\ tx' = [tx EXCEPT ![p] = u] /\ u.at = "recover" /\ u.todo = Agents
      /\ u.backup = t.backup /\ u.installed = t.installed /\ u.previous = t.previous
      /\ u.op = t.op /\ u.draft = t.draft
    BY <1>1, RaisedMoves DEF AuditFails, Raise, LockInv, Typed
<1>7. \A b \in Agents : Found(p, b)
    BY <1>2, HolderAlone DEF Locked
<1>6. tx'[p] = u
    OBVIOUS
<1> HIDE DEF u
<1>8. \A b \in Agents : Kept(p, b)' /\ Found(p, b)'
    BY <1>1, <1>2, <1>5, <1>6, <1>7, <1>3, <1>4 DEF KeptInv, Kept, Found, Untouched, Waiting,
        Unrecorded, InHand, reviews, records, locks, bounds, history
<1>9. owed' \in [Agents -> Contents]
    BY <1>1, <1>2, <1>5, <1>3, <1>4 DEF AuditFails, KeptInv, reviews, records, locks, bounds,
        history
<1> QED
    BY <1>2, <1>5, <1>8, <1>9, HolderKeeps DEF Locked, Agents

\* Also if the registry keeps the record.
LEMMA RegistryStaysLoses ==
    ASSUME NEW p \in Procs, LockInv, KeptInv, RegistryStays(p)
    PROVE  KeptInv'
<1> DEFINE t == tx[p]
           u == tx'[p]
<1>1. t \in TxType /\ targets \in [Agents -> Contents] /\ litter \in [Agents -> SUBSET Contents]
    BY DEF LockInv, Typed
<1>2. t.at = "audit" /\ owed' = t.previous /\ UNCHANGED <<targets, litter, meddled>>
    BY DEF RegistryStays, reviews, records, locks, bounds, history
<1>3. \A a \in Agents : t.backup[a] = t.previous[a]
    BY <1>2 DEF KeptInv, Kept, Waiting
<1>4. t.previous \in [Agents -> Contents]
    BY <1>1 DEF TxType
<1>5. /\ u \in TxType /\ tx' = [tx EXCEPT ![p] = u] /\ u.at = "recover" /\ u.todo = Agents
      /\ u.backup = t.backup /\ u.installed = t.installed /\ u.previous = t.previous
      /\ u.op = t.op /\ u.draft = t.draft
    BY <1>1, RaisedMoves DEF RegistryStays, Raise, LockInv, Typed
<1>7. \A b \in Agents : Found(p, b)
    BY <1>2, HolderAlone DEF Locked
<1>6. tx'[p] = u
    OBVIOUS
<1> HIDE DEF u
<1>8. \A b \in Agents : Kept(p, b)' /\ Found(p, b)'
    BY <1>1, <1>2, <1>5, <1>6, <1>7, <1>3, <1>4 DEF KeptInv, Kept, Found, Untouched, Waiting,
        Unrecorded, InHand, reviews, records, locks, bounds, history
<1>9. owed' \in [Agents -> Contents]
    BY <1>1, <1>2, <1>5, <1>3, <1>4 DEF RegistryStays, KeptInv, reviews, records, locks, bounds,
        history
<1> QED
    BY <1>2, <1>5, <1>8, <1>9, HolderKeeps DEF Locked, Agents

\* Nothing is in hand while the draft is marked.
LEMMA MarkLoses ==
    ASSUME NEW p \in Procs, LockInv, KeptInv, Mark(p)
    PROVE  KeptInv'
<1> DEFINE t == tx[p]
           u == tx'[p]
<1>1. t \in TxType /\ targets \in [Agents -> Contents] /\ litter \in [Agents -> SUBSET Contents]
    BY DEF LockInv, Typed
<1>2. t.at = "mark"
    BY DEF Mark
<1>5. /\ u \in TxType /\ tx' = [tx EXCEPT ![p] = u] /\ u.todo = Agents
      /\ u.backup = t.backup /\ u.installed = t.installed /\ u.previous = t.previous
      /\ u.op = t.op /\ u.draft = t.draft
      /\ u.at \in {"recover", "move"}
    <2>1. CASE tx' = [tx EXCEPT ![p] = Raised(t)]
        BY <1>1, <2>1, RaisedMoves DEF LockInv, Typed
    <2>2. CASE tx' = [tx EXCEPT ![p] = [t EXCEPT !.at = "move", !.todo = Agents]]
        BY <1>1, <2>2 DEF TxType, LockInv, Typed, Places, Locked
    <2> QED
        BY <2>1, <2>2 DEF Mark, Go, Raise
<1>7. \A b \in Agents : Found(p, b)
    BY <1>2, HolderAlone DEF Locked
<1>6. tx'[p] = u
    OBVIOUS
<1> HIDE DEF u
<1>8. \A b \in Agents : Kept(p, b)' /\ Found(p, b)'
    BY <1>1, <1>2, <1>5, <1>6, <1>7 DEF Mark, KeptInv, Kept, Found, Untouched, Waiting, Unrecorded,
        InHand, reviews, records, locks, bounds, history
<1>9. owed' \in [Agents -> Contents]
    BY <1>1, <1>2, <1>5 DEF Mark, KeptInv, reviews, records, locks, bounds, history
<1> QED
    BY <1>2, <1>5, <1>8, <1>9, HolderKeeps DEF Locked, Agents

\* The audit changes nothing of the directories.
LEMMA AuditLoses ==
    ASSUME NEW p \in Procs, LockInv, KeptInv, Audit(p)
    PROVE  KeptInv'
<1> DEFINE t == tx[p]
           u == tx'[p]
<1>1. t \in TxType /\ targets \in [Agents -> Contents] /\ litter \in [Agents -> SUBSET Contents]
    BY DEF LockInv, Typed
<1>2. t.at = "audit"
    BY DEF Audit
<1>5. /\ u \in TxType /\ tx' = [tx EXCEPT ![p] = u] /\ u.todo = Agents /\ u.at = "clean"
      /\ u.backup = t.backup /\ u.installed = t.installed /\ u.previous = t.previous
      /\ u.op = t.op /\ u.draft = t.draft
    BY <1>1 DEF Audit, Go, TxType, LockInv, Typed, Places, Locked
<1>7. \A b \in Agents : Found(p, b)
    BY <1>2, HolderAlone DEF Locked
<1>6. tx'[p] = u
    OBVIOUS
<1> HIDE DEF u
<1>8. \A b \in Agents : Kept(p, b)' /\ Found(p, b)'
    BY <1>1, <1>2, <1>5, <1>6, <1>7 DEF Audit, KeptInv, Kept, Found, Untouched, Waiting, Unrecorded,
        InHand, reviews, records, locks, bounds, history
<1>9. owed' \in [Agents -> Contents]
    BY <1>1, <1>2, <1>5 DEF Audit, KeptInv, reviews, records, locks, bounds, history
<1> QED
    BY <1>2, <1>5, <1>8, <1>9, HolderKeeps DEF Locked, Agents

\* A target is as expected, and the next one follows, or the transaction fails.
LEMMA CheckMoves ==
    ASSUME NEW p \in Procs, LockInv, KeptInv, Check(p)
    PROVE  LET t == tx[p]
               u == tx'[p]
               a == First(t)
               next == IF t.op = "publish" THEN "mark" ELSE "move"
           IN  /\ u \in TxType /\ tx' = [tx EXCEPT ![p] = u]
               /\ u.backup = t.backup /\ u.installed = t.installed
               /\ u.op = t.op /\ u.expected = t.expected
               /\ u.previous = [t.previous EXCEPT ![a] = targets[a]]
               /\ \/ u.at = "recover" /\ u.todo = Agents
                  \/ /\ targets[a] = Expected(t.expected, a)
                     /\ \/ u.at = "check" /\ u.todo = t.todo \ {a} /\ t.todo # {a}
                        \/ u.at = next /\ u.todo = Agents /\ t.todo = {a}
<1> DEFINE t == tx[p]
           u == tx'[p]
           a == First(t)
           seen == [t EXCEPT !.previous[a] = targets[a]]
           next == IF t.op = "publish" THEN "mark" ELSE "move"
<1>1. t \in TxType /\ targets \in [Agents -> Contents] /\ litter \in [Agents -> SUBSET Contents]
    BY DEF LockInv, Typed
<1>2. a \in Agents /\ t.at = "check" /\ targets[a] \in Contents /\ t.todo # {} /\ a \in t.todo
    BY DEF Check, First, Agents, LockInv, Typed, TxType, KeptInv, Locked
<1>3. /\ seen \in TxType /\ seen.at = "check" /\ seen.op = t.op /\ seen.draft = t.draft
      /\ seen.expected = t.expected
      /\ seen.todo = t.todo /\ seen.backup = t.backup /\ seen.installed = t.installed
      /\ seen.previous = [t.previous EXCEPT ![a] = targets[a]]
    BY <1>1, <1>2 DEF TxType
<1>4. tx' = [tx EXCEPT ![p] = IF targets[a] # Expected(t.expected, a) THEN Raised(seen)
                               ELSE After(seen, a, "check", next)]
    BY DEF Check
<1>5. /\ u \in TxType /\ tx' = [tx EXCEPT ![p] = u]
      /\ u.backup = t.backup /\ u.installed = t.installed
      /\ u.op = t.op /\ u.expected = t.expected
      /\ u.previous = [t.previous EXCEPT ![a] = targets[a]]
      /\ \/ u.at = "recover" /\ u.todo = Agents
         \/ /\ targets[a] = Expected(t.expected, a)
            /\ \/ u.at = "check" /\ u.todo = t.todo \ {a} /\ t.todo # {a}
               \/ u.at = next /\ u.todo = Agents /\ t.todo = {a}
    <2>1. {"check", next} \subseteq Places
        BY DEF Places, Locked
    <2> HIDE DEF seen, next
    <2>2. CASE targets[a] # Expected(t.expected, a)
        <3>1. tx' = [tx EXCEPT ![p] = Raised(seen)] /\ tx'[p] = Raised(seen)
            BY <1>4, <2>2 DEF LockInv, Typed
        <3> DEFINE w == Raised(seen)
        <3>2. /\ w \in TxType /\ w.at = "recover" /\ w.todo = Agents /\ w.op = seen.op
              /\ w.backup = seen.backup /\ w.installed = seen.installed
              /\ w.previous = seen.previous /\ w.expected = seen.expected
            BY <1>3, RaisedMoves
        <3>3. u = w /\ tx' = [tx EXCEPT ![p] = w]
            BY <3>1
        <3> HIDE DEF u, w
        <3> QED
            BY <1>3, <3>2, <3>3
    <2>3. CASE targets[a] = Expected(t.expected, a)
        <3> DEFINE w == After(seen, a, "check", next)
        <3>1. tx' = [tx EXCEPT ![p] = w] /\ tx'[p] = w
            BY <1>4, <2>3 DEF LockInv, Typed
        <3>2. /\ w \in TxType /\ w.op = seen.op /\ w.expected = seen.expected
              /\ w.backup = seen.backup /\ w.installed = seen.installed
              /\ w.previous = seen.previous
              /\ \/ w.at = "check" /\ w.todo = seen.todo \ {a} /\ seen.todo # {a}
                 \/ w.at = next /\ w.todo = Agents /\ seen.todo = {a}
            BY <1>2, <1>3, <2>1, AfterMoves, AfterExpects
        <3> HIDE DEF w
        <3> QED
            BY <1>3, <2>3, <3>1, <3>2
    <2> QED
        BY <2>2, <2>3
<1> QED
    BY <1>5

\* Nothing is in hand while the targets are checked.
LEMMA CheckLoses ==
    ASSUME NEW p \in Procs, LockInv, KeptInv, Check(p)
    PROVE  KeptInv'
<1> DEFINE t == tx[p]
           u == tx'[p]
           a == First(t)
           seen == [t EXCEPT !.previous[a] = targets[a]]
           next == IF t.op = "publish" THEN "mark" ELSE "move"
<1>1. t \in TxType /\ targets \in [Agents -> Contents] /\ litter \in [Agents -> SUBSET Contents]
    BY DEF LockInv, Typed
<1>2. a \in Agents /\ t.at = "check" /\ targets[a] \in Contents /\ t.todo # {} /\ a \in t.todo
    BY DEF Check, First, Agents, LockInv, Typed, TxType, KeptInv, Locked
<1>5. /\ u \in TxType /\ tx' = [tx EXCEPT ![p] = u]
      /\ u.backup = t.backup /\ u.installed = t.installed
      /\ u.previous = [t.previous EXCEPT ![a] = targets[a]]
      /\ \/ u.at = "recover" /\ u.todo = Agents
         \/ u.at = "check" /\ u.todo = t.todo \ {a} /\ t.todo # {a}
         \/ u.at = next /\ u.todo = Agents /\ t.todo = {a}
    BY CheckMoves
<1>10. t.previous \in [Agents -> Contents]
    BY <1>1 DEF TxType
<1>7. \A b \in Agents : Found(p, b)
    BY <1>2, HolderAlone DEF Locked
<1>6. tx'[p] = u
    OBVIOUS
<1> HIDE DEF u
<1>8. \A b \in Agents : Kept(p, b)' /\ Found(p, b)'
    BY <1>1, <1>2, <1>5, <1>6, <1>7, <1>10 DEF Check, KeptInv, Kept, Found, Untouched, Waiting,
        Unrecorded, InHand, reviews, records, locks, bounds, history
<1>9. owed' \in [Agents -> Contents]
    BY <1>1, <1>2, <1>5, <1>10 DEF Check, KeptInv, reviews, records, locks, bounds, history
<1> QED
    BY <1>2, <1>5, <1>8, <1>9, HolderKeeps DEF Locked, Agents

\* A target is moved aside: on with the same agent, or the next one, or the transaction fails.
LEMMA MoveAsideMoves ==
    ASSUME NEW p \in Procs, LockInv, KeptInv, MoveAside(p)
    PROVE  LET t == tx[p]
               u == tx'[p]
               a == First(t)
               fine == targets[a] = Gone \/ targets[a] = t.previous[a]
           IN  /\ u \in TxType /\ tx' = [tx EXCEPT ![p] = u]
               /\ u.backup = [t.backup EXCEPT ![a] = targets[a]] /\ u.installed = t.installed
               /\ u.previous = t.previous /\ u.op = t.op /\ u.expected = t.expected
               /\ \/ u.at = "recover" /\ u.todo = Agents
                  \/ u.at = "move" /\ u.todo = t.todo \ {a} /\ t.todo # {a} /\ fine /\ t.op = "disable"
                  \/ u.at = "verify" /\ u.todo = Agents /\ t.todo = {a} /\ fine /\ t.op = "disable"
                  \/ u.at = "install" /\ u.todo = t.todo /\ fine
<1> DEFINE t == tx[p]
           u == tx'[p]
           a == First(t)
           aside == [t EXCEPT !.backup[a] = targets[a]]
           next == IF t.op = "disable" THEN After(aside, a, "move", "verify")
                                       ELSE [aside EXCEPT !.at = "install"]
           fine == targets[a] = Gone \/ targets[a] = t.previous[a]
<1>1. t \in TxType /\ targets \in [Agents -> Contents] /\ litter \in [Agents -> SUBSET Contents]
    BY DEF LockInv, Typed
<1>2. a \in Agents /\ t.at = "move" /\ targets[a] \in Contents /\ t.todo # {} /\ a \in t.todo
    BY DEF MoveAside, First, Agents, LockInv, Typed, TxType, KeptInv, Locked
<1>3. /\ aside \in TxType /\ aside.at = "move" /\ aside.op = t.op /\ aside.draft = t.draft
      /\ aside.expected = t.expected
      /\ aside.todo = t.todo /\ aside.installed = t.installed /\ aside.previous = t.previous
      /\ aside.backup = [t.backup EXCEPT ![a] = targets[a]]
    BY <1>1, <1>2 DEF TxType
<1>4. tx' = [tx EXCEPT ![p] = IF fine THEN next ELSE Raised(aside)]
    BY DEF MoveAside, AsChecked
<1>5. /\ u \in TxType /\ tx' = [tx EXCEPT ![p] = u]
      /\ u.backup = [t.backup EXCEPT ![a] = targets[a]] /\ u.installed = t.installed
      /\ u.previous = t.previous /\ u.op = t.op /\ u.expected = t.expected
      /\ \/ u.at = "recover" /\ u.todo = Agents
         \/ u.at = "move" /\ u.todo = t.todo \ {a} /\ t.todo # {a} /\ fine /\ t.op = "disable"
         \/ u.at = "verify" /\ u.todo = Agents /\ t.todo = {a} /\ fine /\ t.op = "disable"
         \/ u.at = "install" /\ u.todo = t.todo /\ fine
    <2>1. {"move", "verify", "install"} \subseteq Places
        BY DEF Places, Locked
    <2> HIDE DEF fine
    <2>2. CASE ~fine
        <3>1. tx' = [tx EXCEPT ![p] = Raised(aside)] /\ tx'[p] = Raised(aside)
            BY <1>4, <2>2 DEF LockInv, Typed
        <3> HIDE DEF aside
        <3> DEFINE w == Raised(aside)
        <3>2. /\ w \in TxType /\ w.at = "recover" /\ w.todo = Agents /\ w.op = aside.op
              /\ w.backup = aside.backup /\ w.installed = aside.installed
              /\ w.previous = aside.previous /\ w.expected = aside.expected
            BY <1>3, RaisedMoves
        <3>3. u = w /\ tx' = [tx EXCEPT ![p] = w]
            BY <3>1
        <3> HIDE DEF u, w
        <3> QED
            BY <1>3, <3>2, <3>3
    <2>3. CASE fine /\ t.op = "disable"
        <3> HIDE DEF aside
        <3> DEFINE w == After(aside, a, "move", "verify")
        <3>1. tx' = [tx EXCEPT ![p] = w] /\ tx'[p] = w
            BY <1>4, <2>3 DEF LockInv, Typed
        <3>2. /\ w \in TxType /\ w.op = aside.op /\ w.expected = aside.expected
              /\ w.backup = aside.backup /\ w.installed = aside.installed
              /\ w.previous = aside.previous
              /\ \/ w.at = "move" /\ w.todo = aside.todo \ {a} /\ aside.todo # {a}
                 \/ w.at = "verify" /\ w.todo = Agents /\ aside.todo = {a}
            BY <1>2, <1>3, <2>1, AfterMoves, AfterExpects
        <3> HIDE DEF w
        <3> QED
            BY <1>3, <2>3, <3>1, <3>2
    <2>4. CASE fine /\ t.op # "disable"
        <3> HIDE DEF aside
        <3> DEFINE w == [aside EXCEPT !.at = "install"]
        <3>1. /\ w \in TxType /\ w.at = "install" /\ w.todo = aside.todo /\ w.backup = aside.backup
              /\ w.installed = aside.installed /\ w.previous = aside.previous
              /\ w.op = aside.op /\ w.expected = aside.expected
            BY <1>3, <2>1 DEF TxType
        <3>2. tx' = [tx EXCEPT ![p] = w] /\ tx'[p] = w
            BY <1>4, <2>4 DEF LockInv, Typed
        <3> HIDE DEF w
        <3> QED
            BY <1>3, <2>4, <3>1, <3>2
    <2> QED
        BY <2>2, <2>3, <2>4
<1> QED
    BY <1>5

\* What is moved aside is in the backup.
LEMMA MoveAsideLoses ==
    ASSUME NEW p \in Procs, LockInv, KeptInv, MoveAside(p)
    PROVE  KeptInv'
<1> DEFINE t == tx[p]
           u == tx'[p]
           a == First(t)
           aside == [t EXCEPT !.backup[a] = targets[a]]
           next == IF t.op = "disable" THEN After(aside, a, "move", "verify")
                                       ELSE [aside EXCEPT !.at = "install"]
           fine == targets[a] = Gone \/ targets[a] = t.previous[a]
<1>1. t \in TxType /\ targets \in [Agents -> Contents] /\ litter \in [Agents -> SUBSET Contents]
    BY DEF LockInv, Typed
<1>2. a \in Agents /\ t.at = "move" /\ targets[a] \in Contents /\ t.todo # {} /\ a \in t.todo
    BY DEF MoveAside, First, Agents, LockInv, Typed, TxType, KeptInv, Locked
<1>5. /\ u \in TxType /\ tx' = [tx EXCEPT ![p] = u]
      /\ u.backup = [t.backup EXCEPT ![a] = targets[a]] /\ u.installed = t.installed
      /\ u.previous = t.previous
      /\ \/ u.at = "recover" /\ u.todo = Agents
         \/ u.at = "move" /\ u.todo = t.todo \ {a} /\ t.todo # {a} /\ fine
         \/ u.at = "verify" /\ u.todo = Agents /\ t.todo = {a} /\ fine
         \/ u.at = "install" /\ u.todo = t.todo /\ fine
    BY MoveAsideMoves
<1>10. /\ t.backup \in [Agents -> Contents] /\ t.previous \in [Agents -> Contents]
       /\ targets' = [targets EXCEPT ![a] = Gone] /\ UNCHANGED <<owed, litter, meddled>>
       /\ a = First(t)
    BY <1>1 DEF TxType, MoveAside, history
<1>7. \A b \in Agents : Found(p, b)
    BY <1>2, HolderAlone DEF Locked
<1>6. tx'[p] = u
    OBVIOUS
<1> HIDE DEF u
<1>8. \A b \in Agents : Kept(p, b)' /\ Found(p, b)'
    <2> SUFFICES ASSUME NEW b \in Agents PROVE Kept(p, b)' /\ Found(p, b)'
        OBVIOUS
    <2>0. tx[p] = t /\ Kept(p, b) /\ Found(p, b)
        BY <1>7 DEF KeptInv
    <2> HIDE DEF t
    <2>1. CASE b = a
        <3>1. Waiting(t, a) /\ ~InHand(t, a) /\ (t.previous[a] # Gone => targets[a] # Gone)
            BY <1>2, <2>0, <2>1 DEF Kept, Untouched, Waiting
        <3>2. u.backup[a] = targets[a] /\ a \notin u.installed /\ targets'[a] = Gone
            BY <1>1, <1>2, <1>5, <1>10, <3>1 DEF InHand
        <3>3. ~Untouched(u, a) /\ u.at \in {"recover", "move", "verify", "install"}
            BY <1>2, <1>5, <1>10 DEF Untouched, Waiting, First
        <3>4. fine => u.backup[a] = u.previous[a]
            BY <1>5, <3>1, <3>2
        <3>5. a \notin meddled => owed[a] \in {Gone, targets[a]} \cup litter[a]
            BY <2>0, <2>1, <3>1 DEF Found, InHand
        <3> HIDE DEF a
        <3> QED
            BY <1>5, <1>6, <1>10, <2>1, <3>2, <3>3, <3>4, <3>5 DEF Kept, Found, Untouched,
                Unrecorded
    <2>2. CASE b # a
        <3>1. u.backup[b] = t.backup[b] /\ targets'[b] = targets[b]
            BY <1>1, <1>5, <1>10, <2>2
        <3>2. u.at # "recover" => (Waiting(u, b) <=> Waiting(t, b))
            BY <1>2, <1>5, <1>10, <2>2 DEF Waiting, First, Agents
        <3>3. InHand(u, b) <=> InHand(t, b)
            BY <1>5, <3>1 DEF InHand
        <3>4. u.at = "recover" => ~Untouched(u, b)
            BY <1>5 DEF Untouched, Waiting
        <3>5. Untouched(u, b) => Untouched(t, b)
            BY <1>5, <3>2, <3>4 DEF Untouched
        <3> HIDE DEF a
        <3> QED
            BY <1>2, <1>5, <1>6, <1>10, <2>0, <3>1, <3>2, <3>3, <3>4, <3>5 DEF Kept, Found,
                Unrecorded, Untouched, Waiting
    <2> QED
        BY <2>1, <2>2
<1>9. owed' \in [Agents -> Contents]
    BY <1>1, <1>2, <1>5, <1>10 DEF MoveAside, KeptInv, reviews, records, locks, bounds, history
<1> QED
    BY <1>2, <1>5, <1>8, <1>9, HolderKeeps DEF Locked, Agents

\* A version is put in place, and the next agent follows, or the transaction fails.
LEMMA InstallMoves ==
    ASSUME NEW p \in Procs, LockInv, KeptInv, Install(p)
    PROVE  LET t == tx[p]
               u == tx'[p]
               a == First(t)
           IN  /\ u \in TxType /\ tx' = [tx EXCEPT ![p] = u] /\ u.backup = t.backup
               /\ u.previous = t.previous /\ u.op = t.op /\ u.expected = t.expected
               /\ \/ /\ u.at = "recover" /\ u.todo = Agents /\ u.installed = t.installed
                     /\ targets' = targets
                  \/ /\ targets[a] = Gone /\ targets' = [targets EXCEPT ![a] = t.draft]
                     /\ u.installed = t.installed \cup {a}
                     /\ \/ u.at = "move" /\ u.todo = t.todo \ {a} /\ t.todo # {a}
                        \/ u.at = "verify" /\ u.todo = Agents /\ t.todo = {a}
<1> DEFINE t == tx[p]
           u == tx'[p]
           a == First(t)
           done == [t EXCEPT !.installed = @ \cup {a}]
<1>1. t \in TxType /\ targets \in [Agents -> Contents] /\ litter \in [Agents -> SUBSET Contents]
    BY DEF LockInv, Typed
<1>2. a \in Agents /\ t.at = "install" /\ t.todo # {} /\ a \in t.todo
    BY DEF Install, First, Agents, LockInv, Typed, TxType, KeptInv, Locked
<1>3. /\ done \in TxType /\ done.at = "install" /\ done.op = t.op /\ done.draft = t.draft
      /\ done.expected = t.expected
      /\ done.todo = t.todo /\ done.backup = t.backup /\ done.previous = t.previous
      /\ done.installed = t.installed \cup {a}
    BY <1>1, <1>2 DEF TxType
<1>5. /\ u \in TxType /\ tx' = [tx EXCEPT ![p] = u] /\ u.backup = t.backup
      /\ u.previous = t.previous /\ u.op = t.op /\ u.expected = t.expected
      /\ \/ /\ u.at = "recover" /\ u.todo = Agents /\ u.installed = t.installed
            /\ targets' = targets
         \/ /\ targets[a] = Gone /\ targets' = [targets EXCEPT ![a] = t.draft]
            /\ u.installed = t.installed \cup {a}
            /\ \/ u.at = "move" /\ u.todo = t.todo \ {a} /\ t.todo # {a}
               \/ u.at = "verify" /\ u.todo = Agents /\ t.todo = {a}
    <2>2. CASE targets[a] # Gone
        BY <1>1, <2>2, RaisedMoves DEF LockInv, Typed, Install, Raise
    <2>3. CASE targets[a] = Gone
        <3>1. /\ tx' = [tx EXCEPT ![p] = After(done, a, "move", "verify")]
              /\ targets' = [targets EXCEPT ![a] = t.draft]
            BY <2>3 DEF Install
        <3> HIDE DEF done
        <3> DEFINE w == After(done, a, "move", "verify")
        <3>2. /\ w \in TxType /\ w.op = done.op /\ w.expected = done.expected
              /\ w.backup = done.backup /\ w.installed = done.installed
              /\ w.previous = done.previous
              /\ \/ w.at = "move" /\ w.todo = done.todo \ {a} /\ done.todo # {a}
                 \/ w.at = "verify" /\ w.todo = Agents /\ done.todo = {a}
            BY <1>3 DEF After, TxType, Places, Locked, Agents
        <3>3. tx'[p] = w
            BY <3>1 DEF LockInv, Typed
        <3> HIDE DEF w
        <3> QED
            BY <1>3, <2>3, <3>1, <3>2, <3>3
    <2> QED
        BY <2>2, <2>3
<1> QED
    BY <1>5

\* Nothing lies where a version is installed.
LEMMA InstallLoses ==
    ASSUME NEW p \in Procs, LockInv, KeptInv, Install(p)
    PROVE  KeptInv'
<1> DEFINE t == tx[p]
           u == tx'[p]
           a == First(t)
           done == [t EXCEPT !.installed = @ \cup {a}]
<1>1. t \in TxType /\ targets \in [Agents -> Contents] /\ litter \in [Agents -> SUBSET Contents]
    BY DEF LockInv, Typed
<1>2. a \in Agents /\ t.at = "install" /\ t.todo # {} /\ a \in t.todo
    BY DEF Install, First, Agents, LockInv, Typed, TxType, KeptInv, Locked
<1>5. /\ u \in TxType /\ tx' = [tx EXCEPT ![p] = u] /\ u.backup = t.backup /\ u.previous = t.previous
      /\ \/ /\ u.at = "recover" /\ u.todo = Agents /\ u.installed = t.installed
            /\ targets' = targets
         \/ /\ targets[a] = Gone /\ targets' = [targets EXCEPT ![a] = t.draft]
            /\ u.installed = t.installed \cup {a}
            /\ \/ u.at = "move" /\ u.todo = t.todo \ {a} /\ t.todo # {a}
               \/ u.at = "verify" /\ u.todo = Agents /\ t.todo = {a}
    BY InstallMoves
<1>10. UNCHANGED <<owed, litter, meddled>> /\ a = First(t)
    BY DEF Install, history
<1>7. \A b \in Agents : Found(p, b)
    BY <1>2, HolderAlone DEF Locked
<1>6. tx'[p] = u
    OBVIOUS
<1> HIDE DEF u
<1>8. \A b \in Agents : Kept(p, b)' /\ Found(p, b)'
    BY <1>1, <1>2, <1>5, <1>6, <1>7, <1>10 DEF KeptInv, Kept, Found, Untouched, Waiting, Unrecorded,
        InHand, reviews, records, locks, bounds, history
<1>9. owed' \in [Agents -> Contents]
    BY <1>1, <1>2, <1>5, <1>10 DEF Install, KeptInv, reviews, records, locks, bounds, history
<1> QED
    BY <1>2, <1>5, <1>8, <1>9, HolderKeeps DEF Locked, Agents

\* No transaction has nothing in hand.
LEMMA NothingInHand == \A a \in Agents : ~InHand(NoTx, a) /\ NoTx.backup[a] = Gone
BY DEF NoTx, InHand

\* The backups are deleted when nobody is owed them.
LEMMA CleanLoses ==
    ASSUME NEW p \in Procs, LockInv, KeptInv, Clean(p)
    PROVE  KeptInv'
<1> DEFINE t == tx[p]
<1>1. t.at = "clean" /\ tx' = [tx EXCEPT ![p] = NoTx] /\ UNCHANGED <<targets, owed, meddled>>
    BY DEF Clean, Return, reviews, records, locks, bounds, history
<1>2. tx'[p] = NoTx /\ NoTx.at = "idle"
    BY <1>1 DEF LockInv, Typed, NoTx
<1>3. \A b \in Agents :
          \/ litter[b] \cup ({t.backup[b]} \ {Gone}) \subseteq litter'[b]
          \/ (b \notin meddled => owed[b] \in {Gone, targets[b]} \cup litter'[b])
    BY <1>1, HolderAlone DEF Clean, KeptInv, Kept, Found, Untouched, InHand, Locked, Unrecorded,
        Leave, reviews, records, locks, bounds, history
<1>4. \A b \in Agents : litter[b] \subseteq litter'[b]
    BY <1>1 DEF Clean, Leave, LockInv, Typed, reviews, records, locks, bounds, history
<1>5. \A b \in Agents : Found(p, b)
    BY <1>1, HolderAlone DEF Locked
<1>6. ASSUME NEW b \in Agents
      PROVE  Kept(p, b)' /\ Found(p, b)'
    BY <1>1, <1>2, <1>3, <1>4, <1>5, NothingInHand DEF Kept, Found, Untouched, Waiting, Unrecorded
<1> QED
    BY <1>1, <1>2, <1>6, NoTxTyped, HolderKeeps DEF KeptInv, Locked

\* Or they stay.
LEMMA CleanFailsLoses ==
    ASSUME NEW p \in Procs, LockInv, KeptInv, CleanFails(p)
    PROVE  KeptInv'
<1> DEFINE t == tx[p]
<1>1. t.at = "clean" /\ tx' = [tx EXCEPT ![p] = NoTx] /\ UNCHANGED <<targets, owed, meddled>>
    BY DEF CleanFails, Return, reviews, records, locks, bounds, history
<1>2. tx'[p] = NoTx /\ NoTx.at = "idle"
    BY <1>1 DEF LockInv, Typed, NoTx
<1>3. \A b \in Agents :
          \/ litter[b] \cup ({t.backup[b]} \ {Gone}) \subseteq litter'[b]
          \/ (b \notin meddled => owed[b] \in {Gone, targets[b]} \cup litter'[b])
    BY <1>1, HolderAlone DEF CleanFails, KeptInv, Kept, Found, Untouched, InHand, Locked,
        Unrecorded, Leave, reviews, records, locks, bounds, history
<1>4. \A b \in Agents : litter[b] \subseteq litter'[b]
    BY <1>1 DEF CleanFails, Leave, LockInv, Typed, reviews, records, locks, bounds, history
<1>5. \A b \in Agents : Found(p, b)
    BY <1>1, HolderAlone DEF Locked
<1>6. ASSUME NEW b \in Agents
      PROVE  Kept(p, b)' /\ Found(p, b)'
    BY <1>1, <1>2, <1>3, <1>4, <1>5, NothingInHand DEF Kept, Found, Untouched, Waiting, Unrecorded
<1> QED
    BY <1>1, <1>2, <1>6, NoTxTyped, HolderKeeps DEF KeptInv, Locked

\* A failure ends with nothing in hand.
LEMMA FailedLoses ==
    ASSUME NEW p \in Procs, LockInv, KeptInv, Failed(p)
    PROVE  KeptInv'
<1> DEFINE t == tx[p]
<1>1. t.at = "failed" /\ tx' = [tx EXCEPT ![p] = NoTx] /\ UNCHANGED <<targets, owed, meddled>>
    BY DEF Failed, Return, reviews, records, locks, bounds, history
<1>2. tx'[p] = NoTx /\ NoTx.at = "idle"
    BY <1>1 DEF LockInv, Typed, NoTx
<1>3. \A b \in Agents :
          \/ litter[b] \cup ({t.backup[b]} \ {Gone}) \subseteq litter'[b]
          \/ (b \notin meddled => owed[b] \in {Gone, targets[b]} \cup litter'[b])
    BY <1>1, HolderAlone DEF Failed, KeptInv, Kept, Found, Untouched, InHand, Locked, Unrecorded,
        Leave, reviews, records, locks, bounds, history
<1>4. \A b \in Agents : litter[b] \subseteq litter'[b]
    BY <1>1 DEF Failed, Leave, LockInv, Typed, reviews, records, locks, bounds, history
<1>5. \A b \in Agents : Found(p, b)
    BY <1>1, HolderAlone DEF Locked
<1>6. ASSUME NEW b \in Agents
      PROVE  Kept(p, b)' /\ Found(p, b)'
    BY <1>1, <1>2, <1>3, <1>4, <1>5, NothingInHand DEF Kept, Found, Untouched, Waiting, Unrecorded
<1> QED
    BY <1>1, <1>2, <1>6, NoTxTyped, HolderKeeps DEF KeptInv, Locked

\* Also without its report.
LEMMA FailedFailsLoses ==
    ASSUME NEW p \in Procs, LockInv, KeptInv, FailedFails(p)
    PROVE  KeptInv'
<1> DEFINE t == tx[p]
<1>1. t.at = "failed" /\ tx' = [tx EXCEPT ![p] = NoTx] /\ UNCHANGED <<targets, owed, meddled>>
    BY DEF FailedFails, Return, reviews, records, locks, bounds, history
<1>2. tx'[p] = NoTx /\ NoTx.at = "idle"
    BY <1>1 DEF LockInv, Typed, NoTx
<1>3. \A b \in Agents :
          \/ litter[b] \cup ({t.backup[b]} \ {Gone}) \subseteq litter'[b]
          \/ (b \notin meddled => owed[b] \in {Gone, targets[b]} \cup litter'[b])
    BY <1>1, HolderAlone DEF FailedFails, KeptInv, Kept, Found, Untouched, InHand, Locked,
        Unrecorded, Leave, reviews, records, locks, bounds, history
<1>4. \A b \in Agents : litter[b] \subseteq litter'[b]
    BY <1>1 DEF FailedFails, Leave, LockInv, Typed, reviews, records, locks, bounds, history
<1>5. \A b \in Agents : Found(p, b)
    BY <1>1, HolderAlone DEF Locked
<1>6. ASSUME NEW b \in Agents
      PROVE  Kept(p, b)' /\ Found(p, b)'
    BY <1>1, <1>2, <1>3, <1>4, <1>5, NothingInHand DEF Kept, Found, Untouched, Waiting, Unrecorded
<1> QED
    BY <1>1, <1>2, <1>6, NoTxTyped, HolderKeeps DEF KeptInv, Locked

\* A death leaves everything where it is.
LEMMA CrashLoses ==
    ASSUME NEW p \in Procs, LockInv, KeptInv, Crash(p)
    PROVE  KeptInv'
<1> DEFINE t == tx[p]
<1>1. /\ tx' = [tx EXCEPT ![p] = NoTx] /\ UNCHANGED <<targets, owed, meddled>>
      /\ \A b \in Agents : litter'[b] = litter[b] \cup ({t.backup[b]} \ {Gone})
    BY DEF Crash, Return, Leave
<1>2. tx'[p] = NoTx /\ NoTx.at = "idle"
    BY <1>1 DEF LockInv, Typed, NoTx
<1>3. CASE t.at \in Locked
    <2>1. \A b \in Agents : Found(p, b)
        BY <1>3, HolderAlone
    <2>2. ASSUME NEW b \in Agents
          PROVE  Kept(p, b)' /\ Found(p, b)'
        BY <1>1, <1>2, <2>1, NothingInHand DEF Kept, Found, Untouched, Waiting, Unrecorded
    <2> QED
        BY <1>1, <1>2, <1>3, <2>2, NoTxTyped, HolderKeeps DEF KeptInv, Locked
<1>4. CASE t.at \notin Locked
    <2>1. \A b \in Agents : ~InHand(t, b)
        BY <1>4 DEF KeptInv, Kept, Untouched, LockInv, Typed, TxType, Places
    <2>2. litter' = litter
        BY <1>1, <2>1 DEF InHand, LockInv, Typed, Crash, Leave
    <2> QED
        BY <1>1, <1>2, <1>4, <2>2, NoTxTyped, NothingInHand, OtherKeeps
<1> QED
    BY <1>3, <1>4

\* A call that begins has nothing in hand.
LEMMA BeginLoses ==
    ASSUME NEW p \in Procs, NEW o \in Ops, NEW d \in Drafts \cup {NoDraft}, NEW k \in Keys,
           LockInv, KeptInv, Begin(p, o, d, k)
    PROVE  KeptInv'
<1> DEFINE u == [NoTx EXCEPT !.at = "lookup", !.op = o, !.draft = d, !.key = k, !.expected = deployed]
<1>1. u \in TxType /\ u.at = "lookup" /\ u.backup = NoTx.backup /\ u.installed = NoTx.installed
    <2>1. k \in Nat /\ NoTx \in TxType /\ "lookup" \in Places /\ deployed \in Digests
        BY BoundsAssumption, NoTxTyped DEF Keys, Places, LockInv, Typed
    <2> HIDE DEF NoTx
    <2> QED
        BY <2>1 DEF TxType
<1>2. tx[p].at \notin Locked /\ tx' = [tx EXCEPT ![p] = u] /\ UNCHANGED <<targets, litter, owed, meddled>>
    BY DEF Begin, Locked, history
<1>3. \A a \in Agents : ~InHand(u, a)
    BY <1>1, NothingInHand DEF InHand
<1> HIDE DEF u
<1> QED
    BY <1>1, <1>2, <1>3, OtherKeeps

\* The targets are what they should be when they are recorded.
LEMMA VerifyLoses ==
    ASSUME NEW p \in Procs, LockInv, KeptInv, Verify(p)
    PROVE  KeptInv'
<1> DEFINE t == tx[p]
           u == tx'[p]
<1>1. t \in TxType /\ targets \in [Agents -> Contents] /\ litter \in [Agents -> SUBSET Contents]
    BY DEF LockInv, Typed
<1>2. t.at = "verify" /\ UNCHANGED <<targets, litter, owed, meddled>>
    BY DEF Verify, history
<1>3. (\A b \in Agents : targets[b] = Desired(t)) \/ tx' = [tx EXCEPT ![p] = Raised(t)]
    BY DEF Verify, Raise
<1>5. /\ u \in TxType /\ tx' = [tx EXCEPT ![p] = u] /\ u.todo = Agents
      /\ u.backup = t.backup /\ u.installed = t.installed /\ u.previous = t.previous
      /\ u.op = t.op /\ u.draft = t.draft
      /\ \/ u.at = "recover"
         \/ u.at = "record" /\ \A b \in Agents : targets[b] = Desired(u)
    <2>1. CASE tx' = [tx EXCEPT ![p] = Raised(t)]
        BY <1>1, <2>1, RaisedMoves DEF LockInv, Typed
    <2>2. CASE /\ tx' = [tx EXCEPT ![p] = [t EXCEPT !.at = "record", !.todo = Agents]]
               /\ \A b \in Agents : targets[b] = Desired(t)
        BY <1>1, <2>2 DEF TxType, LockInv, Typed, Places, Locked, Desired
    <2> QED
        BY <2>1, <2>2 DEF Verify, Go, Raise
<1>7. \A b \in Agents : Found(p, b)
    BY <1>2, HolderAlone DEF Locked
<1>6. tx'[p] = u
    OBVIOUS
<1> HIDE DEF u
<1>8. \A b \in Agents : Kept(p, b)' /\ Found(p, b)'
    BY <1>1, <1>2, <1>5, <1>6, <1>7 DEF KeptInv, Kept, Found, Untouched, Waiting, Unrecorded,
        InHand, reviews, records, locks, bounds, history
<1>9. owed' \in [Agents -> Contents]
    BY <1>1, <1>2, <1>5 DEF Verify, KeptInv, reviews, records, locks, bounds, history
<1> QED
    BY <1>2, <1>5, <1>8, <1>9, HolderKeeps DEF Locked, Agents

\* What is owed after the record is in the targets.
LEMMA RecordLoses ==
    ASSUME NEW p \in Procs, LockInv, KeptInv, Record(p)
    PROVE  KeptInv'
<1> DEFINE t == tx[p]
           u == tx'[p]
<1>1. t \in TxType /\ targets \in [Agents -> Contents] /\ litter \in [Agents -> SUBSET Contents]
    BY DEF LockInv, Typed
<1>2. t.at = "record" /\ UNCHANGED <<targets, litter, meddled>> /\ t.todo # {}
    BY DEF Record, KeptInv, Locked
<1>3. Desired(t) \in Contents
    BY <1>1 DEF Desired, LockInv, Intents, Contents
<1>5. /\ u \in TxType /\ tx' = [tx EXCEPT ![p] = u] /\ u.todo # {}
      /\ u.backup = t.backup /\ u.installed = t.installed /\ u.previous = t.previous
      /\ u.op = t.op /\ u.draft = t.draft
      /\ \/ u.at = "recover" /\ u.todo = Agents /\ owed' = owed
         \/ /\ u.at \in {"audit", "clean"}
            /\ owed' = Claimed(t)
    <2>1. CASE tx' = [tx EXCEPT ![p] = Raised(t)] /\ owed' = owed
        BY <1>1, <2>1, RaisedMoves DEF LockInv, Typed, Agents
    <2>2. CASE /\ tx' = [tx EXCEPT ![p].at = IF t.op = "publish" THEN "audit" ELSE "clean", ![p].found = deployed]
               /\ owed' = Claimed(t)
        <3> DEFINE place == IF t.op = "publish" THEN "audit" ELSE "clean"
                   w == [t EXCEPT !.at = place, !.found = deployed]
        <3>1. place \in {"audit", "clean"} /\ place \in Places
            BY DEF Places, Locked
        <3>2. tx' = [tx EXCEPT ![p] = w]
            BY <2>2 DEF LockInv, Typed
        <3> HIDE DEF place
        <3>3. /\ w \in TxType /\ w.at = place /\ w.todo = t.todo /\ w.backup = t.backup
              /\ w.installed = t.installed /\ w.previous = t.previous /\ w.op = t.op /\ w.draft = t.draft
            BY <1>1, <3>1 DEF TxType, LockInv, Typed
        <3> HIDE DEF w
        <3> QED
            BY <1>2, <2>2, <3>1, <3>2, <3>3 DEF LockInv, Typed
    <2> QED
        BY <2>1, <2>2 DEF Record, Raise, Claimed
<1>7. \A b \in Agents : Found(p, b)
    BY <1>2, HolderAlone DEF Locked
<1>6. tx'[p] = u
    OBVIOUS
<1> HIDE DEF u
<1>8. \A b \in Agents : Kept(p, b)' /\ Found(p, b)'
    BY <1>1, <1>2, <1>5, <1>6, <1>7, <1>3 DEF Claimed, KeptInv, Kept, Found, Untouched, Waiting,
        Unrecorded, InHand, reviews, records, locks, bounds, history
<1>9. owed' \in [Agents -> Contents]
    BY <1>1, <1>2, <1>5, <1>3 DEF Record, Claimed, KeptInv, reviews, records, locks, bounds, history
<1> QED
    BY <1>2, <1>5, <1>8, <1>9, HolderKeeps DEF Locked, Agents

\* A recovered agent finds what it is owed in its directory.
LEMMA RecoverLoses ==
    ASSUME NEW p \in Procs, LockInv, KeptInv, Recover(p)
    PROVE  KeptInv'
<1> DEFINE t == tx[p]
           u == tx'[p]
           a == Last(t)
           out == [t EXCEPT !.backup[a] = Gone, !.installed = @ \ {a}]
<1>1. t \in TxType /\ targets \in [Agents -> Contents] /\ litter \in [Agents -> SUBSET Contents]
    BY DEF LockInv, Typed
<1>2. a \in Agents /\ t.at = "recover" /\ t.todo # {} /\ a \in t.todo
    <2>1. t.at = "recover"
        BY DEF Recover
    <2> QED
        BY <1>1, <2>1 DEF Last, Agents, TxType, KeptInv, Locked
<1>3. /\ out \in TxType /\ out.at = "recover" /\ out.todo = t.todo
      /\ out.backup = [t.backup EXCEPT ![a] = Gone] /\ out.installed = t.installed \ {a}
    BY <1>1, <1>2 DEF TxType, Contents
<1>4. tx' = [tx EXCEPT ![p] = After(out, a, "recover", "failed")]
    BY DEF Recover
<1>5. /\ u \in TxType /\ tx' = [tx EXCEPT ![p] = u]
      /\ u.backup = [t.backup EXCEPT ![a] = Gone] /\ u.installed = t.installed \ {a}
      /\ \/ u.at = "recover" /\ u.todo = t.todo \ {a} /\ t.todo # {a}
         \/ u.at = "failed" /\ u.todo = Agents /\ t.todo = {a}
    <2>1. {"recover", "failed"} \subseteq Places
        BY DEF Places, Locked
    <2> HIDE DEF out
    <2> QED
        BY <1>2, <1>3, <1>4, <2>1, AfterMoves DEF LockInv, Typed
<1>6. tx'[p] = u
    OBVIOUS
<1>7. \A b \in Agents : Kept(p, b) /\ Found(p, b)
    BY <1>2, HolderAlone DEF KeptInv, Locked
<1>8. t.backup \in [Agents -> Contents] /\ t.installed \subseteq Agents /\ UNCHANGED <<owed, meddled>>
    BY <1>1 DEF TxType, Recover, history
<1>9. /\ targets' = IF InHand(t, a) THEN [targets EXCEPT ![a] = t.backup[a]] ELSE targets
      /\ litter' = litter
    BY DEF Recover
<1>10. ASSUME NEW b \in Agents
       PROVE  Kept(p, b)' /\ Found(p, b)'
    <2>0. Kept(p, b) /\ Found(p, b)
        BY <1>7
    <2> HIDE DEF u
    <2>1. CASE b = a
        <3>1. ~InHand(u, a) /\ u.backup[a] = Gone /\ u.at \in {"recover", "failed"}
            BY <1>2, <1>5, <1>8 DEF InHand
        <3>2. InHand(t, a) /\ a \notin meddled => owed[a] \in {Gone, t.backup[a]} \cup litter[a]
            BY <1>2, <2>0, <2>1 DEF Kept, Unrecorded
        <3>3. ~InHand(t, a) /\ a \notin meddled => owed[a] \in {Gone, targets[a]} \cup litter[a]
            BY <2>0, <2>1 DEF Found, InHand
        <3>4. a \notin meddled => owed[a] \in {Gone, targets'[a]} \cup litter'[a]
            BY <1>1, <1>2, <1>9, <3>2, <3>3
        <3> HIDE DEF a
        <3> QED
            BY <1>6, <1>8, <2>1, <3>1, <3>4 DEF Kept, Found, Untouched, Waiting, Unrecorded
    <2>2. CASE b # a
        <3>1. u.backup[b] = t.backup[b] /\ targets'[b] = targets[b] /\ litter[b] \subseteq litter'[b]
            BY <1>1, <1>2, <1>5, <1>8, <1>9, <2>2
        <3>2. InHand(u, b) <=> InHand(t, b)
            BY <1>5, <3>1, <2>2 DEF InHand
        <3>3. Untouched(u, b) => Untouched(t, b)
            BY <1>2, <1>5, <2>2 DEF Untouched, Waiting
        <3>4. u.at \in {"recover", "failed"}
            BY <1>5
        <3> HIDE DEF a, t
        <3>5. t.at = "recover" /\ tx[p] = t
            BY <1>2 DEF t
        <3> QED
            BY <1>6, <1>8, <2>0, <3>1, <3>2, <3>3, <3>4, <3>5 DEF Kept, Found, Waiting, Unrecorded
    <2> QED
        BY <2>1, <2>2
<1> QED
    BY <1>2, <1>5, <1>8, <1>10, HolderKeeps DEF Locked, Agents, KeptInv

\* An agent whose recovery fails has its backup.
LEMMA RecoverFailsLoses ==
    ASSUME NEW p \in Procs, LockInv, KeptInv, RecoverFails(p)
    PROVE  KeptInv'
<1> DEFINE t == tx[p]
           u == tx'[p]
           a == Last(t)
           out == [t EXCEPT !.backup[a] = Gone, !.installed = @ \ {a}]
<1>1. t \in TxType /\ targets \in [Agents -> Contents] /\ litter \in [Agents -> SUBSET Contents]
    BY DEF LockInv, Typed
<1>2. a \in Agents /\ t.at = "recover" /\ t.todo # {} /\ a \in t.todo
    <2>1. t.at = "recover"
        BY DEF RecoverFails
    <2> QED
        BY <1>1, <2>1 DEF Last, Agents, TxType, KeptInv, Locked
<1>3. /\ out \in TxType /\ out.at = "recover" /\ out.todo = t.todo
      /\ out.backup = [t.backup EXCEPT ![a] = Gone] /\ out.installed = t.installed \ {a}
    BY <1>1, <1>2 DEF TxType, Contents
<1>4. tx' = [tx EXCEPT ![p] = After(out, a, "recover", "failed")]
    BY DEF RecoverFails
<1>5. /\ u \in TxType /\ tx' = [tx EXCEPT ![p] = u]
      /\ u.backup = [t.backup EXCEPT ![a] = Gone] /\ u.installed = t.installed \ {a}
      /\ \/ u.at = "recover" /\ u.todo = t.todo \ {a} /\ t.todo # {a}
         \/ u.at = "failed" /\ u.todo = Agents /\ t.todo = {a}
    <2>1. {"recover", "failed"} \subseteq Places
        BY DEF Places, Locked
    <2> HIDE DEF out
    <2> QED
        BY <1>2, <1>3, <1>4, <2>1, AfterMoves DEF LockInv, Typed
<1>6. tx'[p] = u
    OBVIOUS
<1>7. \A b \in Agents : Kept(p, b) /\ Found(p, b)
    BY <1>2, HolderAlone DEF KeptInv, Locked
<1>8. t.backup \in [Agents -> Contents] /\ t.installed \subseteq Agents /\ UNCHANGED <<owed, meddled>>
    BY <1>1 DEF TxType, RecoverFails, history
<1>9. /\ \E left \in {targets[a], Gone} : targets' = [targets EXCEPT ![a] = left]
      /\ litter' = [litter EXCEPT ![a] = @ \cup ({t.backup[a]} \ {Gone})] /\ InHand(t, a)
    BY DEF RecoverFails
<1>10. ASSUME NEW b \in Agents
       PROVE  Kept(p, b)' /\ Found(p, b)'
    <2>0. Kept(p, b) /\ Found(p, b)
        BY <1>7
    <2> HIDE DEF u
    <2>1. CASE b = a
        <3>1. ~InHand(u, a) /\ u.backup[a] = Gone /\ u.at \in {"recover", "failed"}
            BY <1>2, <1>5, <1>8 DEF InHand
        <3>2. InHand(t, a) /\ a \notin meddled => owed[a] \in {Gone, t.backup[a]} \cup litter[a]
            BY <1>2, <2>0, <2>1 DEF Kept, Unrecorded
        <3>3. ~InHand(t, a) /\ a \notin meddled => owed[a] \in {Gone, targets[a]} \cup litter[a]
            BY <2>0, <2>1 DEF Found, InHand
        <3>4. a \notin meddled => owed[a] \in {Gone, targets'[a]} \cup litter'[a]
            BY <1>1, <1>2, <1>9, <3>2, <3>3
        <3> HIDE DEF a
        <3> QED
            BY <1>6, <1>8, <2>1, <3>1, <3>4 DEF Kept, Found, Untouched, Waiting, Unrecorded
    <2>2. CASE b # a
        <3>1. u.backup[b] = t.backup[b] /\ targets'[b] = targets[b] /\ litter[b] \subseteq litter'[b]
            BY <1>1, <1>2, <1>5, <1>8, <1>9, <2>2
        <3>2. InHand(u, b) <=> InHand(t, b)
            BY <1>5, <3>1, <2>2 DEF InHand
        <3>3. Untouched(u, b) => Untouched(t, b)
            BY <1>2, <1>5, <2>2 DEF Untouched, Waiting
        <3>4. u.at \in {"recover", "failed"}
            BY <1>5
        <3> HIDE DEF a, t
        <3>5. t.at = "recover" /\ tx[p] = t
            BY <1>2 DEF t
        <3> QED
            BY <1>6, <1>8, <2>0, <3>1, <3>2, <3>3, <3>4, <3>5 DEF Kept, Found, Waiting, Unrecorded
    <2> QED
        BY <2>1, <2>2
<1> QED
    BY <1>2, <1>5, <1>8, <1>10, HolderKeeps DEF Locked, Agents, KeptInv

\* A review, and the removal of a lock, touch no directory.
LEMMA ReviewLoses ==
    ASSUME KeptInv, UNCHANGED <<tx, targets, litter, owed, meddled>>
    PROVE  KeptInv'
BY DEF KeptInv, Kept, NothingLost

\* An edit is what its agent should find, unless a transaction has the directory in hand.
LEMMA EditLoses ==
    ASSUME NEW a \in Agents, LockInv, KeptInv, Edit(a)
    PROVE  KeptInv'
<1> DEFINE n == edits + 1
           taken == \E p \in Procs : InHand(tx[p], a)
<1>1. n \in Contents /\ n # Gone
    BY NamesAssumption, BoundsAssumption DEF Edit, LockInv, Typed, Contents, Foreign
<1>2. /\ targets' = [targets EXCEPT ![a] = n] /\ UNCHANGED <<tx, litter>>
      /\ owed' = IF taken THEN owed ELSE [owed EXCEPT ![a] = n]
      /\ meddled' = IF taken THEN meddled \cup {a} ELSE meddled
    BY DEF Edit
<1>3. targets \in [Agents -> Contents]
    BY DEF LockInv, Typed
<1> HIDE DEF n
<1>4. owed' \in [Agents -> Contents] /\ \A b \in Agents \ {a} : owed'[b] = owed[b] /\ targets'[b] = targets[b]
    BY <1>1, <1>2, <1>3 DEF KeptInv
<1>5. targets'[a] = n /\ (~taken => owed'[a] = n)
    BY <1>2, <1>3 DEF KeptInv
<1>6. ASSUME NEW p \in Procs, NEW b \in Agents
      PROVE  Kept(p, b)'
    <2>1. CASE b = a
        <3>1. CASE taken
            BY <1>1, <1>2, <1>5, <2>1, <3>1 DEF KeptInv, Kept
        <3>2. CASE ~taken
            BY <1>1, <1>2, <1>5, <2>1, <3>2 DEF KeptInv, Kept
        <3> QED
            BY <3>1, <3>2
    <2>2. CASE b # a
        BY <1>2, <1>4, <2>2 DEF KeptInv, Kept
    <2> QED
        BY <2>1, <2>2
<1>7. NothingLost'
    BY <1>2, <1>4, <1>5 DEF KeptInv, NothingLost
<1> QED
    BY <1>2, <1>4, <1>6, <1>7 DEF KeptInv

\* KeptInv is inductive, beside LockInv.
LEMMA NextLoses ==
    ASSUME LockInv, KeptInv, [Next]_vars
    PROVE  KeptInv'
<1>1. ASSUME NEW d \in Drafts, Approve(d) \/ ApproveFails(d) \/ Reject(d) \/ Revise(d) \/ Validate(d)
      PROVE  KeptInv'
    BY <1>1, ReviewLoses DEF Approve, ApproveFails, Reject, Revise, Validate, Review, history
<1>2. ASSUME NEW p \in Procs, Step(p)
      PROVE  KeptInv'
    BY <1>2, LookupLoses, AnsweredLoses, TakeLockLoses, TimeoutLoses, CheckLoses, MarkLoses,
        MoveAsideLoses,
        InstallLoses, VerifyLoses, RecordLoses, AuditLoses, CleanLoses, RecoverLoses, FailedLoses DEF Step
<1>3. ASSUME NEW p \in Procs,
             MarkFails(p) \/ AuditFails(p) \/ RegistryStays(p) \/ CleanFails(p) \/ Fails(p) \/ RecoverFails(p)
                 \/ FailedFails(p) \/ Crash(p)
      PROVE  KeptInv'
    BY <1>3, MarkFailsLoses, AuditFailsLoses, RegistryStaysLoses, CleanFailsLoses,
        FailsLoses, RecoverFailsLoses, FailedFailsLoses, CrashLoses
<1>4. ASSUME NEW p \in Procs, NEW o \in Ops, NEW d \in Drafts \cup {NoDraft}, NEW k \in Keys,
             Begin(p, o, d, k)
      PROVE  KeptInv'
    BY <1>4, BeginLoses
<1>5. CASE Unlock
    BY <1>5, ReviewLoses DEF Unlock, history
<1>6. CASE UNCHANGED vars
    BY <1>6, ReviewLoses DEF vars, history
<1> QED
    BY <1>1, <1>2, <1>3, <1>4, <1>5, <1>6, EditLoses DEF Next

\* What an agent should find is in its directory or in a backup, whatever fails and whoever
\* dies (the order of the renames of _run_transaction, of its recovery and of the deletion
\* of its backups).
THEOREM NothingIsLost == Spec => []NothingLost
<1>1. LockInv /\ KeptInv /\ [Next]_vars => KeptInv'
    BY NextLoses
<1>2. KeptInv => NothingLost
    BY DEF KeptInv
<1> QED
    BY <1>1, <1>2, InitKept, LocksCorrect, PTL DEF Spec
-----------------------------------------------------------------------------
(* Both directories are settled, and edits are kept *)

\* What a transaction has looked at, and what it has put in place.
Looked(t, a) ==
    \/ t.at \in {"mark", "move", "install", "verify", "record", "audit"}
    \/ t.at = "check" /\ a \notin t.todo
Placed(t, a) ==
    /\ t.op # "disable"
    /\ t.at \in {"verify", "record", "audit"} \/ (t.at \in {"move", "install"} /\ a \notin t.todo)

\* What an agent may be owed: an edit, or what a deployment recorded.
Due(digests, a) == Foreign \cup {Expected(digests, a)}

\* What process p has in hand of agent a.  An edit it has in hand is in its backup, or lies
\* where nothing deletes it; and, unless a death, a failed restoration or an edit came
\* between, the backup is what the agent is owed, and what was found was due.
Sure(p, a) ==
    LET t == tx[p]
    IN  /\ Placed(t, a) => a \in t.installed
        /\ Looked(t, a) => t.previous[a] = Expected(t.expected, a)
        /\ InHand(t, a) /\ owed[a] \in Foreign
               => t.at \in Unrecorded /\ owed[a] \in {t.backup[a]} \cup litter[a]
        /\ a \notin torn \cup meddled =>
               /\ t.at \in Unrecorded /\ InHand(t, a) => owed[a] = t.backup[a]
               /\ Looked(t, a)
                      => t.previous[a] \in Due(IF t.at = "audit" THEN t.found ELSE deployed, a)

\* What lies in the directory of agent a, if none of ps has it in hand.
Lies(a, ps) ==
    /\ owed[a] \in Foreign /\ (\A p \in ps : ~InHand(tx[p], a))
           => owed[a] \in {targets[a]} \cup litter[a]
    /\ a \notin torn \cup meddled =>
           /\ owed[a] \in Due(deployed, a)
           /\ (\A p \in ps : tx[p].at \in Unrecorded => ~InHand(tx[p], a)) => targets[a] = owed[a]

SettledInv == \A a \in Agents : Lies(a, Procs) /\ \A p \in Procs : Sure(p, a)

\* The directories are empty and owed nothing at the start.
LEMMA InitSettled == Init => SettledInv
BY DEF Init, SettledInv, Sure, Lies, Looked, Placed, Due, Expected, NoTx, InHand, Unrecorded

\* A draft is no edit.
LEMMA DraftsAreNoEdits ==
    ASSUME LockInv, NEW p \in Procs, NEW a \in Agents
    PROVE  Desired(tx[p]) \notin Foreign /\ Expected(tx[p].expected, a) \notin Foreign
<1>1. tx[p] \in TxType
    BY DEF LockInv, Typed
<1>2. Desired(tx[p]) \in Drafts \cup {Gone} /\ Expected(tx[p].expected, a) \in Drafts \cup {Gone}
    BY <1>1 DEF Desired, Expected, TxType, Digests, LockInv, Intents
<1>3. Foreign \subseteq Int
    BY BoundsAssumption DEF Foreign
<1> QED
    BY <1>2, <1>3, NamesAssumption

\* What there is to know of the one transaction that holds deployments.lock.
LEMMA HolderSettled ==
    ASSUME NEW p \in Procs, LockInv, KeptInv, SettledInv, tx[p].at \in Locked, NEW a \in Agents
    PROVE  Sure(p, a) /\ Lies(a, {p})
<1>1. \A q \in Procs \ {p} : ~InHand(tx[q], a)
    BY HolderAlone
<1> QED
    BY <1>1 DEF SettledInv, Lies

\* What a step of the holder has to show, for each agent.
LEMMA HolderSettles ==
    ASSUME NEW p \in Procs, NEW u \in TxType, LockInv, KeptInv, SettledInv, tx[p].at \in Locked,
           tx' = [tx EXCEPT ![p] = u], \A a \in Agents : Sure(p, a)' /\ Lies(a, {p})'
    PROVE  SettledInv'
<1>1. tx'[p] = u /\ \A q \in Procs \ {p} : tx'[q] = tx[q]
    BY DEF LockInv, Typed
<1>2. \A q \in Procs \ {p} : tx'[q].at \in {"idle", "lookup", "lock"}
    BY <1>1, HolderAlone
<1>3. \A q \in Procs \ {p}, a \in Agents : ~InHand(tx'[q], a)
    BY <1>1, HolderAlone
<1>4. \A q \in Procs \ {p}, a \in Agents : Sure(q, a)'
    BY <1>2, <1>3 DEF Sure, Looked, Placed
<1>5. \A a \in Agents : Lies(a, Procs)'
    BY <1>3 DEF Lies
<1> QED
    BY <1>4, <1>5 DEF SettledInv

\* A step of a call that does not hold the lock, and has nothing in hand.
LEMMA OtherSettles ==
    ASSUME NEW p \in Procs, NEW u \in TxType, LockInv, KeptInv, SettledInv,
           tx[p].at \notin Locked, tx' = [tx EXCEPT ![p] = u],
           UNCHANGED <<targets, owed, deployed, meddled>>,
           torn \subseteq torn', \A a \in Agents : litter[a] \subseteq litter'[a],
           u.at \in {"idle", "lookup", "lock"} \/ (u.at = "check" /\ u.todo = Agents),
           \A a \in Agents : ~InHand(u, a)
    PROVE  SettledInv'
<1>1. tx'[p] = u /\ \A q \in Procs \ {p} : tx'[q] = tx[q]
    BY DEF LockInv, Typed
<1>2. \A a \in Agents : ~InHand(tx[p], a)
    BY DEF KeptInv, Kept, Untouched, LockInv, Typed, TxType, Places
<1>3. \A a \in Agents : Sure(p, a)'
    BY <1>1 DEF Sure, Looked, Placed
<1>4. ASSUME NEW q \in Procs \ {p}, NEW a \in Agents PROVE Sure(q, a)'
    <2>1. Sure(q, a)
        BY DEF SettledInv
    <2> QED
        BY <1>1, <2>1 DEF Sure
<1>5. ASSUME NEW a \in Agents PROVE Lies(a, Procs)'
    <2>1. Lies(a, Procs)
        BY DEF SettledInv
    <2> QED
        BY <1>1, <1>2, <2>1 DEF Lies
<1> QED
    BY <1>3, <1>4, <1>5 DEF SettledInv

\* A step of the holder that touches no directory and keeps what it has in hand.
LEMMA QuietSettles ==
    ASSUME NEW p \in Procs, NEW u \in TxType, LockInv, KeptInv, SettledInv,
           tx[p].at \in Unrecorded, u.at \in Unrecorded, tx' = [tx EXCEPT ![p] = u],
           UNCHANGED <<targets, litter, owed, deployed, torn, meddled>>,
           u.backup = tx[p].backup, u.installed = tx[p].installed,
           \A a \in Agents : Placed(u, a) => a \in u.installed,
           \A a \in Agents : Looked(u, a) =>
               /\ u.previous[a] = Expected(u.expected, a)
               /\ a \notin torn \cup meddled => u.previous[a] \in Due(deployed, a)
    PROVE  SettledInv'
<1>1. tx[p].at \in Locked
    BY DEF Unrecorded, Locked
<1>2. tx'[p] = u /\ u.at # "audit"
    BY DEF LockInv, Typed, Unrecorded
<1>3. ASSUME NEW a \in Agents PROVE Sure(p, a)' /\ Lies(a, {p})'
    <2>1. Sure(p, a) /\ Lies(a, {p})
        BY <1>1, HolderSettled
    <2>2. InHand(u, a) <=> InHand(tx[p], a)
        BY DEF InHand
    <2>3. Sure(p, a)'
        BY <1>2, <2>1, <2>2 DEF Sure
    <2>4. Lies(a, {p})'
        BY <1>2, <2>1, <2>2 DEF Lies
    <2> QED
        BY <2>3, <2>4
<1> QED
    BY <1>1, <1>3, HolderSettles

\* The end of a call: what it had in hand is recorded, put back, or left in a backup and
\* remembered as torn.
LEMMA EndSettles ==
    ASSUME NEW p \in Procs, LockInv, KeptInv, SettledInv, tx[p].at \in Locked,
           tx' = [tx EXCEPT ![p] = NoTx], UNCHANGED <<targets, owed, deployed, meddled>>,
           torn \subseteq torn', \A a \in Agents : litter[a] \subseteq litter'[a],
           \A a \in Agents : tx[p].at \in Unrecorded /\ InHand(tx[p], a) =>
               a \in torn' /\ (tx[p].backup[a] # Gone => tx[p].backup[a] \in litter'[a])
    PROVE  SettledInv'
<1>1. tx'[p] = NoTx
    BY DEF LockInv, Typed
<1>2. NoTx.at = "idle" /\ \A a \in Agents : ~InHand(NoTx, a)
    BY NothingInHand DEF NoTx
<1>3. ASSUME NEW a \in Agents PROVE Sure(p, a)' /\ Lies(a, {p})'
    <2>1. Sure(p, a) /\ Lies(a, {p})
        BY HolderSettled
    <2>2. Sure(p, a)'
        BY <1>1, <1>2 DEF Sure, Looked, Placed
    <2>3. ASSUME owed[a] \in Foreign PROVE owed[a] \in {targets[a]} \cup litter'[a]
        <3>1. owed[a] # Gone
            BY <2>3, NamesAssumption, BoundsAssumption DEF Foreign
        <3>2. CASE InHand(tx[p], a)
            BY <2>1, <2>3, <3>1, <3>2 DEF Sure
        <3>3. CASE ~InHand(tx[p], a)
            BY <2>1, <2>3, <3>3 DEF Lies
        <3> QED
            BY <3>2, <3>3
    <2>4. Lies(a, {p})'
        BY <1>1, <1>2, <2>1, <2>3 DEF Lies
    <2> QED
        BY <2>2, <2>4
<1> QED
    BY <1>3, NoTxTyped, HolderSettles

\* The steps of a call before it holds the lock.
LEMMA CallSettles ==
    ASSUME NEW p \in Procs, LockInv, KeptInv, SettledInv,
           \/ Lookup(p) \/ Answered(p) \/ TakeLock(p) \/ Timeout(p)
           \/ \E o \in Ops, d \in Drafts \cup {NoDraft}, k \in Keys : Begin(p, o, d, k)
    PROVE  SettledInv'
<1> DEFINE t == tx[p]
<1>1. t \in TxType
    BY DEF LockInv, Typed
<1>2. \A a \in Agents : litter[a] \subseteq litter[a]
    OBVIOUS
<1>3. t.at \notin Locked => \A a \in Agents : ~InHand(t, a)
    BY <1>1 DEF KeptInv, Kept, Untouched, TxType, Places
<1>4. CASE Lookup(p) \/ TakeLock(p)
    <2> DEFINE place == IF t.at = "lookup" THEN "lock" ELSE "check"
               u == [t EXCEPT !.at = place, !.todo = Agents]
    <2>1. /\ t.at \in {"lookup", "lock"} /\ tx' = [tx EXCEPT ![p] = u]
          /\ UNCHANGED <<targets, litter, owed, deployed, torn, meddled>>
        BY <1>1, <1>4 DEF Lookup, TakeLock, Go, records, history, LockInv, Typed
    <2>2. /\ u \in TxType /\ u.at \in {"lock", "check"} /\ u.todo = Agents
          /\ u.backup = t.backup /\ u.installed = t.installed
        BY <1>1 DEF TxType, Places, Locked
    <2>3. t.at \notin Locked /\ \A a \in Agents : ~InHand(u, a)
        BY <1>3, <2>1, <2>2 DEF Locked, InHand
    <2> HIDE DEF u
    <2> QED
        BY <1>2, <2>1, <2>2, <2>3, OtherSettles
<1>5. CASE Answered(p) \/ Timeout(p)
    <2>1. /\ t.at \in {"lookup", "lock"} /\ tx' = [tx EXCEPT ![p] = NoTx]
          /\ UNCHANGED <<targets, litter, owed, deployed, torn, meddled>>
        BY <1>5 DEF Answered, Timeout, Return, records, history
    <2>2. NoTx.at = "idle" /\ t.at \notin Locked
        BY <2>1 DEF NoTx, Locked
    <2> QED
        BY <1>2, <2>1, <2>2, NoTxTyped, NothingInHand, OtherSettles
<1>6. ASSUME NEW o \in Ops, NEW d \in Drafts \cup {NoDraft}, NEW k \in Keys, Begin(p, o, d, k)
      PROVE  SettledInv'
    <2> DEFINE u == [NoTx EXCEPT !.at = "lookup", !.op = o, !.draft = d, !.key = k,
                                 !.expected = deployed]
    <2>1. /\ t.at = "idle" /\ tx' = [tx EXCEPT ![p] = u]
          /\ UNCHANGED <<targets, litter, owed, deployed, torn, meddled>>
        BY <1>6 DEF Begin, records, history
    <2>2. u \in TxType
        <3>1. k \in Nat /\ NoTx \in TxType /\ "lookup" \in Places /\ deployed \in Digests
            BY BoundsAssumption, NoTxTyped DEF Keys, Places, LockInv, Typed
        <3> HIDE DEF NoTx
        <3> QED
            BY <3>1 DEF TxType
    <2>3. u.at = "lookup" /\ t.at \notin Locked /\ \A a \in Agents : ~InHand(u, a)
        BY <2>1 DEF NoTx, Locked, InHand
    <2> HIDE DEF u
    <2> QED
        BY <1>2, <2>1, <2>2, <2>3, OtherSettles
<1> QED
    BY <1>4, <1>5, <1>6

\* A step that fails with no effect on the directories leaves them to the recovery.
LEMMA RaiseSettles ==
    ASSUME NEW p \in Procs, LockInv, KeptInv, SettledInv, tx[p].at \in Unrecorded,
           tx' = [tx EXCEPT ![p] = Raised(tx[p])],
           UNCHANGED <<targets, litter, owed, deployed, torn, meddled>>
    PROVE  SettledInv'
<1> DEFINE u == Raised(tx[p])
<1>1. tx[p] \in TxType
    BY DEF LockInv, Typed
<1>2. /\ u \in TxType /\ u.at = "recover" /\ u.backup = tx[p].backup
      /\ u.installed = tx[p].installed
    BY <1>1, RaisedMoves
<1>3. u.at \in Unrecorded /\ \A a \in Agents : ~Placed(u, a) /\ ~Looked(u, a)
    BY <1>2 DEF Unrecorded, Placed, Looked
<1> HIDE DEF u
<1>4. tx' = [tx EXCEPT ![p] = u]
    BY DEF u
<1> QED
    BY <1>2, <1>3, <1>4, QuietSettles

\* A change of place, with all the agents to do, keeps what was looked at and put in place.
LEMMA GoSettles ==
    ASSUME NEW p \in Procs, NEW place \in {"move", "record"},
           LockInv, KeptInv, SettledInv,
           tx[p].at = IF place = "move" THEN "mark" ELSE "verify",
           tx' = [tx EXCEPT ![p] = [tx[p] EXCEPT !.at = place, !.todo = Agents]],
           UNCHANGED <<targets, litter, owed, deployed, torn, meddled>>
    PROVE  SettledInv'
<1> DEFINE t == tx[p]
           u == [t EXCEPT !.at = place, !.todo = Agents]
<1>1. t \in TxType /\ t.at \in Unrecorded /\ t.at \in Locked /\ t.at # "audit"
    BY DEF LockInv, Typed, Unrecorded, Locked
<1>2. /\ u \in TxType /\ u.at = place /\ u.todo = Agents /\ u.backup = t.backup
      /\ u.installed = t.installed /\ u.previous = t.previous /\ u.op = t.op
      /\ u.expected = t.expected
    BY <1>1 DEF TxType, Places, Locked
<1>3. \A a \in Agents : Sure(p, a)
    BY <1>1, HolderSettled
<1> HIDE DEF u
<1>4. \A a \in Agents : Placed(u, a) => a \in u.installed
    BY <1>2, <1>3 DEF Placed, Sure
<1>5. \A a \in Agents : Looked(t, a)
    BY DEF Looked
<1>6. \A a \in Agents : /\ u.previous[a] = Expected(u.expected, a)
                        /\ a \notin torn \cup meddled => u.previous[a] \in Due(deployed, a)
    BY <1>1, <1>2, <1>3, <1>5 DEF Sure
<1>7. u.at \in Unrecorded /\ tx' = [tx EXCEPT ![p] = u]
    BY <1>2 DEF Unrecorded, u
<1> QED
    BY <1>1, <1>2, <1>4, <1>6, <1>7, QuietSettles

\* The steps that fail before they do anything.
LEMMA FailsSettles ==
    ASSUME NEW p \in Procs, LockInv, KeptInv, SettledInv, Fails(p) \/ MarkFails(p)
    PROVE  SettledInv'
BY RaiseSettles DEF Fails, MarkFails, Raise, Unrecorded, records, history

\* The draft is marked, or not.
LEMMA MarkSettles ==
    ASSUME NEW p \in Procs, LockInv, KeptInv, SettledInv, Mark(p)
    PROVE  SettledInv'
<1>1. tx[p].at = "mark" /\ UNCHANGED <<targets, litter, owed, deployed, torn, meddled>>
    BY DEF Mark, records, history
<1>2. \/ tx' = [tx EXCEPT ![p] = Raised(tx[p])]
      \/ tx' = [tx EXCEPT ![p] = [tx[p] EXCEPT !.at = "move", !.todo = Agents]]
    BY DEF Mark, Go, Raise, LockInv, Typed
<1> QED
    BY <1>1, <1>2, RaiseSettles, GoSettles DEF Unrecorded

\* The targets are verified, or not.
LEMMA VerifySettles ==
    ASSUME NEW p \in Procs, LockInv, KeptInv, SettledInv, Verify(p)
    PROVE  SettledInv'
<1>1. tx[p].at = "verify" /\ UNCHANGED <<targets, litter, owed, deployed, torn, meddled>>
    BY DEF Verify, records, history
<1>2. \/ tx' = [tx EXCEPT ![p] = Raised(tx[p])]
      \/ tx' = [tx EXCEPT ![p] = [tx[p] EXCEPT !.at = "record", !.todo = Agents]]
    BY DEF Verify, Go, Raise, LockInv, Typed
<1> QED
    BY <1>1, <1>2, RaiseSettles, GoSettles DEF Unrecorded

\* What is found in a directory is what is expected there, and was due.
LEMMA CheckSettles ==
    ASSUME NEW p \in Procs, LockInv, KeptInv, SettledInv, Check(p)
    PROVE  SettledInv'
<1> DEFINE t == tx[p]
           u == tx'[p]
           a == First(t)
           next == IF t.op = "publish" THEN "mark" ELSE "move"
<1>1. /\ t.at = "check" /\ t.at \in Locked /\ t.at \in Unrecorded
      /\ UNCHANGED <<targets, litter, owed, deployed, torn, meddled>>
    BY DEF Check, Locked, Unrecorded, records, history
<1>2. t.previous \in [Agents -> Contents] /\ t.todo \subseteq Agents /\ a \in Agents
    BY DEF LockInv, Typed, TxType, First, Agents
<1>3. /\ u \in TxType /\ tx' = [tx EXCEPT ![p] = u]
      /\ u.backup = t.backup /\ u.installed = t.installed
      /\ u.op = t.op /\ u.expected = t.expected
      /\ u.previous = [t.previous EXCEPT ![a] = targets[a]]
      /\ \/ u.at = "recover" /\ u.todo = Agents
         \/ /\ targets[a] = Expected(t.expected, a)
            /\ \/ u.at = "check" /\ u.todo = t.todo \ {a} /\ t.todo # {a}
               \/ u.at = next /\ u.todo = Agents /\ t.todo = {a}
    BY CheckMoves
<1>4. \A b \in Agents : Sure(p, b) /\ Lies(b, {p}) /\ ~InHand(t, b)
    BY <1>1, HolderSettled DEF KeptInv, Kept, Untouched
<1>5. u.at \in {"recover", "check", "mark", "move"} /\ (u.at = "move" => u.todo = Agents)
    BY <1>3
<1> HIDE DEF u, a, next
<1>6. u.at \in Unrecorded /\ \A b \in Agents : ~Placed(u, b)
    BY <1>5 DEF Unrecorded, Placed
<1>7. ASSUME NEW b \in Agents, Looked(u, b)
      PROVE  /\ u.previous[b] = Expected(u.expected, b)
             /\ b \notin torn \cup meddled => u.previous[b] \in Due(deployed, b)
    <2>1. targets[a] = Expected(t.expected, a) /\ (b = a \/ b \notin t.todo)
        BY <1>3, <1>7 DEF Looked
    <2>2. CASE b = a
        <3>1. u.previous[b] = targets[b]
            BY <1>2, <1>3, <2>2
        <3>2. b \notin torn \cup meddled => targets[b] = owed[b] /\ owed[b] \in Due(deployed, b)
            BY <1>4 DEF Lies
        <3> QED
            BY <1>3, <2>1, <2>2, <3>1, <3>2
    <2>3. CASE b # a
        <3>1. u.previous[b] = t.previous[b] /\ Looked(t, b)
            BY <1>1, <1>2, <1>3, <2>1, <2>3 DEF Looked
        <3> QED
            BY <1>1, <1>3, <1>4, <3>1 DEF Sure
    <2> QED
        BY <2>2, <2>3
<1> QED
    BY <1>1, <1>3, <1>6, <1>7, QuietSettles

\* What is moved aside is what the agent is owed.
LEMMA MoveAsideSettles ==
    ASSUME NEW p \in Procs, LockInv, KeptInv, SettledInv, MoveAside(p)
    PROVE  SettledInv'
<1> DEFINE t == tx[p]
           u == tx'[p]
           a == First(t)
<1>1. /\ t.at = "move" /\ t.at \in Locked /\ t.at \in Unrecorded
      /\ targets' = [targets EXCEPT ![a] = Gone]
      /\ UNCHANGED <<litter, owed, deployed, torn, meddled>>
    BY DEF MoveAside, Locked, Unrecorded, records, history
<1>2. /\ t.backup \in [Agents -> Contents] /\ targets \in [Agents -> Contents]
      /\ t.todo \subseteq Agents /\ a \in Agents /\ a \in t.todo
    BY <1>1 DEF LockInv, Typed, TxType, First, Agents, KeptInv
<1>3. /\ u \in TxType /\ tx' = [tx EXCEPT ![p] = u]
      /\ u.backup = [t.backup EXCEPT ![a] = targets[a]] /\ u.installed = t.installed
      /\ u.previous = t.previous /\ u.op = t.op /\ u.expected = t.expected
      /\ \/ u.at = "recover"
         \/ u.at \in {"move", "verify"} /\ t.op = "disable"
         \/ u.at = "install" /\ u.todo = t.todo
    BY MoveAsideMoves
<1>4. \A b \in Agents : Sure(p, b) /\ Lies(b, {p}) /\ Kept(p, b)
    BY <1>1, HolderSettled DEF KeptInv
<1>5. tx'[p] = u /\ tx[p] = t
    OBVIOUS
<1>6. u.at \in Unrecorded /\ u.at # "audit"
    BY <1>3 DEF Unrecorded
<1> HIDE DEF t, u, a
<1>7. \A b \in Agents : Looked(t, b)
    BY <1>1 DEF Looked
<1>8. ASSUME NEW b \in Agents PROVE Sure(p, b)' /\ Lies(b, {p})'
    <2>1. Placed(u, b) => b # a /\ Placed(t, b)
        BY <1>1, <1>2, <1>3 DEF Placed
    <2>2. /\ Placed(u, b) => b \in u.installed
          /\ u.previous[b] = Expected(u.expected, b)
          /\ b \notin torn \cup meddled => u.previous[b] \in Due(deployed, b)
        BY <1>1, <1>3, <1>4, <1>5, <1>7, <2>1 DEF Sure
    <2>3. CASE b = a
        <3>1. ~InHand(t, b)
            BY <1>1, <1>2, <1>4, <1>5, <2>3 DEF Kept, Untouched, Waiting
        <3>2. u.backup[b] = targets[b] /\ targets'[b] = Gone /\ b \notin u.installed
            BY <1>1, <1>2, <1>3, <2>3, <3>1 DEF InHand
        <3>3. owed[b] \in Foreign => owed[b] \in {u.backup[b]} \cup litter[b]
            BY <1>4, <1>5, <3>1, <3>2 DEF Lies
        <3>4. b \notin torn \cup meddled => owed[b] = u.backup[b] /\ owed[b] \in Due(deployed, b)
            BY <1>4, <1>5, <3>1, <3>2 DEF Lies
        <3>5. Sure(p, b)'
            BY <1>1, <1>5, <1>6, <2>2, <3>3, <3>4 DEF Sure
        <3>6. ~InHand(u, b) => u.backup[b] = targets'[b]
            BY <3>2 DEF InHand
        <3>7. Lies(b, {p})'
            BY <1>1, <1>5, <1>6, <3>3, <3>4, <3>6 DEF Lies
        <3> QED
            BY <3>5, <3>7
    <2>4. CASE b # a
        <3>1. u.backup[b] = t.backup[b] /\ targets'[b] = targets[b]
            BY <1>1, <1>2, <1>3, <2>4
        <3>2. InHand(u, b) <=> InHand(t, b)
            BY <1>3, <3>1 DEF InHand
        <3>3. Sure(p, b)'
            BY <1>1, <1>4, <1>5, <1>6, <2>2, <3>1, <3>2 DEF Sure
        <3>4. Lies(b, {p})'
            BY <1>1, <1>4, <1>5, <1>6, <3>1, <3>2 DEF Lies
        <3> QED
            BY <3>3, <3>4
    <2> QED
        BY <2>3, <2>4
<1> QED
    BY <1>1, <1>3, <1>5, <1>8, HolderSettles

\* A version is put where nothing lies.
LEMMA InstallSettles ==
    ASSUME NEW p \in Procs, LockInv, KeptInv, SettledInv, Install(p)
    PROVE  SettledInv'
<1> DEFINE t == tx[p]
           u == tx'[p]
           a == First(t)
<1>1. /\ t.at = "install" /\ t.at \in Locked /\ t.at \in Unrecorded
      /\ UNCHANGED <<litter, owed, deployed, torn, meddled>>
    BY DEF Install, Locked, Unrecorded, records, history
<1>2. CASE targets[a] # Gone
    <2>1. tx' = [tx EXCEPT ![p] = Raised(t)] /\ targets' = targets
        BY <1>2 DEF Install, Raise
    <2> QED
        BY <1>1, <2>1, RaiseSettles
<1>3. CASE targets[a] = Gone
    <2>1. targets \in [Agents -> Contents] /\ a \in Agents /\ t.installed \subseteq Agents
        BY DEF LockInv, Typed, TxType, First, Agents
    <2>2. /\ u \in TxType /\ tx' = [tx EXCEPT ![p] = u] /\ u.backup = t.backup
          /\ u.previous = t.previous /\ u.op = t.op /\ u.expected = t.expected
          /\ targets' = [targets EXCEPT ![a] = t.draft] /\ u.installed = t.installed \cup {a}
          /\ \/ u.at = "move" /\ u.todo = t.todo \ {a}
             \/ u.at = "verify" /\ t.todo = {a}
        <3>1. /\ targets' = [targets EXCEPT ![a] = t.draft]
              /\ tx' = [tx EXCEPT ![p] = After([t EXCEPT !.installed = @ \cup {a}], a, "move", "verify")]
            BY <1>3 DEF Install
        <3>2. tx'[p].at # "recover"
            BY <3>1 DEF After, LockInv, Typed, TxType
        <3> QED
            BY <3>1, <3>2, InstallMoves
    <2>3. \A b \in Agents : Sure(p, b) /\ Lies(b, {p})
        BY <1>1, HolderSettled
    <2>4. tx'[p] = u /\ tx[p] = t
        OBVIOUS
    <2>5. u.at \in Unrecorded /\ u.at # "audit"
        BY <2>2 DEF Unrecorded
    <2> HIDE DEF t, u, a
    <2>6. \A b \in Agents : Looked(t, b)
        BY <1>1 DEF Looked
    <2>7. ASSUME NEW b \in Agents PROVE Sure(p, b)' /\ Lies(b, {p})'
        <3>1. Placed(u, b) => b = a \/ Placed(t, b)
            BY <1>1, <2>2 DEF Placed
        <3>2. /\ Placed(u, b) => b \in u.installed
              /\ u.previous[b] = Expected(u.expected, b)
              /\ b \notin torn \cup meddled => u.previous[b] \in Due(deployed, b)
            BY <1>1, <2>2, <2>3, <2>4, <2>6, <3>1 DEF Sure
        <3>3. CASE b = a
            <4>1. InHand(u, b)
                BY <2>2, <3>3 DEF InHand
            <4>2. CASE InHand(t, b)
                BY <1>1, <2>2, <2>3, <2>4, <2>5, <3>2, <4>1, <4>2 DEF Sure, Lies
            <4>3. CASE ~InHand(t, b)
                <5>1. t.backup[b] = Gone /\ targets[b] = Gone
                    BY <1>3, <3>3, <4>3 DEF InHand
                <5>2. Gone \notin Foreign
                    BY NamesAssumption, BoundsAssumption DEF Foreign
                <5>3. /\ owed[b] \in Foreign => owed[b] \in litter[b]
                      /\ b \notin torn \cup meddled => owed[b] = Gone /\ owed[b] \in Due(deployed, b)
                    BY <2>3, <2>4, <4>3, <5>1, <5>2 DEF Lies
                <5> QED
                    BY <1>1, <2>2, <2>4, <2>5, <3>2, <4>1, <5>1, <5>3 DEF Sure, Lies
            <4> QED
                BY <4>2, <4>3
        <3>4. CASE b # a
            <4>1. targets'[b] = targets[b] /\ (InHand(u, b) <=> InHand(t, b))
                BY <2>1, <2>2, <3>4 DEF InHand
            <4>2. Sure(p, b)'
                BY <1>1, <2>2, <2>3, <2>4, <2>5, <3>2, <4>1 DEF Sure
            <4>3. Lies(b, {p})'
                BY <1>1, <2>2, <2>3, <2>4, <2>5, <4>1 DEF Lies
            <4> QED
                BY <4>2, <4>3
        <3> QED
            BY <3>3, <3>4
    <2> QED
        BY <1>1, <2>2, <2>4, <2>7, HolderSettles
<1> QED
    BY <1>2, <1>3

\* What is recorded is in place: what the transaction has in hand, and what it found there.
LEMMA RecordSettles ==
    ASSUME NEW p \in Procs, LockInv, KeptInv, SettledInv, Record(p)
    PROVE  SettledInv'
<1> DEFINE t == tx[p]
           u == tx'[p]
           place == IF t.op = "publish" THEN "audit" ELSE "clean"
           w == [t EXCEPT !.at = place, !.found = deployed]
<1>1. /\ t.at = "record" /\ t.at \in Locked /\ t.at \in Unrecorded
      /\ UNCHANGED <<targets, litter, torn, meddled>>
    BY DEF Record, Locked, Unrecorded
<1>2. CASE tx' = [tx EXCEPT ![p] = Raised(t)] /\ UNCHANGED <<owed, deployed>>
    BY <1>1, <1>2, RaiseSettles
<1>3. CASE /\ tx' = [tx EXCEPT ![p] = w] /\ owed' = Claimed(t)
           /\ deployed' = [a \in Agents |-> Desired(t)]
    <2>1. t \in TxType /\ deployed \in Digests
        BY DEF LockInv, Typed
    <2>2. /\ w \in TxType /\ w.at \in {"audit", "clean"} /\ w.backup = t.backup
          /\ w.installed = t.installed /\ w.previous = t.previous /\ w.op = t.op
          /\ w.expected = t.expected /\ w.found = deployed
        <3>1. place \in {"audit", "clean"} /\ place \in Places
            BY DEF Places, Locked
        <3> HIDE DEF place
        <3> QED
            BY <2>1, <3>1 DEF TxType
    <2>3. tx'[p] = w /\ tx[p] = t
        BY <1>3 DEF LockInv, Typed
    <2>4. Desired(t) \in Drafts \cup {Gone} /\ Desired(t) \notin Foreign
        <3>1. Desired(t) \in Drafts \cup {Gone}
            BY DEF Desired, LockInv, Intents
        <3>2. Codex \in Agents
            BY DEF Agents
        <3> QED
            BY <3>1, <3>2, DraftsAreNoEdits
    <2>5. \A a \in Agents : Expected(deployed', a) = Desired(t)
        <3>1. deployed' # Nothing
            BY <1>3, <2>4, NamesAssumption DEF Agents
        <3> QED
            BY <1>3, <3>1 DEF Expected
    <2>6. \A a \in Agents : Sure(p, a) /\ Lies(a, {p}) /\ Kept(p, a)
        BY <1>1, HolderSettled DEF KeptInv
    <2>7. w.at \notin Unrecorded
        BY <2>2 DEF Unrecorded
    <2>8. Desired(t) = Gone \/ t.op # "disable"
        BY DEF Desired
    <2> HIDE DEF t, w
    <2>9. ASSUME NEW a \in Agents PROVE Sure(p, a)' /\ Lies(a, {p})'
        <3>1. InHand(w, a) <=> InHand(t, a)
            BY <2>2 DEF InHand
        <3>2. owed'[a] = IF InHand(t, a) \/ targets[a] = Desired(t) THEN Desired(t) ELSE owed[a]
            BY <1>3 DEF Claimed
        <3>3. Looked(t, a) /\ (Placed(w, a) => Placed(t, a))
            BY <1>1, <2>2 DEF Looked, Placed
        <3>4. a \notin torn \cup meddled /\ Looked(w, a) => w.previous[a] \in Due(deployed, a)
            BY <1>1, <2>2, <2>3, <2>6, <3>3 DEF Sure
        <3>5. Looked(w, a) => w.at = "audit"
            BY <2>2 DEF Looked
        <3>6. Sure(p, a)'
            BY <1>1, <2>2, <2>3, <2>4, <2>6, <2>7, <3>1, <3>2, <3>3, <3>4, <3>5 DEF Sure
        <3>7. InHand(t, a) /\ a \notin meddled => targets[a] = Desired(t)
            BY <1>1, <2>3, <2>6 DEF Kept
        <3>8. ASSUME ~InHand(t, a), a \notin torn \cup meddled
              PROVE  owed[a] \in Foreign \cup {Desired(t)} /\ targets[a] = owed[a]
            <4>1. targets[a] = owed[a] /\ owed[a] \in Due(deployed, a)
                BY <2>3, <2>6, <3>8 DEF Lies
            <4>2. t.op = "disable" /\ Desired(t) = Gone
                <5>1. a \notin t.installed
                    BY <3>8 DEF InHand
                <5>2. ~Placed(t, a)
                    BY <2>3, <2>6, <5>1 DEF Sure
                <5> QED
                    BY <1>1, <2>8, <5>2 DEF Placed
            <4>3. t.previous[a] = Gone
                BY <1>1, <2>3, <2>6, <3>8 DEF Kept, Waiting, InHand
            <4>4. Gone \in Due(deployed, a)
                BY <1>1, <2>3, <2>6, <3>3, <3>8, <4>3 DEF Sure
            <4>5. Expected(deployed, a) = Gone
                BY <4>4, NamesAssumption, BoundsAssumption DEF Due, Foreign
            <4> QED
                BY <4>1, <4>2, <4>5 DEF Due
        <3>9. a \notin torn \cup meddled =>
                  owed'[a] \in Due(deployed', a) /\ targets[a] = owed'[a]
            BY <2>5, <3>2, <3>7, <3>8 DEF Due
        <3>10. owed'[a] \in Foreign /\ ~InHand(t, a) => owed'[a] \in {targets[a]} \cup litter[a]
            BY <2>3, <2>4, <2>6, <3>2 DEF Lies
        <3>11. Lies(a, {p})'
            BY <1>1, <2>3, <3>1, <3>9, <3>10 DEF Lies
        <3> QED
            BY <3>6, <3>11
    <2> QED
        BY <1>1, <1>3, <2>2, <2>3, <2>9, HolderSettles
<1>4. tx[p] \in TxType /\ tx \in [Procs -> TxType]
    BY DEF LockInv, Typed
<1> QED
    BY <1>2, <1>3, <1>4 DEF Record, Raise, Claimed

\* The audit of a recorded publication.
LEMMA AuditSettles ==
    ASSUME NEW p \in Procs, LockInv, KeptInv, SettledInv, Audit(p)
    PROVE  SettledInv'
<1> DEFINE t == tx[p]
           u == [t EXCEPT !.at = "clean", !.todo = Agents]
<1>1. /\ t.at = "audit" /\ t.at \in Locked /\ t.at \notin Unrecorded
      /\ tx' = [tx EXCEPT ![p] = u]
      /\ UNCHANGED <<targets, litter, owed, deployed, torn, meddled>>
    BY DEF Audit, Go, Locked, Unrecorded, records, history, LockInv, Typed
<1>2. /\ u \in TxType /\ u.at = "clean" /\ u.backup = t.backup /\ u.installed = t.installed
    <2>1. t \in TxType /\ "clean" \in Places
        BY DEF LockInv, Typed, Places, Locked
    <2> HIDE DEF t
    <2> QED
        BY <2>1 DEF TxType
<1>3. \A a \in Agents : Sure(p, a) /\ Lies(a, {p})
    BY <1>1, HolderSettled
<1>4. tx'[p] = u /\ tx[p] = t
    BY <1>1 DEF LockInv, Typed
<1> HIDE DEF t, u
<1>5. u.at \notin Unrecorded /\ \A a \in Agents : ~Placed(u, a) /\ ~Looked(u, a)
    BY <1>2 DEF Unrecorded, Placed, Looked
<1>6. ASSUME NEW a \in Agents PROVE Sure(p, a)' /\ Lies(a, {p})'
    <2>1. InHand(u, a) <=> InHand(t, a)
        BY <1>2 DEF InHand
    <2>2. Sure(p, a)'
        BY <1>1, <1>3, <1>4, <1>5, <2>1 DEF Sure
    <2>3. Lies(a, {p})'
        BY <1>1, <1>3, <1>4, <1>5, <2>1 DEF Lies
    <2> QED
        BY <2>2, <2>3
<1> QED
    BY <1>1, <1>2, <1>4, <1>6, HolderSettles

\* A publication that is being audited has both agents in hand, with what it found as the
\* backup.
LEMMA AuditHolds ==
    ASSUME NEW p \in Procs, LockInv, KeptInv, SettledInv, tx[p].at = "audit", NEW a \in Agents
    PROVE  /\ InHand(tx[p], a) /\ tx[p].backup[a] = tx[p].previous[a]
           /\ owed[a] \notin Foreign
           /\ a \notin torn \cup meddled => tx[p].previous[a] \in Due(tx[p].found, a)
<1>1. Sure(p, a) /\ Kept(p, a)
    BY HolderSettled DEF KeptInv, Locked
<1>2. Placed(tx[p], a) /\ Looked(tx[p], a) /\ ~Waiting(tx[p], a)
    BY DEF Placed, Looked, Waiting, LockInv, Intents
<1>3. InHand(tx[p], a)
    BY <1>1, <1>2 DEF Sure, InHand
<1> QED
    BY <1>1, <1>2, <1>3 DEF Sure, Kept, Unrecorded

\* A record that is taken back, or stays: what was found is owed again.
LEMMA AuditFailsSettles ==
    ASSUME NEW p \in Procs, LockInv, KeptInv, SettledInv, AuditFails(p) \/ RegistryStays(p)
    PROVE  SettledInv'
<1> DEFINE t == tx[p]
           u == Raised(t)
<1>1. /\ t.at = "audit" /\ t.at \in Locked /\ tx' = [tx EXCEPT ![p] = u]
      /\ owed' = t.previous /\ UNCHANGED <<targets, litter, meddled>>
      /\ \/ deployed' = t.found /\ torn' = torn
         \/ torn' = Agents
    BY DEF AuditFails, RegistryStays, Raise, Locked, records
<1>2. /\ u \in TxType /\ u.at = "recover" /\ u.backup = t.backup /\ u.installed = t.installed
    BY RaisedMoves DEF LockInv, Typed
<1>3. \A a \in Agents : /\ InHand(t, a) /\ t.backup[a] = t.previous[a]
                        /\ a \notin torn \cup meddled => t.previous[a] \in Due(t.found, a)
    BY <1>1, AuditHolds
<1>4. tx'[p] = u
    BY <1>1 DEF LockInv, Typed
<1> HIDE DEF t, u
<1>5. u.at \in Unrecorded /\ \A a \in Agents : ~Placed(u, a) /\ ~Looked(u, a)
    BY <1>2 DEF Unrecorded, Placed, Looked
<1>6. ASSUME NEW a \in Agents PROVE Sure(p, a)' /\ Lies(a, {p})'
    <2>1. InHand(u, a) /\ owed'[a] = u.backup[a]
        BY <1>1, <1>2, <1>3 DEF InHand
    <2>2. Sure(p, a)'
        BY <1>4, <1>5, <2>1 DEF Sure
    <2>3. a \notin torn' \cup meddled' => owed'[a] \in Due(deployed', a)
        BY <1>1, <1>3
    <2>4. Lies(a, {p})'
        BY <1>4, <1>5, <2>1, <2>3 DEF Lies
    <2> QED
        BY <2>2, <2>4
<1> QED
    BY <1>1, <1>2, <1>4, <1>6, HolderSettles DEF t

\* An agent that is recovered, or not: its backup is in its directory, or left beside it.
LEMMA RecoverSettles ==
    ASSUME NEW p \in Procs, LockInv, KeptInv, SettledInv, Recover(p) \/ RecoverFails(p)
    PROVE  SettledInv'
<1> DEFINE t == tx[p]
           a == Last(t)
           out == [t EXCEPT !.backup[a] = Gone, !.installed = @ \ {a}]
           u == After(out, a, "recover", "failed")
<1>1. /\ t.at = "recover" /\ t.at \in Locked /\ t.at \in Unrecorded
      /\ tx' = [tx EXCEPT ![p] = u] /\ UNCHANGED <<owed, deployed, meddled>>
    BY DEF Recover, RecoverFails, Locked, Unrecorded, records, history
<1>2. /\ t \in TxType /\ t.backup \in [Agents -> Contents] /\ targets \in [Agents -> Contents]
      /\ litter \in [Agents -> SUBSET Contents] /\ t.installed \subseteq Agents /\ a \in Agents
    BY DEF LockInv, Typed, TxType, Last, Agents
<1>3. /\ \/ /\ targets' = IF InHand(t, a) THEN [targets EXCEPT ![a] = t.backup[a]] ELSE targets
            /\ litter' = litter
         \/ /\ \E left \in {targets[a], Gone} : targets' = [targets EXCEPT ![a] = left]
            /\ litter' = [litter EXCEPT ![a] = @ \cup ({t.backup[a]} \ {Gone})]
            /\ a \in torn'
      /\ torn \subseteq torn' /\ (a \notin torn' => litter' = litter)
    BY DEF Recover, RecoverFails, history
<1>4. /\ u \in TxType /\ u.at \in {"recover", "failed"}
      /\ u.backup = [t.backup EXCEPT ![a] = Gone] /\ u.installed = t.installed \ {a}
    <2>1. /\ out \in TxType /\ out.at = "recover"
          /\ out.backup = [t.backup EXCEPT ![a] = Gone] /\ out.installed = t.installed \ {a}
        BY <1>1, <1>2 DEF TxType, Contents
    <2>2. {"recover", "failed"} \subseteq Places
        BY DEF Places, Locked
    <2> HIDE DEF out, a
    <2>3. /\ u \in TxType /\ u.at \in {"recover", "failed"}
          /\ u.backup = out.backup /\ u.installed = out.installed
        BY <1>2, <2>1, <2>2, AfterMoves
    <2> HIDE DEF u
    <2> QED
        BY <2>1, <2>3
<1>5. tx'[p] = u /\ tx[p] = t
    BY <1>1 DEF LockInv, Typed
<1>6. \A b \in Agents : Sure(p, b) /\ Lies(b, {p})
    BY <1>1, HolderSettled
<1>7. Gone \notin Foreign
    BY NamesAssumption, BoundsAssumption DEF Foreign
<1> HIDE DEF t, u, a
<1>8. u.at \in Unrecorded /\ \A b \in Agents : ~Placed(u, b) /\ ~Looked(u, b)
    BY <1>4 DEF Unrecorded, Placed, Looked
<1>9. ASSUME NEW b \in Agents PROVE Sure(p, b)' /\ Lies(b, {p})'
    <2>1. CASE b = a
        <3>1. ~InHand(u, b)
            BY <1>2, <1>4, <2>1 DEF InHand
        <3>2. Sure(p, b)'
            BY <1>5, <1>8, <3>1 DEF Sure
        <3>3. /\ InHand(t, b) /\ owed[b] \in Foreign => owed[b] \in {t.backup[b]} \cup litter[b]
              /\ ~InHand(t, b) /\ owed[b] \in Foreign => owed[b] \in {targets[b]} \cup litter[b]
            BY <1>5, <1>6 DEF Sure, Lies
        <3>4. b \notin torn \cup meddled =>
                  /\ owed[b] \in Due(deployed, b)
                  /\ owed[b] = IF InHand(t, b) THEN t.backup[b] ELSE targets[b]
            BY <1>1, <1>5, <1>6 DEF Sure, Lies
        <3>5. CASE /\ targets' = IF InHand(t, a) THEN [targets EXCEPT ![a] = t.backup[a]] ELSE targets
                   /\ litter' = litter
            <4>1. targets'[b] = IF InHand(t, b) THEN t.backup[b] ELSE targets[b]
                BY <1>2, <2>1, <3>5
            <4>2. owed[b] \in Foreign => owed[b] \in {targets'[b]} \cup litter'[b]
                BY <3>3, <3>5, <4>1
            <4>3. b \notin torn' \cup meddled => owed[b] \in Due(deployed, b) /\ targets'[b] = owed[b]
                BY <1>3, <3>4, <4>1
            <4>4. Lies(b, {p})'
                BY <1>1, <4>2, <4>3 DEF Lies
            <4> QED
                BY <3>2, <4>4
        <3>6. CASE /\ \E left \in {targets[a], Gone} : targets' = [targets EXCEPT ![a] = left]
                   /\ litter' = [litter EXCEPT ![a] = @ \cup ({t.backup[a]} \ {Gone})]
                   /\ a \in torn'
            <4>1. InHand(t, b) \/ targets'[b] = targets[b] \/ owed[b] \notin Foreign
                    \/ owed[b] \in litter[b]
                <5>1. CASE RecoverFails(p)
                    BY <2>1, <5>1 DEF RecoverFails, t, a
                <5>2. CASE Recover(p)
                    BY <1>2, <2>1, <5>2 DEF Recover, t, a
                <5> QED
                    BY <5>1, <5>2
            <4>2. litter'[b] = litter[b] \cup ({t.backup[b]} \ {Gone})
                BY <1>2, <2>1, <3>6
            <4>3. owed[b] \in Foreign => owed[b] \in {targets'[b]} \cup litter'[b]
                BY <1>7, <3>3, <4>1, <4>2
            <4>4. Lies(b, {p})'
                BY <1>1, <2>1, <3>6, <4>3 DEF Lies
            <4> QED
                BY <3>2, <4>4
        <3> QED
            BY <1>3, <3>5, <3>6
    <2>2. CASE b # a
        <3>1. targets'[b] = targets[b] /\ u.backup[b] = t.backup[b] /\ litter'[b] = litter[b]
            BY <1>2, <1>3, <1>4, <2>2
        <3>2. InHand(u, b) <=> InHand(t, b)
            BY <1>4, <2>2, <3>1 DEF InHand
        <3>3. Sure(p, b)'
            BY <1>1, <1>3, <1>5, <1>6, <1>8, <3>1, <3>2 DEF Sure
        <3>4. Lies(b, {p})'
            BY <1>1, <1>3, <1>5, <1>6, <1>8, <3>1, <3>2 DEF Lies
        <3> QED
            BY <3>3, <3>4
    <2> QED
        BY <2>1, <2>2
<1> QED
    BY <1>1, <1>4, <1>5, <1>9, HolderSettles

\* The ends of a call that holds the lock, and the death of one that does not.
LEMMA EndsSettle ==
    ASSUME NEW p \in Procs, LockInv, KeptInv, SettledInv,
           Clean(p) \/ CleanFails(p) \/ Failed(p) \/ FailedFails(p) \/ Crash(p)
    PROVE  SettledInv'
<1> DEFINE t == tx[p]
<1>1. /\ tx' = [tx EXCEPT ![p] = NoTx] /\ UNCHANGED <<targets, owed, deployed, meddled>>
      /\ torn \subseteq torn'
    BY DEF Clean, CleanFails, Failed, FailedFails, Crash, Return, records, history
<1>2. \A a \in Agents : litter[a] \subseteq litter'[a]
    BY DEF Clean, CleanFails, Failed, FailedFails, Crash, Leave
<1>3. CASE t.at \notin Locked
    <2>1. NoTx.at = "idle"
        BY DEF NoTx
    <2> QED
        BY <1>1, <1>2, <1>3, <2>1, NoTxTyped, NothingInHand, OtherSettles
<1>4. CASE t.at \in Locked
    <2>1. ASSUME NEW a \in Agents, t.at \in Unrecorded, InHand(t, a)
          PROVE  a \in torn' /\ (t.backup[a] # Gone => t.backup[a] \in litter'[a])
        <3>1. t.at # "failed"
            BY <2>1 DEF KeptInv, Kept, Untouched
        <3>2. Crash(p)
            BY <2>1, <3>1 DEF Clean, CleanFails, Failed, FailedFails, Unrecorded
        <3> QED
            BY <2>1, <3>2 DEF Crash, Leave, Unrecorded
    <2> QED
        BY <1>1, <1>2, <1>4, <2>1, EndSettles
<1> QED
    BY <1>3, <1>4

\* A review, and the removal of a lock, touch neither a directory nor what is owed.
LEMMA ReviewSettles ==
    ASSUME SettledInv, UNCHANGED <<tx, targets, litter, owed, deployed, torn, meddled>>
    PROVE  SettledInv'
<1>1. ASSUME NEW a \in Agents PROVE Lies(a, Procs)' /\ \A p \in Procs : Sure(p, a)'
    <2>1. Lies(a, Procs) /\ \A p \in Procs : Sure(p, a)
        BY DEF SettledInv
    <2>2. Lies(a, Procs)'
        BY <2>1 DEF Lies
    <2>3. \A p \in Procs : Sure(p, a)'
        BY <2>1 DEF Sure
    <2> QED
        BY <2>2, <2>3
<1> QED
    BY <1>1 DEF SettledInv

\* An edit is what its agent is owed, unless a transaction has the directory in hand.
LEMMA EditSettles ==
    ASSUME NEW a \in Agents, LockInv, KeptInv, SettledInv, Edit(a)
    PROVE  SettledInv'
<1> DEFINE n == edits + 1
           taken == \E p \in Procs : InHand(tx[p], a)
<1>1. n \in Foreign
    BY BoundsAssumption DEF Edit, LockInv, Typed, Foreign
<1>2. /\ targets' = [targets EXCEPT ![a] = n] /\ UNCHANGED <<tx, litter, deployed, torn>>
      /\ owed' = IF taken THEN owed ELSE [owed EXCEPT ![a] = n]
      /\ meddled' = IF taken THEN meddled \cup {a} ELSE meddled
    BY DEF Edit, records
<1>3. targets \in [Agents -> Contents] /\ owed \in [Agents -> Contents]
    BY DEF LockInv, Typed, KeptInv
<1> HIDE DEF n
<1>4. /\ \A b \in Agents \ {a} : owed'[b] = owed[b] /\ targets'[b] = targets[b]
      /\ targets'[a] = n /\ owed'[a] = IF taken THEN owed[a] ELSE n
      /\ meddled \subseteq meddled' /\ (taken => a \in meddled')
    BY <1>2, <1>3
<1>5. ASSUME NEW b \in Agents PROVE Lies(b, Procs)' /\ \A p \in Procs : Sure(p, b)'
    <2>1. Lies(b, Procs) /\ \A p \in Procs : Sure(p, b)
        BY DEF SettledInv
    <2>2. CASE b # a
        <3>1. Lies(b, Procs)'
            BY <1>2, <1>4, <2>1, <2>2 DEF Lies
        <3>2. \A p \in Procs : Sure(p, b)'
            BY <1>2, <1>4, <2>1, <2>2 DEF Sure
        <3> QED
            BY <3>1, <3>2
    <2>3. CASE b = a /\ taken
        <3>1. Lies(b, Procs)'
            BY <1>2, <1>4, <2>3 DEF Lies
        <3>2. \A p \in Procs : Sure(p, b)'
            BY <1>2, <1>4, <2>1, <2>3 DEF Sure
        <3> QED
            BY <3>1, <3>2
    <2>4. CASE b = a /\ ~taken
        <3>1. \A p \in Procs : ~InHand(tx[p], b)
            BY <2>4
        <3>2. Lies(b, Procs)'
            BY <1>1, <1>2, <1>4, <2>4 DEF Lies, Due
        <3>3. \A p \in Procs : Sure(p, b)'
            BY <1>2, <1>4, <2>1, <2>4, <3>1 DEF Sure
        <3> QED
            BY <3>2, <3>3
    <2> QED
        BY <2>2, <2>3, <2>4
<1> QED
    BY <1>5 DEF SettledInv

\* SettledInv is inductive, beside LockInv and KeptInv.
LEMMA NextSettles ==
    ASSUME LockInv, KeptInv, SettledInv, [Next]_vars
    PROVE  SettledInv'
<1>1. ASSUME NEW d \in Drafts, Approve(d) \/ ApproveFails(d) \/ Reject(d) \/ Revise(d) \/ Validate(d)
      PROVE  SettledInv'
    BY <1>1, ReviewSettles DEF Approve, ApproveFails, Reject, Revise, Validate, Review, records,
        history
<1>2. ASSUME NEW p \in Procs, Step(p)
      PROVE  SettledInv'
    BY <1>2, CallSettles, CheckSettles, MarkSettles, MoveAsideSettles, InstallSettles,
        VerifySettles, RecordSettles, AuditSettles, RecoverSettles, EndsSettle DEF Step
<1>3. ASSUME NEW p \in Procs,
             MarkFails(p) \/ AuditFails(p) \/ RegistryStays(p) \/ CleanFails(p) \/ Fails(p)
                 \/ RecoverFails(p) \/ FailedFails(p) \/ Crash(p)
      PROVE  SettledInv'
    BY <1>3, FailsSettles, AuditFailsSettles, RecoverSettles, EndsSettle
<1>4. ASSUME NEW p \in Procs, NEW o \in Ops, NEW d \in Drafts \cup {NoDraft}, NEW k \in Keys,
             Begin(p, o, d, k)
      PROVE  SettledInv'
    BY <1>4, CallSettles
<1>5. CASE Unlock
    BY <1>5, ReviewSettles DEF Unlock, records, history
<1>6. CASE UNCHANGED vars
    BY <1>6, ReviewSettles DEF vars, records, history
<1> QED
    BY <1>1, <1>2, <1>3, <1>4, <1>5, <1>6, EditSettles DEF Next

\* LockInv, KeptInv and SettledInv hold in every reachable state.
THEOREM AllIsAccounted == Spec => [](LockInv /\ KeptInv /\ SettledInv)
<1>1. Init => LockInv /\ KeptInv /\ SettledInv
    BY InitLockInv, InitKept, InitSettled
<1>2. (LockInv /\ KeptInv /\ SettledInv) /\ [Next]_vars => (LockInv /\ KeptInv /\ SettledInv)'
    BY NextKeeps, NextLoses, NextSettles
<1> QED
    BY <1>1, <1>2, PTL DEF Spec

\* When nobody publishes, each directory holds what its agent is owed, and that is an edit by
\* hand or what the registry records, deaths, failed restorations and edits under a
\* transaction aside (the recovery of _run_transaction, complete_publication).
THEOREM BothAreSettled == Spec => []Settled
<1>1. LockInv /\ SettledInv => Settled
    <2> SUFFICES ASSUME LockInv, SettledInv, deployLock = Free,
                        NEW a \in Agents \ (torn \cup meddled)
                 PROVE  targets[a] = owed[a] /\ owed[a] \in Foreign \cup {Expected(deployed, a)}
        BY DEF Settled
    <2>1. \A p \in Procs : tx[p].at \notin Unrecorded
        BY NamesAssumption DEF LockInv, LocksHeld, Locked, Unrecorded
    <2> QED
        BY <2>1 DEF SettledInv, Lies, Due
<1> QED
    BY <1>1, AllIsAccounted, PTL

\* A step that changes what an agent is owed, when that was an edit by hand, is another edit,
\* or finds it in a backup that nothing deletes.
LEMMA StepKeepsEdits ==
    ASSUME LockInv, KeptInv, SettledInv, [Next]_vars,
           NEW a \in Agents, owed[a] \in Foreign, owed'[a] # owed[a]
    PROVE  edits' # edits \/ owed[a] \in litter'[a]
<1>1. CASE \E b \in Agents : Edit(b)
    BY <1>1 DEF Edit, LockInv, Typed
<1>2. ASSUME NEW p \in Procs, AuditFails(p) \/ RegistryStays(p)
      PROVE  FALSE
    BY <1>2, AuditHolds DEF AuditFails, RegistryStays
<1>3. ASSUME NEW p \in Procs, Record(p)
      PROVE  owed[a] \in litter'[a]
    <2> DEFINE t == tx[p]
    <2>1. t.at = "record" /\ litter' = litter /\ owed' = Claimed(t)
        BY <1>3 DEF Record, Claimed
    <2>2. Sure(p, a) /\ Lies(a, {p}) /\ Kept(p, a)
        BY <2>1, HolderSettled DEF KeptInv, Locked
    <2>3. Desired(t) \notin Foreign /\ Expected(t.expected, a) \notin Foreign
        BY DraftsAreNoEdits
    <2>4. CASE InHand(t, a)
        <3>1. t.backup[a] = t.previous[a]
            BY <2>1, <2>2 DEF Kept, Waiting
        <3>2. t.previous[a] = Expected(t.expected, a)
            BY <2>1, <2>2 DEF Sure, Looked
        <3>3. owed[a] \in {t.backup[a]} \cup litter[a]
            BY <2>2, <2>4 DEF Sure
        <3> QED
            BY <2>1, <2>3, <3>1, <3>2, <3>3
    <2>5. CASE ~InHand(t, a)
        <3>1. targets[a] = Desired(t)
            BY <2>1, <2>5 DEF Claimed
        <3>2. owed[a] \in {targets[a]} \cup litter[a]
            BY <2>2, <2>5 DEF Lies
        <3> QED
            BY <2>1, <2>3, <3>1, <3>2
    <2> QED
        BY <2>4, <2>5
<1>4. \/ \E b \in Agents : Edit(b)
      \/ \E p \in Procs : AuditFails(p) \/ RegistryStays(p) \/ Record(p)
      \/ owed' = owed
    <2>1. ASSUME NEW p \in Procs, Step(p), ~Record(p) PROVE owed' = owed
        BY <2>1 DEF Step, Lookup, Answered, TakeLock, Timeout, Check, Mark, MoveAside, Install, Verify,
            Audit, Clean, Recover, Failed, history
    <2>2. ASSUME NEW p \in Procs,
                 MarkFails(p) \/ CleanFails(p) \/ Fails(p) \/ RecoverFails(p) \/ FailedFails(p) \/ Crash(p)
          PROVE owed' = owed
        BY <2>2 DEF MarkFails, CleanFails, Fails, RecoverFails, FailedFails, Crash, history
    <2>3. ASSUME NEW p \in Procs, NEW o \in Ops, NEW d \in Drafts \cup {NoDraft}, NEW k \in Keys,
                 Begin(p, o, d, k)
          PROVE owed' = owed
        BY <2>3 DEF Begin, history
    <2>4. ASSUME NEW d \in Drafts, Approve(d) \/ ApproveFails(d) \/ Reject(d) \/ Revise(d) \/ Validate(d)
          PROVE owed' = owed
        BY <2>4 DEF Approve, ApproveFails, Reject, Revise, Validate, Review, history
    <2>5. ASSUME Unlock \/ UNCHANGED vars PROVE owed' = owed
        BY <2>5 DEF Unlock, vars, history
    <2> QED
        BY <2>1, <2>2, <2>3, <2>4, <2>5 DEF Next
<1> QED
    BY <1>1, <1>2, <1>3, <1>4

\* No deployment replaces an edit made by hand: it stays until the next edit, unless it lies
\* in a backup that nothing deletes (the two comparisons of the digest in _run_transaction).
THEOREM EditsAreKept == Spec => EditsKept
<1>1. LockInv /\ KeptInv /\ SettledInv /\ [Next]_vars =>
          [\A a \in Agents : owed[a] \in Foreign /\ owed'[a] # owed[a]
                                 => edits' # edits \/ owed[a] \in litter'[a]]_vars
    BY StepKeepsEdits
<1> QED
    BY <1>1, AllIsAccounted, PTL DEF Spec, EditsKept
=============================================================================
