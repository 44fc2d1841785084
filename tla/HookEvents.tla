----------------------------- MODULE HookEvents -----------------------------
(***************************************************************************)
(* handle_event of src/scripts/vibe_memory_router.py: what a hook process  *)
(* does with one agent event.  It reserves the event in the idempotency    *)
(* store, does its work, writes the two context packets of the project     *)
(* under a journal, and commits the reservation or releases it.            *)
(*                                                                         *)
(* A handler is one hook process, which handles one event and exits.  Its  *)
(* identity stands for its pid and for the uuid of its reservation.  Both  *)
(* locks are flocks: they go with their holder.  The refresh of the review *)
(* queue inside the work is modelled in MemoryReview.                      *)
(***************************************************************************)
EXTENDS Naturals

CONSTANTS
  Handlers,      \* hook processes
  Events,        \* idempotency keys: agent, session, event, cwd, payload digest
  Contexts,      \* texts build_context produces
  NONE, Free,
  TTL,           \* ttl_seconds of a committed event
  RESERVATION,   \* reservation_timeout of an event in flight
  LateFailures,  \* an operation may fail after it took effect (fsync of the directory)
  MaxClock,      \* bound on time
  MaxCrashes,    \* bound: handlers that die
  MaxFailures    \* bound: file operations that fail

ASSUME HookAssumption ==
  /\ TTL \in Nat \ {0} /\ RESERVATION \in Nat \ {0}
  /\ LateFailures \in BOOLEAN
  /\ MaxClock \in Nat /\ MaxCrashes \in Nat /\ MaxFailures \in Nat
  /\ Free \notin Handlers /\ NONE \notin Contexts \cup Handlers \cup Nat

\* PACKET_NAMES: codex_context_packet.md and shared_memory_context_packet.md.
Packets == 1 .. 2

VARIABLES
  clock,
  store,        \* store[k]: the entry of event k in the idempotency file
  storeLock,    \* holder of the idempotency lock
  entries, now, \* the live entries and the time its holder has read
  packets,      \* packets[n]: a context packet; NONE = no such file
  journal,      \* the text the packet journal promises; NONE = no journal
  packetLock,   \* holder of the packet lock
  context, at, previous, \* its holder's text, its next packet, the packets it has read
  pc, event, since, \* of each handler: position, key, time of its reservation
  crashes, failures,
  exposed       \* (history) the packets lie as an interrupted restoration without a journal left them

storeVars  == <<store, storeLock, entries, now>>
packetVars == <<packets, journal, packetLock, context, at, previous>>
faults     == <<crashes, failures, exposed>>
vars       == <<clock, storeVars, packetVars, pc, event, since, faults>>

\* A slip: a commit records when the window ends, not when it begins.
CommittedUntil(t) == [status |-> "committed", owner |-> NONE, time |-> t + TTL]

Absent         == [status |-> "absent", owner |-> NONE, time |-> 0]
InFlight(h, t) == [status |-> "in_flight", owner |-> h, time |-> t]
Committed(t)   == [status |-> "committed", owner |-> NONE, time |-> t]

Finished == {"done", "unreleased", "dead"}
Running  == {"reserve", "reserving", "work", "packets", "recover", "write", "restore",
             "commit", "committing", "release", "releasing"}

NoEntries == [k \in Events |-> Absent]
NoPackets == [n \in Packets |-> NONE]

Init ==
  /\ clock = 0
  /\ store = NoEntries /\ storeLock = Free /\ entries = NoEntries /\ now = 0
  /\ packets = NoPackets /\ journal = NONE /\ packetLock = Free
  /\ context = NONE /\ at = 1 /\ previous = NoPackets
  /\ pc = [h \in Handlers |-> "reserve"]
  /\ event \in [Handlers -> Events]
  /\ since = [h \in Handlers |-> 0]
  /\ crashes = 0 /\ failures = 0 /\ exposed = FALSE

Goto(h, label) == pc' = [pc EXCEPT ![h] = label] /\ UNCHANGED since

\* The process exits; "done" stands for every result it reports, except that of
\* a handler which could not write the release of its reservation.
Exit(h, label) == pc' = [pc EXCEPT ![h] = label] /\ since' = [since EXCEPT ![h] = 0]

Fails == failures < MaxFailures /\ failures' = failures + 1

-----------------------------------------------------------------------------
\* IdempotencyStore: each operation reads the file and writes it under the lock.

\* A slip: a reservation in flight keeps nobody out.
LiveIfCommitted(e, pidReused) == e.status = "committed" /\ clock < e.time + TTL

\* _live_entries.  The pid of a process that is gone may meanwhile be another's.
Live(e, pidReused) ==
  \/ e.status = "committed" /\ clock < e.time + TTL
  \/ /\ e.status = "in_flight" /\ clock < e.time + RESERVATION
     /\ pc[e.owner] \in Running \/ pidReused

LockStore(h) ==
  /\ storeLock = Free
  /\ \/ pc[h] = "reserve" /\ Goto(h, "reserving")
     \/ pc[h] = "commit"  /\ Goto(h, "committing")
     \/ pc[h] = "release" /\ Goto(h, "releasing")
  /\ storeLock' = h
  /\ now' = clock
  /\ \E pidReused \in BOOLEAN :
       entries' = [k \in Events |-> IF Live(store[k], pidReused) THEN store[k] ELSE Absent]
  /\ UNCHANGED <<clock, store, packetVars, event, faults>>

UnlockStore == storeLock' = Free /\ entries' = NoEntries /\ now' = 0

\* A slip: a commit does not look whose reservation it is.
OwnedByAnyone(h) == TRUE

\* _owned, by this handler's reservation.
Owned(h) ==
  /\ entries[event[h]].status = "in_flight"
  /\ entries[event[h]].owner = h

Reserve(h) ==
  /\ pc[h] = "reserving" /\ entries[event[h]] = Absent
  /\ store' = [entries EXCEPT ![event[h]] = InFlight(h, now)]
  /\ since' = [since EXCEPT ![h] = now]
  /\ pc' = [pc EXCEPT ![h] = "work"]
  /\ UnlockStore
  /\ UNCHANGED <<clock, packetVars, event, faults>>

Duplicate(h) ==
  /\ pc[h] = "reserving" /\ entries[event[h]] # Absent
  /\ UnlockStore /\ Exit(h, "done")
  /\ UNCHANGED <<clock, store, packetVars, event, faults>>

Commit(h) ==
  /\ pc[h] = "committing" /\ Owned(h)
  /\ store' = [entries EXCEPT ![event[h]] = Committed(now)]
  /\ UnlockStore /\ Exit(h, "done")
  /\ UNCHANGED <<clock, packetVars, event, faults>>

\* A slip: the lost commit is tried again.
CommitLostRetries(h) ==
  /\ pc[h] = "committing" /\ ~Owned(h)
  /\ UnlockStore /\ Goto(h, "commit")
  /\ UNCHANGED <<clock, store, packetVars, event, faults>>

\* The reservation expired: handle_event raises, and tries to release.
CommitLost(h) ==
  /\ pc[h] = "committing" /\ ~Owned(h)
  /\ UnlockStore /\ Goto(h, "release")
  /\ UNCHANGED <<clock, store, packetVars, event, faults>>

Release(h) ==
  /\ pc[h] = "releasing"
  /\ store' = IF Owned(h) THEN [entries EXCEPT ![event[h]] = Absent] ELSE store
  /\ UnlockStore /\ Exit(h, "done")
  /\ UNCHANGED <<clock, packetVars, event, faults>>

\* The store could not be written.  (atomic_write_json fails before it replaces
\* the file or not at all.)
StoreFails(h) ==
  /\ \/ pc[h] = "reserving" /\ entries[event[h]] = Absent /\ Exit(h, "done")
     \/ pc[h] = "committing" /\ Owned(h) /\ Goto(h, "release")
     \/ pc[h] = "releasing" /\ Owned(h) /\ Exit(h, "unreleased")
  /\ Fails
  /\ UnlockStore
  /\ UNCHANGED <<clock, store, packetVars, event, crashes, exposed>>

-----------------------------------------------------------------------------
\* Settings, retention, queue refresh and context.  Any of it may raise; an
\* event outside every registered project writes no packets.
Work(h) ==
  /\ pc[h] = "work"
  /\ Goto(h, "release") \/ Goto(h, "commit") \/ Goto(h, "packets")
  /\ UNCHANGED <<clock, storeVars, packetVars, event, faults>>

-----------------------------------------------------------------------------
\* _write_context_packets

LockPackets(h) ==
  /\ pc[h] = "packets" /\ packetLock = Free
  /\ packetLock' = h
  /\ context' \in Contexts
  /\ Goto(h, "recover")
  /\ UNCHANGED <<clock, storeVars, packets, journal, at, previous, event, faults>>

UnlockPackets == packetLock' = Free /\ context' = NONE /\ at' = 1 /\ previous' = NoPackets

\* A slip: the transaction a crash left is not finished first.
WriteJournalOver(h) ==
  /\ pc[h] = "recover" /\ at = 1
  /\ previous' = packets
  /\ journal' = context
  /\ Goto(h, "write")
  /\ UNCHANGED <<clock, storeVars, packets, packetLock, context, at, event, faults>>

\* Read the packets and write the journal, once no journal is left.
WriteJournal(h) ==
  /\ pc[h] = "recover" /\ journal = NONE
  /\ previous' = packets
  /\ journal' = context
  /\ Goto(h, "write")
  /\ UNCHANGED <<clock, storeVars, packets, packetLock, context, at, event, faults>>

\* Both packets become what an old journal promises, then the new text or, after
\* an error, what they were; then the journal goes.
Text(h) == CASE pc[h] = "recover" -> journal
             [] pc[h] = "write"   -> context
             [] pc[h] = "restore" -> previous[at]

Writing(h) == pc[h] \in {"write", "restore"} \/ (pc[h] = "recover" /\ journal # NONE)

PacketEffect(h) ==
  IF at \in Packets
    THEN packets' = [packets EXCEPT ![at] = Text(h)] /\ UNCHANGED journal
    ELSE journal' = NONE /\ UNCHANGED packets

WritePacket(h) ==
  /\ Writing(h) /\ at \in Packets
  /\ PacketEffect(h)
  /\ at' = at + 1
  /\ UNCHANGED <<clock, storeVars, packetLock, context, previous, pc, event, since, faults>>

RemoveJournal(h) ==
  /\ Writing(h) /\ at \notin Packets
  /\ PacketEffect(h)
  /\ \/ pc[h] = "recover" /\ at' = 1 /\ UNCHANGED <<pc, since, packetLock, context, previous>>
     \/ pc[h] = "write"   /\ UnlockPackets /\ Goto(h, "commit")
     \/ pc[h] = "restore" /\ UnlockPackets /\ Goto(h, "release")
  /\ exposed' = (exposed /\ pc[h] = "restore")
  /\ UNCHANGED <<clock, storeVars, event, crashes, failures>>

\* A restoration that ends early when the journal is gone.
Exposes(h) == exposed' = (exposed \/ (pc[h] = "restore" /\ journal = NONE))

\* A slip: the packets are written outside the try of handle_event, whose
\* handler releases the reservation.
PacketFailsUnreleased(h) ==
  /\ pc[h] \in {"recover", "write", "restore"}
  /\ Fails
  /\ UNCHANGED <<packets, journal>>
  /\ IF pc[h] = "write"
       THEN at' = 1 /\ Goto(h, "restore") /\ UNCHANGED <<packetLock, context, previous>>
       ELSE UnlockPackets /\ Exit(h, "done")
  /\ Exposes(h)
  /\ UNCHANGED <<clock, storeVars, event, crashes>>

\* An error while writing is followed by the restoration; any other ends the
\* transaction where it is.
PacketFails(h) ==
  /\ pc[h] \in {"recover", "write", "restore"}
  /\ Fails
  /\ \/ UNCHANGED <<packets, journal>>
     \/ LateFailures /\ IF Writing(h) THEN PacketEffect(h)
                        ELSE journal' = context /\ UNCHANGED packets
  /\ IF pc[h] = "write"
       THEN at' = 1 /\ Goto(h, "restore") /\ UNCHANGED <<packetLock, context, previous>>
       ELSE UnlockPackets /\ Goto(h, "release")
  /\ Exposes(h)
  /\ UNCHANGED <<clock, storeVars, event, crashes>>

-----------------------------------------------------------------------------

Crash(h) ==
  /\ pc[h] \in Running /\ crashes < MaxCrashes
  /\ crashes' = crashes + 1
  /\ Exit(h, "dead")
  /\ IF storeLock = h THEN UnlockStore ELSE UNCHANGED <<storeLock, entries, now>>
  /\ IF packetLock = h THEN UnlockPackets ELSE UNCHANGED <<packetLock, context, at, previous>>
  /\ Exposes(h)
  /\ UNCHANGED <<clock, store, packets, journal, event, failures>>

Tick ==
  /\ clock < MaxClock
  /\ clock' = clock + 1
  /\ UNCHANGED <<storeVars, packetVars, pc, event, since, faults>>

Step(h) ==
  \/ LockStore(h) \/ Reserve(h) \/ Duplicate(h) \/ Commit(h) \/ CommitLost(h)
  \/ Release(h) \/ StoreFails(h) \/ Work(h) \/ LockPackets(h) \/ WriteJournal(h)
  \/ WritePacket(h) \/ RemoveJournal(h) \/ PacketFails(h)

Next == Tick \/ \E h \in Handlers : Step(h) \/ Crash(h)

Spec == Init /\ [][Next]_vars

\* A process that runs goes on.  A flock is handed over when its holder lets go,
\* and a handler takes each lock only a few times, so nobody waits for ever.
FairSpec == Spec /\ \A h \in Handlers : WF_vars(Step(h))

-----------------------------------------------------------------------------
(* Properties *)

Entries == {Absent} \cup [status : {"in_flight"}, owner : Handlers, time : 0 .. MaxClock]
                    \cup [status : {"committed"}, owner : {NONE}, time : 0 .. MaxClock]
Texts   == Contexts \cup {NONE}

\* The type invariant: files, locks and locals hold what the code puts there.
TypeOK ==
  /\ clock \in 0 .. MaxClock
  /\ store \in [Events -> Entries] /\ entries \in [Events -> Entries]
  /\ now \in 0 .. MaxClock
  /\ storeLock \in Handlers \cup {Free} /\ packetLock \in Handlers \cup {Free}
  /\ packets \in [Packets -> Texts] /\ previous \in [Packets -> Texts]
  /\ journal \in Texts /\ at \in 1 .. 3
  /\ pc \in [Handlers -> Finished \cup Running]
  /\ event \in [Handlers -> Events]
  /\ since \in [Handlers -> 0 .. MaxClock]
  /\ context \in Texts
  /\ crashes \in 0 .. MaxCrashes /\ failures \in 0 .. MaxFailures /\ exposed \in BOOLEAN

\* Two handlers work on one event only if the first has outlived its reservation.
Handling(h) == pc[h] \in {"work", "packets", "recover", "write", "restore", "commit"}

HandledAlone ==
  \A g, h \in Handlers :
    g # h /\ Handling(g) /\ Handling(h) /\ event[g] = event[h] =>
      clock >= since[g] + RESERVATION \/ clock >= since[h] + RESERVATION

\* Nobody is left blocked: whatever raises in the work or in the packets, a
\* reservation in the file that still counts belongs to a handler that runs or
\* has died, or to one whose release could not be written into that very file.
ReservationReleased ==
  \A k \in Events :
    store[k].status = "in_flight" /\ clock < store[k].time + RESERVATION =>
      pc[store[k].owner] \in Running \cup {"dead", "unreleased"}

\* Outside the packet transaction the two packets have the same text, or the
\* journal has the text that makes them so: crashes and errors at any point are
\* repaired by the next transaction.  The exception is a restoration that ends
\* early after the removal of the journal took effect and was reported as failed
\* (_unlink_at); the next packets written make up for it.
PacketsAgree ==
  packetLock = Free /\ journal = NONE /\ ~exposed => packets[1] = packets[2]

\* The store keeps its promise: an event is completed once in a window of TTL,
\* and what is completed is not forgotten before.
Remembered == [k \in Events |-> IF store[k].status = "committed" /\ clock < store[k].time + TTL
                                  THEN store[k].time ELSE NONE]

Window == INSTANCE EventWindow WITH clock <- clock, completed <- Remembered
CompletedOnce == Window!Spec

\* Every handler finishes: no lock is kept by an error, a crash or a handler that
\* has lost its reservation.
HandlersFinish == <>(\A h \in Handlers : pc[h] \in Finished)
=============================================================================
