-------------------------- MODULE HookEventsProofs --------------------------
(***************************************************************************)
(* Proofs about HookEvents, for every set of handlers, events and texts,   *)
(* and that its idempotency store implements EventWindow.                  *)
(***************************************************************************)
EXTENDS HookEvents, TLAPS

-----------------------------------------------------------------------------
(* The invariants *)

\* Where a handler is between taking a lock and releasing it.
InStore(h)   == pc[h] \in {"reserving", "committing", "releasing"}
InPackets(h) == pc[h] \in {"recover", "write", "restore"}

LocksHeld ==
  \A h \in Handlers : /\ (storeLock = h) <=> InStore(h)
                      /\ (packetLock = h) <=> InPackets(h)

\* What the holder of the store has read is the file without what has expired or what
\* belongs to a process that is gone, at a time that has passed.
Stale(k) ==
  \/ store[k].status = "absent"
  \/ store[k].status = "committed" /\ clock >= store[k].time + TTL
  \/ store[k].status = "in_flight" /\ \/ clock >= store[k].time + RESERVATION
                                      \/ pc[store[k].owner] \notin Running

SnapshotRead ==
  storeLock # Free =>
    /\ now <= clock
    /\ \A k \in Events : entries[k] = store[k] \/ (entries[k] = Absent /\ Stale(k))

\* A reservation is of the event of its owner, which has made it.
OwnersKnown ==
  \A k \in Events : store[k].status = "in_flight" =>
    event[store[k].owner] = k /\ pc[store[k].owner] \notin {"reserve", "reserving"}

\* The reservation of a handler that works is in the file until its time is over.
ReservationKept ==
  \A h \in Handlers : Handling(h) /\ clock < since[h] + RESERVATION =>
    store[event[h]] = InFlight(h, since[h])

StoreInv == TypeOK /\ LocksHeld /\ SnapshotRead /\ OwnersKnown /\ ReservationKept
              /\ ReservationReleased

-----------------------------------------------------------------------------
(* StoreInv is inductive *)

\* What the definitions of the store say about one entry.
LEMMA EntryTypes ==
  /\ Absent \in Entries /\ Absent.status = "absent"
  /\ \A h \in Handlers, t \in 0 .. MaxClock :
       /\ InFlight(h, t) \in Entries /\ InFlight(h, t).status = "in_flight"
       /\ InFlight(h, t).owner = h /\ InFlight(h, t).time = t
       /\ Committed(t) \in Entries /\ Committed(t).status = "committed"
       /\ Committed(t).time = t
  /\ \A e \in Entries : /\ e.status = "in_flight" => e.owner \in Handlers
                        /\ e.time \in 0 .. MaxClock
                        /\ e.status \in {"absent", "in_flight", "committed"}
<1>1. Absent \in Entries /\ Absent.status = "absent"
  BY DEF Entries, Absent
<1>2. ASSUME NEW h \in Handlers, NEW t \in 0 .. MaxClock
      PROVE  /\ InFlight(h, t) \in Entries /\ InFlight(h, t).status = "in_flight"
             /\ InFlight(h, t).owner = h /\ InFlight(h, t).time = t
             /\ Committed(t) \in Entries /\ Committed(t).status = "committed"
             /\ Committed(t).time = t
  BY DEF Entries, InFlight, Committed
<1>3. ASSUME NEW e \in Entries
      PROVE  /\ e.status = "in_flight" => e.owner \in Handlers
             /\ e.time \in 0 .. MaxClock
             /\ e.status \in {"absent", "in_flight", "committed"}
  <2>1. CASE e = Absent
    BY <2>1, HookAssumption DEF Absent
  <2>2. CASE e # Absent
    BY <1>3, <2>2 DEF Entries
  <2> QED
    BY <2>1, <2>2
<1> QED
  BY <1>1, <1>2, <1>3

\* A store without entries and packets that are not there.
LEMMA EmptyTypes ==
  /\ NoEntries \in [Events -> Entries] /\ \A k \in Events : NoEntries[k] = Absent
  /\ NoPackets \in [Packets -> Texts]
BY EntryTypes DEF NoEntries, NoPackets, Texts

\* Nobody has reserved anything at the start.
LEMMA InitStoreInv == Init => StoreInv
<1> SUFFICES ASSUME Init PROVE StoreInv
  OBVIOUS
<1>1. TypeOK
  <2>1. clock \in 0 .. MaxClock /\ now \in 0 .. MaxClock /\ since \in [Handlers -> 0 .. MaxClock]
    BY HookAssumption DEF Init
  <2>2. crashes \in 0 .. MaxCrashes /\ failures \in 0 .. MaxFailures /\ at \in 1 .. 3
    BY HookAssumption DEF Init
  <2> QED
    BY <2>1, <2>2, EmptyTypes DEF Init, TypeOK, Running, Finished, Texts
<1>2. LocksHeld /\ SnapshotRead
  BY HookAssumption DEF Init, LocksHeld, SnapshotRead, InStore, InPackets
<1>3. OwnersKnown /\ ReservationKept /\ ReservationReleased
  BY EmptyTypes, EntryTypes DEF Init, OwnersKnown, ReservationKept, ReservationReleased, Handling
<1> QED
  BY <1>1, <1>2, <1>3 DEF StoreInv

\* The text a step of the transaction writes is one.
LEMMA TextTypes ==
  ASSUME TypeOK, NEW h \in Handlers, at \in Packets, InPackets(h)
  PROVE  Text(h) \in Texts
BY DEF TypeOK, InPackets, Text

\* What a step of the transaction does to the packets and the journal.
LEMMA EffectTypes ==
  ASSUME TypeOK, NEW h \in Handlers, InPackets(h), PacketEffect(h)
  PROVE  packets' \in [Packets -> Texts] /\ journal' \in Texts
BY TextTypes DEF TypeOK, PacketEffect, Texts

\* Files, locks and locals keep their types in every step.
LEMMA TypeKept == TypeOK /\ [Next]_vars => TypeOK'
<1> SUFFICES ASSUME TypeOK, [Next]_vars PROVE TypeOK'
  OBVIOUS
<1> USE HookAssumption
<1>1. ASSUME NEW h \in Handlers, LockStore(h) PROVE TypeOK'
  <2>1. now' \in 0 .. MaxClock /\ entries' \in [Events -> Entries]
    BY <1>1, EntryTypes DEF LockStore, TypeOK
  <2> QED
    BY <1>1, <2>1 DEF LockStore, TypeOK, Goto, packetVars, faults, Running
<1>2. ASSUME NEW h \in Handlers, Reserve(h) PROVE TypeOK'
  <2>1. InFlight(h, now) \in Entries
    BY EntryTypes DEF TypeOK
  <2>2. store' \in [Events -> Entries] /\ entries' \in [Events -> Entries]
    BY <1>2, <2>1, EmptyTypes DEF Reserve, UnlockStore, TypeOK
  <2> QED
    BY <1>2, <2>2 DEF Reserve, UnlockStore, TypeOK, packetVars, faults, Running
<1>3. ASSUME NEW h \in Handlers, Duplicate(h) PROVE TypeOK'
  BY <1>3, EmptyTypes DEF Duplicate, UnlockStore, Exit, TypeOK, packetVars, faults, Finished
<1>4. ASSUME NEW h \in Handlers, Commit(h) PROVE TypeOK'
  <2>1. Committed(now) \in Entries
    BY EntryTypes, <1>4 DEF TypeOK
  <2>2. store' \in [Events -> Entries] /\ entries' \in [Events -> Entries]
    BY <1>4, <2>1, EmptyTypes DEF Commit, UnlockStore, TypeOK
  <2> QED
    BY <1>4, <2>2 DEF Commit, UnlockStore, Exit, TypeOK, packetVars, faults, Finished
<1>5. ASSUME NEW h \in Handlers, CommitLost(h) PROVE TypeOK'
  BY <1>5, EmptyTypes DEF CommitLost, UnlockStore, Goto, TypeOK, packetVars, faults, Running
<1>6. ASSUME NEW h \in Handlers, Release(h) PROVE TypeOK'
  BY <1>6, EntryTypes, EmptyTypes DEF Release, UnlockStore, Exit, TypeOK, packetVars, faults, Finished
<1>7. ASSUME NEW h \in Handlers, StoreFails(h) PROVE TypeOK'
  BY <1>7, EmptyTypes DEF StoreFails, Fails, UnlockStore, Exit, Goto, TypeOK, packetVars, Running, Finished
<1>8. ASSUME NEW h \in Handlers, Work(h) PROVE TypeOK'
  BY <1>8 DEF Work, Goto, TypeOK, storeVars, packetVars, faults, Running
<1>9. ASSUME NEW h \in Handlers, LockPackets(h) PROVE TypeOK'
  BY <1>9 DEF LockPackets, Goto, TypeOK, storeVars, faults, Running, Texts
<1>10. ASSUME NEW h \in Handlers, WriteJournal(h) PROVE TypeOK'
  BY <1>10 DEF WriteJournal, Goto, TypeOK, storeVars, faults, Running
<1>11. ASSUME NEW h \in Handlers, WritePacket(h) PROVE TypeOK'
  BY <1>11, EffectTypes DEF WritePacket, Writing, InPackets, TypeOK, storeVars, faults, Packets
<1>12. ASSUME NEW h \in Handlers, RemoveJournal(h) PROVE TypeOK'
  BY <1>12, EffectTypes, EmptyTypes DEF RemoveJournal, Writing, InPackets, UnlockPackets, Goto, TypeOK, storeVars,
    Running, Texts
<1>13. ASSUME NEW h \in Handlers, PacketFails(h) PROVE TypeOK'
  <2>1. packets' \in [Packets -> Texts] /\ journal' \in Texts
    BY <1>13, EffectTypes DEF PacketFails, InPackets, TypeOK
  <2> QED
    BY <1>13, <2>1, EmptyTypes DEF PacketFails, Fails, UnlockPackets, Goto, Exposes, TypeOK,
      storeVars, Running, Texts
<1>14. ASSUME NEW h \in Handlers, Crash(h) PROVE TypeOK'
  BY <1>14, EmptyTypes DEF Crash, Exit, UnlockStore, UnlockPackets, Exposes, TypeOK, Finished, Texts
<1>15. CASE Tick
  BY <1>15 DEF Tick, TypeOK, storeVars, packetVars, faults
<1>16. CASE UNCHANGED vars
  BY <1>16 DEF TypeOK, vars, storeVars, packetVars, faults
<1> QED
  BY <1>1, <1>2, <1>3, <1>4, <1>5, <1>6, <1>7, <1>8, <1>9, <1>10, <1>11, <1>12, <1>13, <1>14,
    <1>15, <1>16 DEF Next, Step

\* A step that touches neither the store nor its lock, of a handler that goes on.
LEMMA OutsideKeeps ==
  ASSUME StoreInv, TypeOK', NEW h \in Handlers, pc[h] \in Running, ~InStore(h),
         NEW label \in Running \ {"reserve", "reserving", "committing", "releasing"},
         pc' = [pc EXCEPT ![h] = label], label # "release" => Handling(h),
         \A g \in Handlers : (packetLock' = g) <=> InPackets(g)',
         UNCHANGED <<clock, storeVars, event, since>>
  PROVE  StoreInv'
<1>1. \A g \in Handlers : /\ InStore(g)' <=> InStore(g)
                          /\ Handling(g)' => Handling(g)
                          /\ pc'[g] \in Running <=> pc[g] \in Running
                          /\ pc'[g] \in {"reserve", "reserving"} => pc[g] \in {"reserve", "reserving"}
                          /\ pc'[g] = "dead" <=> pc[g] = "dead"
                          /\ pc'[g] = "unreleased" <=> pc[g] = "unreleased"
  BY DEF StoreInv, TypeOK, InStore, Handling, Running
<1>2. LocksHeld'
  BY <1>1 DEF StoreInv, LocksHeld, storeVars
<1>3. \A k \in Events : store[k].status = "in_flight" => store[k].owner \in Handlers
  BY EntryTypes DEF StoreInv, TypeOK
<1>4. SnapshotRead'
  BY <1>1, <1>3 DEF StoreInv, SnapshotRead, Stale, storeVars
<1>5. OwnersKnown'
  BY <1>1, <1>3 DEF StoreInv, OwnersKnown, storeVars
<1>6. ReservationKept'
  BY <1>1 DEF StoreInv, ReservationKept, storeVars
<1>7. ReservationReleased'
  BY <1>1, <1>3 DEF StoreInv, ReservationReleased, storeVars, TypeOK
<1> QED
  BY <1>2, <1>4, <1>5, <1>6, <1>7 DEF StoreInv

\* Each step of the work and of the packet transaction is one of those.
LEMMA TransactionKeeps ==
  ASSUME StoreInv, TypeOK', NEW h \in Handlers,
         \/ Work(h) \/ LockPackets(h) \/ WriteJournal(h)
         \/ WritePacket(h) \/ RemoveJournal(h) \/ PacketFails(h)
  PROVE  StoreInv'
<1> DEFINE Kept(label) == /\ pc' = [pc EXCEPT ![h] = label]
                          /\ \A g \in Handlers : (packetLock' = g) <=> InPackets(g)'
                          /\ UNCHANGED <<clock, storeVars, event, since>>
<1> USE HookAssumption DEF StoreInv
<1>1. CASE Work(h)
  <2>1. PICK label \in {"release", "commit", "packets"} : pc' = [pc EXCEPT ![h] = label]
    BY <1>1 DEF Work, Goto
  <2>2. Kept(label)
    BY <1>1, <2>1 DEF Work, Goto, LocksHeld, InPackets, TypeOK, packetVars, faults
  <2> QED
    BY <1>1, <2>2, OutsideKeeps DEF Work, InStore, Handling, Running
<1>2. CASE LockPackets(h)
  <2>1. Kept("recover")
    BY <1>2 DEF LockPackets, Goto, LocksHeld, InPackets, TypeOK, faults
  <2> QED
    BY <1>2, <2>1, OutsideKeeps DEF LockPackets, InStore, Handling, Running
<1>3. CASE WriteJournal(h)
  <2>1. Kept("write")
    BY <1>3 DEF WriteJournal, Goto, LocksHeld, InPackets, TypeOK, faults
  <2> QED
    BY <1>3, <2>1, OutsideKeeps DEF WriteJournal, InStore, Handling, Running
<1>4. CASE WritePacket(h)
  <2>1. Kept(pc[h])
    BY <1>4 DEF WritePacket, LocksHeld, InPackets, TypeOK, faults
  <2> QED
    BY <1>4, <2>1, OutsideKeeps DEF WritePacket, Writing, InStore, Handling, Running
<1>5. CASE RemoveJournal(h)
  <2>1. Writing(h)
    BY <1>5 DEF RemoveJournal
  <2>2. PICK label \in {"recover", "commit", "release"} : Kept(label) /\ (label # "release" => Handling(h))
    <3>1. CASE pc[h] = "recover"
      <4>1. Kept("recover")
        BY <1>5, <3>1 DEF RemoveJournal, LocksHeld, InPackets, TypeOK
      <4> QED
        BY <4>1, <3>1 DEF Handling
    <3>2. CASE pc[h] = "write"
      <4>1. Kept("commit")
        BY <1>5, <3>2 DEF RemoveJournal, UnlockPackets, Goto, LocksHeld, InPackets, TypeOK
      <4> QED
        BY <4>1, <3>2 DEF Handling
    <3>3. CASE pc[h] = "restore"
      <4>1. Kept("release")
        BY <1>5, <3>3 DEF RemoveJournal, UnlockPackets, Goto, LocksHeld, InPackets, TypeOK
      <4> QED
        BY <4>1
    <3> QED
      BY <2>1, <3>1, <3>2, <3>3 DEF Writing
  <2> QED
    BY <2>1, <2>2, OutsideKeeps DEF Writing, InStore, Running
<1>6. CASE PacketFails(h)
  <2>1. PICK label \in {"restore", "release"} : Kept(label) /\ (label # "release" => Handling(h))
    <3>1. CASE pc[h] = "write"
      <4>1. Kept("restore")
        BY <1>6, <3>1 DEF PacketFails, Fails, Goto, LocksHeld, InPackets, TypeOK
      <4> QED
        BY <4>1, <3>1 DEF Handling
    <3>2. CASE pc[h] # "write"
      <4>1. Kept("release")
        BY <1>6, <3>2 DEF PacketFails, Fails, UnlockPackets, Goto, LocksHeld, InPackets, TypeOK
      <4> QED
        BY <4>1
    <3> QED
      BY <3>1, <3>2
  <2>2. pc[h] \in {"recover", "write", "restore"}
    BY <1>6 DEF PacketFails
  <2> QED
    BY <2>1, <2>2, OutsideKeeps DEF InStore, Running
<1> QED
  BY <1>1, <1>2, <1>3, <1>4, <1>5, <1>6

\* Taking the lock of the store, reading it and dropping what is not alive (_live_entries).
LEMMA LockStoreKeeps ==
  ASSUME StoreInv, TypeOK', NEW h \in Handlers, LockStore(h)
  PROVE  StoreInv'
<1> USE HookAssumption DEF StoreInv
<1>1. \A g \in Handlers : /\ InPackets(g)' <=> InPackets(g)
                          /\ InStore(g)' <=> g = h
                          /\ Handling(g)' => Handling(g)
                          /\ pc'[g] \in Running <=> pc[g] \in Running
                          /\ pc'[g] \in {"reserve", "reserving"} <=> pc[g] \in {"reserve", "reserving"}
                          /\ pc'[g] = "dead" <=> pc[g] = "dead"
                          /\ pc'[g] = "unreleased" <=> pc[g] = "unreleased"
  BY DEF LockStore, Goto, TypeOK, InPackets, InStore, Handling, Running, LocksHeld
<1>2. \A k \in Events : store[k].status = "in_flight" => store[k].owner \in Handlers
  BY EntryTypes DEF TypeOK
<1>3. LocksHeld'
  BY <1>1 DEF LockStore, LocksHeld, packetVars
<1>4. \A k \in Events : /\ entries'[k] = store[k] \/ (entries'[k] = Absent /\ Stale(k))
                        /\ store[k].status = "in_flight" /\ clock < store[k].time + RESERVATION
                              /\ pc[store[k].owner] \in Running => entries'[k] = store[k]
  BY <1>2, EntryTypes DEF LockStore, Live, Stale, TypeOK
<1>5. SnapshotRead'
  BY <1>1, <1>2, <1>4 DEF LockStore, SnapshotRead, Stale, TypeOK
<1>6. OwnersKnown'
  BY <1>1, <1>2 DEF LockStore, OwnersKnown
<1>7. ReservationKept'
  BY <1>1 DEF LockStore, Goto, ReservationKept
<1>8. ReservationReleased'
  BY <1>1, <1>2 DEF LockStore, ReservationReleased, faults
<1> QED
  BY <1>3, <1>5, <1>6, <1>7, <1>8

\* The holder of the store has read every reservation that counts.
LEMMA ReadReservations ==
  ASSUME StoreInv, storeLock # Free, NEW g \in Handlers, Handling(g),
         clock < since[g] + RESERVATION
  PROVE  entries[event[g]] = InFlight(g, since[g])
<1>1. store[event[g]] = InFlight(g, since[g]) /\ event[g] \in Events /\ since[g] \in 0 .. MaxClock
  BY DEF StoreInv, ReservationKept, TypeOK
<1>2. ~Stale(event[g])
  BY <1>1, EntryTypes, HookAssumption DEF Stale, StoreInv, TypeOK, Handling, Running
<1> QED
  BY <1>1, <1>2 DEF StoreInv, SnapshotRead

\* What the holder of the store has read of its own reservation is what the file says of it.
LEMMA OwnReservation ==
  ASSUME StoreInv, NEW h \in Handlers, InStore(h), NEW k \in Events,
         store[k].status = "in_flight", store[k].owner = h, clock < store[k].time + RESERVATION
  PROVE  k = event[h] /\ Owned(h) /\ pc[h] # "reserving"
<1>1. storeLock = h /\ storeLock # Free
  BY HookAssumption DEF StoreInv, LocksHeld
<1>2. k = event[h] /\ pc[h] # "reserving"
  BY DEF StoreInv, OwnersKnown
<1>3. ~Stale(k)
  BY HookAssumption DEF Stale, InStore, Running, StoreInv, TypeOK, Entries, Absent
<1> QED
  BY <1>1, <1>2, <1>3 DEF StoreInv, SnapshotRead, Owned

\* A step that releases the lock of the store, of a handler that goes on to "label": what
\* it wrote is what it had read, but for the entry of its own event.
LEMMA UnlockKeeps ==
  ASSUME StoreInv, TypeOK', NEW h \in Handlers, InStore(h), UnlockStore,
         NEW label \in {"work", "release", "done", "unreleased"}, pc' = [pc EXCEPT ![h] = label],
         \A g \in Handlers \ {h} : since'[g] = since[g],
         NEW e \in Entries, store' \in {store, [entries EXCEPT ![event[h]] = e]},
         store' # store => entries[event[h]] = Absent \/ Owned(h),
         e.status = "in_flight" => e = InFlight(h, since'[h]) /\ label = "work",
         label = "work" => store'[event[h]] = InFlight(h, since'[h]),
         label = "done" /\ store' = store => pc[h] = "reserving" \/ ~Owned(h),
         UNCHANGED <<clock, packetVars, event>>
  PROVE  StoreInv'
<1> USE HookAssumption DEF StoreInv
<1>1. \A g \in Handlers :
        /\ InPackets(g)' <=> InPackets(g)
        /\ InStore(g)' <=> FALSE
        /\ g # h => /\ Handling(g)' <=> Handling(g)
                    /\ pc'[g] = pc[g]
  BY DEF TypeOK, InPackets, InStore, Handling, LocksHeld
<1>2. storeLock = h /\ storeLock # Free
  BY DEF LocksHeld
<1>3. \A k \in Events : store'[k].status = "in_flight" => store'[k].owner \in Handlers
  BY EntryTypes DEF TypeOK
<1>4. LocksHeld'
  BY <1>1 DEF UnlockStore, LocksHeld, packetVars
<1>5. SnapshotRead'
  BY DEF UnlockStore, SnapshotRead
<1>6. ASSUME NEW k \in Events, store'[k].status = "in_flight"
      PROVE  \/ k = event[h] /\ store'[k] = InFlight(h, since'[h]) /\ label = "work"
             \/ store'[k] = store[k]
  BY <1>2, <1>6, EntryTypes DEF TypeOK, SnapshotRead
<1>7. OwnersKnown'
  <2> SUFFICES ASSUME NEW k \in Events, store'[k].status = "in_flight"
               PROVE  event[store'[k].owner] = k /\ pc'[store'[k].owner] \notin {"reserve", "reserving"}
    BY DEF OwnersKnown
  <2>1. CASE k = event[h] /\ store'[k] = InFlight(h, since'[h])
    BY <2>1 DEF InFlight, TypeOK
  <2>2. CASE store'[k] = store[k]
    BY <2>2, <1>1, <1>3 DEF OwnersKnown, TypeOK
  <2> QED
    BY <1>6, <2>1, <2>2
<1>8. ReservationKept'
  <2> SUFFICES ASSUME NEW g \in Handlers, Handling(g)', clock < since'[g] + RESERVATION
               PROVE  store'[event[g]] = InFlight(g, since'[g])
    BY DEF ReservationKept
  <2>1. CASE g = h
    BY <2>1 DEF Handling, TypeOK
  <2>2. CASE g # h
    <3>1. entries[event[g]] = InFlight(g, since[g]) /\ store[event[g]] = InFlight(g, since[g])
      BY <1>1, <1>2, <2>2, ReadReservations DEF ReservationKept
    <3>2. CASE event[g] = event[h]
      <4>1. entries[event[h]] # Absent /\ ~Owned(h)
        BY <2>2, <3>1, <3>2 DEF Owned, InFlight, Absent
      <4> QED
        BY <2>2, <3>1, <4>1
    <3>3. CASE event[g] # event[h]
      BY <2>2, <3>1, <3>3 DEF TypeOK
    <3> QED
      BY <3>2, <3>3
  <2> QED
    BY <2>1, <2>2
<1>9. ReservationReleased'
  <2> SUFFICES ASSUME NEW k \in Events, store'[k].status = "in_flight",
                      clock < store'[k].time + RESERVATION
               PROVE  pc'[store'[k].owner] \in Running \cup {"dead", "unreleased"}
    BY DEF ReservationReleased, TypeOK
  <2>1. CASE store'[k] = InFlight(h, since'[h]) /\ label = "work"
    BY <2>1 DEF InFlight, TypeOK, Running
  <2>2. CASE store'[k] = store[k]
    <3>1. CASE store[k].owner = h
      <4>1. k = event[h] /\ Owned(h) /\ pc[h] # "reserving"
        BY <2>2, <3>1, OwnReservation
      <4>2. label # "done"
        <5>1. CASE store' = store
          BY <4>1, <5>1
        <5>2. CASE store' = [entries EXCEPT ![event[h]] = e]
          <6>1. store'[k] = e
            BY <4>1, <5>2 DEF TypeOK
          <6> QED
            BY <6>1
        <5> QED
          BY <5>1, <5>2
      <4> QED
        BY <2>2, <3>1, <4>2 DEF TypeOK, Running
    <3>2. CASE store[k].owner # h
      <4>1. pc[store[k].owner] \in Running \cup {"dead", "unreleased"}
        BY <2>2 DEF ReservationReleased, TypeOK
      <4> QED
        BY <2>2, <3>2, <4>1, <1>1, <1>3
    <3> QED
      BY <3>1, <3>2
  <2> QED
    BY <1>6, <2>1, <2>2
<1> QED
  BY <1>4, <1>5, <1>7, <1>8, <1>9

\* Each operation of the store is one of those (IdempotencyStore.reserve, commit, release).
LEMMA StoreStepKeeps ==
  ASSUME StoreInv, TypeOK', NEW h \in Handlers,
         \/ Reserve(h) \/ Duplicate(h) \/ Commit(h) \/ CommitLost(h) \/ Release(h) \/ StoreFails(h)
  PROVE  StoreInv'
<1> USE HookAssumption DEF StoreInv
<1>1. now \in 0 .. MaxClock /\ event[h] \in Events
  BY DEF TypeOK
<1>2. Absent \in Entries /\ Absent.status = "absent"
  BY EntryTypes
<1>3. CASE Reserve(h)
  <2>1. InStore(h) /\ since'[h] = now /\ pc' = [pc EXCEPT ![h] = "work"]
    BY <1>3 DEF Reserve, InStore, TypeOK
  <2>2. InFlight(h, now) \in Entries
    BY <1>1, EntryTypes
  <2>3. store' = [entries EXCEPT ![event[h]] = InFlight(h, now)] /\ store'[event[h]] = InFlight(h, now)
    BY <1>1, <1>3 DEF Reserve, TypeOK
  <2>4. \A g \in Handlers \ {h} : since'[g] = since[g]
    BY <1>3 DEF Reserve, TypeOK
  <2>5. entries[event[h]] = Absent /\ UnlockStore
          /\ UNCHANGED <<clock, packetVars, event>>
    BY <1>3 DEF Reserve, faults, TypeOK
  <2> QED
    BY <2>1, <2>2, <2>3, <2>4, <2>5, UnlockKeeps
<1>4. CASE Duplicate(h)
  <2>1. InStore(h) /\ UnlockStore /\ pc' = [pc EXCEPT ![h] = "done"] /\ pc[h] = "reserving"
          /\ store' = store /\ UNCHANGED <<clock, packetVars, event>>
    BY <1>4 DEF Duplicate, Exit, InStore, TypeOK, faults
  <2>2. \A g \in Handlers \ {h} : since'[g] = since[g]
    BY <1>4 DEF Duplicate, Exit, TypeOK
  <2> QED
    BY <1>2, <2>1, <2>2, UnlockKeeps
<1>5. CASE Commit(h)
  <2>1. InStore(h) /\ UnlockStore /\ pc' = [pc EXCEPT ![h] = "done"] /\ Owned(h)
          /\ store' = [entries EXCEPT ![event[h]] = Committed(now)]
          /\ UNCHANGED <<clock, packetVars, event>>
    BY <1>5 DEF Commit, Exit, InStore, TypeOK, faults
  <2>2. \A g \in Handlers \ {h} : since'[g] = since[g]
    BY <1>5 DEF Commit, Exit, TypeOK
  <2>3. Committed(now) \in Entries /\ Committed(now).status = "committed"
    BY <1>1, EntryTypes
  <2>4. store' # store
    BY <1>1, <1>2, <2>1, <2>3, SMT DEF Owned, SnapshotRead, LocksHeld, TypeOK
  <2> QED
    BY <2>1, <2>2, <2>3, <2>4, UnlockKeeps
<1>6. CASE CommitLost(h)
  <2>1. InStore(h) /\ UnlockStore /\ pc' = [pc EXCEPT ![h] = "release"]
          /\ store' = store /\ UNCHANGED <<clock, packetVars, event>>
    BY <1>6 DEF CommitLost, Goto, InStore, TypeOK, faults
  <2>2. \A g \in Handlers \ {h} : since'[g] = since[g]
    BY <1>6 DEF CommitLost, Goto, TypeOK
  <2> QED
    BY <1>2, <2>1, <2>2, UnlockKeeps
<1>7. CASE Release(h)
  <2>1. InStore(h) /\ UnlockStore /\ pc' = [pc EXCEPT ![h] = "done"]
          /\ UNCHANGED <<clock, packetVars, event>>
    BY <1>7 DEF Release, Exit, InStore, TypeOK, faults
  <2>2. \A g \in Handlers \ {h} : since'[g] = since[g]
    BY <1>7 DEF Release, Exit, TypeOK
  <2>3. CASE Owned(h)
    <3>1. store' = [entries EXCEPT ![event[h]] = Absent]
      BY <1>7, <2>3 DEF Release
    <3>2. store' # store
      BY <1>1, <1>2, <2>1, <2>3, <3>1, SMT DEF Owned, SnapshotRead, LocksHeld, TypeOK
    <3> QED
      BY <1>2, <2>1, <2>2, <2>3, <3>1, <3>2, UnlockKeeps
  <2>4. CASE ~Owned(h)
    <3>1. store' = store
      BY <1>7, <2>4 DEF Release
    <3> QED
      BY <1>2, <2>1, <2>2, <2>4, <3>1, UnlockKeeps
  <2> QED
    BY <2>3, <2>4
<1>8. CASE StoreFails(h)
  <2>1. InStore(h) /\ UnlockStore /\ store' = store
          /\ UNCHANGED <<clock, packetVars, event>>
    BY <1>8 DEF StoreFails, InStore
  <2>2. PICK label \in {"release", "done", "unreleased"} :
          pc' = [pc EXCEPT ![h] = label] /\ (label = "done" => pc[h] = "reserving")
    BY <1>8 DEF StoreFails, Exit, Goto
  <2>3. \A g \in Handlers \ {h} : since'[g] = since[g]
    BY <1>8 DEF StoreFails, Exit, Goto, TypeOK
  <2> QED
    BY <1>2, <2>1, <2>2, <2>3, UnlockKeeps
<1> QED
  BY <1>3, <1>4, <1>5, <1>6, <1>7, <1>8

\* A process that dies gives up its locks, and its reservation counts until its time is over.
LEMMA CrashKeeps ==
  ASSUME StoreInv, TypeOK', NEW h \in Handlers, Crash(h)
  PROVE  StoreInv'
<1> USE HookAssumption DEF StoreInv
<1>1. \A g \in Handlers :
        /\ InPackets(g)' <=> InPackets(g) /\ g # h
        /\ InStore(g)' <=> InStore(g) /\ g # h
        /\ Handling(g)' <=> Handling(g) /\ g # h
        /\ pc'[g] \in Running => pc[g] \in Running
        /\ pc'[g] \in {"reserve", "reserving"} => pc[g] \in {"reserve", "reserving"}
        /\ pc[g] \in Running \cup {"dead"} => pc'[g] \in Running \cup {"dead"}
        /\ pc'[g] = "unreleased" <=> pc[g] = "unreleased"
        /\ g # h => since'[g] = since[g]
  BY DEF Crash, Exit, TypeOK, InPackets, InStore, Handling, Running
<1>2. \A k \in Events : store[k].status = "in_flight" => store[k].owner \in Handlers
  BY EntryTypes DEF TypeOK
<1>3. LocksHeld'
  BY <1>1 DEF Crash, UnlockStore, UnlockPackets, LocksHeld
<1>4. SnapshotRead'
  BY <1>1, <1>2 DEF Crash, UnlockStore, SnapshotRead, Stale
<1>5. OwnersKnown'
  BY <1>1, <1>2 DEF Crash, OwnersKnown
<1>6. ReservationKept'
  BY <1>1 DEF Crash, ReservationKept
<1>7. ReservationReleased'
  BY <1>1, <1>2 DEF Crash, ReservationReleased
<1> QED
  BY <1>3, <1>4, <1>5, <1>6, <1>7

\* Time passes: reservations expire, and what has expired stays so.
LEMMA TickKeeps ==
  ASSUME StoreInv, TypeOK', Tick
  PROVE  StoreInv'
<1> USE HookAssumption DEF StoreInv
<1>1. LocksHeld'
  BY DEF Tick, LocksHeld, InStore, InPackets, storeVars, packetVars
<1>2. \A k \in Events : store[k].time \in 0 .. MaxClock
  BY EntryTypes DEF TypeOK
<1>3. \A k \in Events : Stale(k) => Stale(k)'
  BY <1>2 DEF Tick, Stale, storeVars, TypeOK
<1>4. SnapshotRead'
  BY <1>3 DEF Tick, SnapshotRead, storeVars, TypeOK
<1>5. OwnersKnown'
  BY DEF Tick, OwnersKnown, storeVars
<1>6. ReservationKept'
  BY DEF Tick, ReservationKept, Handling, storeVars, TypeOK
<1>7. ReservationReleased'
  BY <1>2 DEF Tick, ReservationReleased, storeVars, faults, TypeOK
<1> QED
  BY <1>1, <1>4, <1>5, <1>6, <1>7

\* Every step keeps StoreInv.
LEMMA NextStoreInv == StoreInv /\ [Next]_vars => StoreInv'
<1> SUFFICES ASSUME StoreInv, [Next]_vars PROVE StoreInv'
  OBVIOUS
<1>1. TypeOK'
  BY TypeKept DEF StoreInv
<1>2. ASSUME NEW h \in Handlers, Step(h) \/ Crash(h) PROVE StoreInv'
  BY <1>1, <1>2, LockStoreKeeps, StoreStepKeeps, TransactionKeeps, CrashKeeps DEF Step
<1>3. CASE Tick
  BY <1>1, <1>3, TickKeeps
<1>4. CASE UNCHANGED vars
  BY <1>4 DEF StoreInv, TypeOK, LocksHeld, SnapshotRead, Stale, OwnersKnown, ReservationKept,
    ReservationReleased, InStore, InPackets, Handling, vars, storeVars, packetVars, faults
<1> QED
  BY <1>2, <1>3, <1>4 DEF Next

\* The store and its locks are as StoreInv says in every reachable state.
LEMMA StoreCorrect == Spec => []StoreInv
BY InitStoreInv, NextStoreInv, PTL DEF Spec

-----------------------------------------------------------------------------
(* The two packets *)

\* The packets before the one that comes next have the text of the phase.
Done(text) == (at > 1 => packets[1] = text[1]) /\ (at > 2 => packets[2] = text[2])
Both(text) == [n \in Packets |-> text]

\* What the holder of the packet lock has done and still knows: a journal that is there
\* tells the text of a recovery and of a transaction; the packets it read were alike.
PacketsKnown ==
  /\ packetLock = Free => at = 1
  /\ \A h \in Handlers :
       /\ pc[h] = "recover" =>
            /\ context \in Contexts
            /\ journal # NONE => Done(Both(journal))
            /\ journal = NONE => at = 1 /\ (~exposed => packets[1] = packets[2])
       /\ pc[h] = "write" =>
            /\ context \in Contexts /\ journal = context /\ Done(Both(context))
            /\ ~exposed => previous[1] = previous[2]
       /\ pc[h] = "restore" => Done(previous) /\ (~exposed => previous[1] = previous[2])

PacketsInv == PacketsKnown /\ PacketsAgree

\* There are no packets at the start.
LEMMA InitPacketsInv == Init => PacketsInv
BY DEF Init, PacketsInv, PacketsKnown, PacketsAgree, NoPackets, Packets

\* A step outside the transaction leaves the packets as they are.
LEMMA OthersKeepPackets ==
  ASSUME PacketsInv, UNCHANGED <<packetVars, exposed>>,
         \A h \in Handlers : InPackets(h)' => pc'[h] = pc[h]
  PROVE  PacketsInv'
BY DEF PacketsInv, PacketsKnown, PacketsAgree, Done, Both, InPackets, packetVars

\* Only the holder of the packet lock is in the transaction.
LEMMA HolderAlone ==
  ASSUME StoreInv, NEW h \in Handlers, InPackets(h)
  PROVE  packetLock = h /\ packetLock # Free /\ \A g \in Handlers \ {h} : ~InPackets(g)
BY HookAssumption DEF StoreInv, LocksHeld

\* Taking the packet lock.
LEMMA LockPacketsKeeps ==
  ASSUME StoreInv, PacketsInv, NEW h \in Handlers, LockPackets(h)
  PROVE  PacketsInv'
<1>1. \A g \in Handlers : InPackets(g)' <=> g = h
  BY HookAssumption DEF LockPackets, Goto, StoreInv, TypeOK, LocksHeld, InPackets
<1>2. pc'[h] = "recover" /\ packetLock' # Free /\ context' \in Contexts
  BY HookAssumption DEF LockPackets, Goto, StoreInv, TypeOK
<1> QED
  BY <1>1, <1>2 DEF LockPackets, PacketsInv, PacketsKnown, PacketsAgree, Done, Both, InPackets, Packets, faults

\* Writing the journal, when no older one is left.
LEMMA WriteJournalKeeps ==
  ASSUME StoreInv, PacketsInv, NEW h \in Handlers, WriteJournal(h)
  PROVE  PacketsInv'
<1>1. InPackets(h)
  BY DEF WriteJournal, InPackets
<1>2. \A g \in Handlers : InPackets(g)' <=> g = h
  BY <1>1, HolderAlone DEF WriteJournal, Goto, StoreInv, TypeOK, InPackets
<1>3. pc'[h] = "write" /\ packetLock' # Free
  BY <1>1, HolderAlone DEF WriteJournal, Goto, StoreInv, TypeOK
<1> QED
  BY <1>2, <1>3 DEF WriteJournal, PacketsInv, PacketsKnown, PacketsAgree, Done, Both, InPackets, faults

\* The next packet gets the text of the phase.
LEMMA WritePacketKeeps ==
  ASSUME StoreInv, PacketsInv, NEW h \in Handlers, WritePacket(h)
  PROVE  PacketsInv'
<1>1. InPackets(h) /\ at \in Packets
  BY DEF WritePacket, Writing, InPackets
<1>2. packetLock = h /\ packetLock # Free /\ \A g \in Handlers : InPackets(g) <=> g = h
  BY <1>1, HolderAlone
<1>3. packets' = [packets EXCEPT ![at] = Text(h)] /\ journal' = journal /\ at' = at + 1
  BY DEF WritePacket, PacketEffect
<1>4. packets \in [Packets -> Texts] /\ at \in {1, 2}
  BY <1>1 DEF StoreInv, TypeOK, Packets
<1>5. UNCHANGED <<packetLock, context, previous, pc, exposed>>
  BY DEF WritePacket, faults
<1>6. CASE pc[h] = "recover"
  BY <1>1, <1>2, <1>3, <1>4, <1>5, <1>6 DEF WritePacket, Writing, Text, PacketsInv, PacketsKnown,
    PacketsAgree, Done, Both, InPackets, Packets
<1>7. CASE pc[h] = "write"
  BY <1>1, <1>2, <1>3, <1>4, <1>5, <1>7 DEF Text, PacketsInv, PacketsKnown,
    PacketsAgree, Done, Both, InPackets, Packets
<1>8. CASE pc[h] = "restore"
  BY <1>1, <1>2, <1>3, <1>4, <1>5, <1>8 DEF Text, PacketsInv, PacketsKnown,
    PacketsAgree, Done, Both, InPackets, Packets
<1> QED
  BY <1>1, <1>6, <1>7, <1>8 DEF InPackets

\* The journal goes when both packets have their text.
LEMMA RemoveJournalKeeps ==
  ASSUME StoreInv, PacketsInv, NEW h \in Handlers, RemoveJournal(h)
  PROVE  PacketsInv'
<1>1. InPackets(h) /\ at = 3
  BY DEF RemoveJournal, Writing, InPackets, StoreInv, TypeOK, Packets
<1>2. packetLock = h /\ packetLock # Free /\ \A g \in Handlers : InPackets(g) <=> g = h
  BY <1>1, HolderAlone
<1>3. packets' = packets /\ journal' = NONE
  BY <1>1 DEF RemoveJournal, PacketEffect, Packets
<1>4. CASE pc[h] = "recover"
  <2>1. packets[1] = packets[2]
    BY <1>1, <1>4 DEF RemoveJournal, Writing, PacketsInv, PacketsKnown, Done, Both, Packets
  <2> QED
    BY <2>1, <1>2, <1>3, <1>4 DEF RemoveJournal, PacketsInv, PacketsKnown, PacketsAgree, InPackets
<1>5. CASE pc[h] = "write"
  <2>1. packets[1] = packets[2]
    BY <1>1, <1>5 DEF PacketsInv, PacketsKnown, Done, Both, Packets
  <2>2. \A g \in Handlers : ~InPackets(g)'
    BY <1>2, <1>5 DEF RemoveJournal, Goto, InPackets, StoreInv, TypeOK
  <2> QED
    BY <2>1, <2>2, <1>3, <1>5 DEF RemoveJournal, UnlockPackets, PacketsInv, PacketsKnown,
      PacketsAgree, InPackets
<1>6. CASE pc[h] = "restore"
  <2>1. ~exposed => packets[1] = packets[2]
    BY <1>1, <1>6 DEF PacketsInv, PacketsKnown, Done
  <2>2. \A g \in Handlers : ~InPackets(g)'
    BY <1>2, <1>6 DEF RemoveJournal, Goto, InPackets, StoreInv, TypeOK
  <2> QED
    BY <2>1, <2>2, <1>3, <1>6 DEF RemoveJournal, UnlockPackets, PacketsInv, PacketsKnown,
      PacketsAgree, InPackets
<1> QED
  BY <1>1, <1>4, <1>5, <1>6 DEF InPackets

\* A handler leaves the transaction early: with a journal the next one finishes it, and
\* without one only a restoration can be under way, which is what exposed notes.
LEMMA EarlyEndKeeps ==
  ASSUME StoreInv, PacketsInv, NEW h \in Handlers, InPackets(h), UnlockPackets, Exposes(h),
         \A g \in Handlers : ~InPackets(g)',
         \/ UNCHANGED <<packets, journal>>
         \/ Writing(h) /\ PacketEffect(h)
         \/ journal' # NONE
  PROVE  PacketsInv'
<1>1. journal' = NONE /\ ~exposed' => packets'[1] = packets'[2]
  <2> SUFFICES ASSUME journal' = NONE, ~exposed' PROVE packets'[1] = packets'[2]
    OBVIOUS
  <2>1. ~exposed /\ ~(pc[h] = "restore" /\ journal = NONE)
    BY DEF Exposes, StoreInv, TypeOK
  <2>2. CASE UNCHANGED <<packets, journal>>
    BY <2>1, <2>2, HookAssumption DEF PacketsInv, PacketsKnown, InPackets
  <2>3. CASE journal # NONE /\ Writing(h) /\ PacketEffect(h)
    <3>1. at = 3 /\ packets' = packets
      BY <2>3 DEF PacketEffect, StoreInv, TypeOK, Packets
    <3> QED
      BY <2>1, <2>3, <3>1 DEF PacketsInv, PacketsKnown, Done, Both, Writing, Packets
  <2>4. CASE journal = NONE /\ Writing(h) /\ PacketEffect(h)
    BY <2>1, <2>4, HookAssumption DEF Writing, PacketsInv, PacketsKnown
  <2> QED
    BY <2>2, <2>3, <2>4
<1>2. packetLock' = Free /\ at' = 1
  BY DEF UnlockPackets
<1> QED
  BY <1>1, <1>2 DEF PacketsInv, PacketsKnown, PacketsAgree, InPackets

\* An error in the transaction.
LEMMA PacketFailsKeeps ==
  ASSUME StoreInv, PacketsInv, NEW h \in Handlers, PacketFails(h)
  PROVE  PacketsInv'
<1>1. InPackets(h)
  BY DEF PacketFails, InPackets
<1>2. packetLock = h /\ packetLock # Free /\ \A g \in Handlers : InPackets(g) <=> g = h
  BY <1>1, HolderAlone
<1>3. CASE pc[h] = "write"
  <2>1. pc' = [pc EXCEPT ![h] = "restore"] /\ at' = 1 /\ UNCHANGED <<packetLock, context, previous>>
    BY <1>3 DEF PacketFails, Goto
  <2>2. \A g \in Handlers : /\ InPackets(g)' <=> g = h
                            /\ pc'[h] = "restore"
    BY <1>2, <2>1 DEF InPackets, StoreInv, TypeOK
  <2>3. exposed' = exposed
    BY <1>3 DEF PacketFails, Exposes, StoreInv, TypeOK
  <2> QED
    BY <1>2, <1>3, <2>1, <2>2, <2>3 DEF PacketsInv, PacketsKnown, PacketsAgree, Done, InPackets
<1>4. CASE pc[h] # "write"
  <2>1. UnlockPackets /\ Exposes(h) /\ pc' = [pc EXCEPT ![h] = "release"]
    BY <1>4 DEF PacketFails, Goto
  <2>2. \A g \in Handlers : ~InPackets(g)'
    BY <1>2, <2>1 DEF InPackets, StoreInv, TypeOK
  <2>3. \/ UNCHANGED <<packets, journal>>
        \/ Writing(h) /\ PacketEffect(h)
        \/ journal' # NONE
    BY <1>4, HookAssumption DEF PacketFails, Writing, PacketsInv, PacketsKnown
  <2> QED
    BY <1>1, <2>1, <2>2, <2>3, EarlyEndKeeps
<1> QED
  BY <1>3, <1>4

\* A handler that dies.
LEMMA CrashKeepsPackets ==
  ASSUME StoreInv, PacketsInv, NEW h \in Handlers, Crash(h)
  PROVE  PacketsInv'
<1>1. \A g \in Handlers : InPackets(g)' => pc'[g] = pc[g] /\ InPackets(g) /\ g # h
  BY DEF Crash, Exit, InPackets, StoreInv, TypeOK
<1>2. CASE InPackets(h)
  BY <1>1, <1>2, HolderAlone, EarlyEndKeeps DEF Crash
<1>3. CASE ~InPackets(h)
  <2>1. packetLock # h
    BY <1>3 DEF StoreInv, LocksHeld
  <2>2. exposed' = exposed
    BY <1>3 DEF Crash, Exposes, InPackets, StoreInv, TypeOK
  <2> QED
    BY <1>1, <2>1, <2>2, OthersKeepPackets DEF Crash, packetVars
<1> QED
  BY <1>2, <1>3

\* Every step keeps PacketsInv.
LEMMA NextPacketsInv == StoreInv /\ PacketsInv /\ [Next]_vars => PacketsInv'
<1> SUFFICES ASSUME StoreInv, PacketsInv, [Next]_vars PROVE PacketsInv'
  OBVIOUS
<1>1. ASSUME NEW h \in Handlers,
             \/ LockStore(h) \/ Reserve(h) \/ Duplicate(h) \/ Commit(h) \/ CommitLost(h)
             \/ Release(h) \/ StoreFails(h) \/ Work(h)
      PROVE  PacketsInv'
  <2>1. UNCHANGED <<packetVars, exposed>>
    BY <1>1 DEF LockStore, Reserve, Duplicate, Commit, CommitLost, Release, StoreFails, Work, faults
  <2>2. \A g \in Handlers : InPackets(g)' => pc'[g] = pc[g]
    BY <1>1 DEF LockStore, Reserve, Duplicate, Commit, CommitLost, Release, StoreFails, Work,
      Goto, Exit, InPackets, StoreInv, TypeOK
  <2> QED
    BY <2>1, <2>2, OthersKeepPackets
<1>2. ASSUME NEW h \in Handlers, LockPackets(h) \/ WriteJournal(h) \/ WritePacket(h)
                                   \/ RemoveJournal(h) \/ PacketFails(h) \/ Crash(h)
      PROVE  PacketsInv'
  BY <1>2, LockPacketsKeeps, WriteJournalKeeps, WritePacketKeeps, RemoveJournalKeeps,
    PacketFailsKeeps, CrashKeepsPackets
<1>3. CASE Tick \/ UNCHANGED vars
  BY <1>3, OthersKeepPackets DEF Tick, vars, faults
<1> QED
  BY <1>1, <1>2, <1>3 DEF Next, Step

-----------------------------------------------------------------------------
(* The store implements EventWindow *)

\* Nothing is remembered at the start.
LEMMA InitWindow == Init => Window!Init
BY EmptyTypes, EntryTypes DEF Init, Window!Init, Remembered

\* A committed entry in its window is remembered, and nothing else.
LEMMA WhatIsRemembered ==
  ASSUME TypeOK, NEW k \in Events
  PROVE  /\ Remembered[k] = NONE <=> ~(store[k].status = "committed" /\ clock < store[k].time + TTL)
         /\ Remembered[k] # NONE => Remembered[k] = store[k].time
         /\ store[k].time \in Nat
BY EntryTypes, HookAssumption DEF Remembered, TypeOK

\* Time that passes ends the windows that are over.
LEMMA TickWindow ==
  ASSUME StoreInv, TypeOK', Tick
  PROVE  Window!Tick
<1>1. clock < MaxClock /\ clock' = clock + 1 /\ store' = store
  BY DEF Tick, storeVars
<1>2. \A k \in Events : store[k].time \in Nat /\ clock \in Nat /\ TTL \in Nat
  BY WhatIsRemembered, HookAssumption DEF StoreInv, TypeOK
<1>3. Remembered' = [k \in Events |-> IF Remembered[k] # NONE /\ clock' >= Remembered[k] + TTL
                                       THEN NONE ELSE Remembered[k]]
  BY <1>1, <1>2, HookAssumption DEF Remembered
<1> QED
  BY <1>1, <1>3 DEF Window!Tick

\* What an operation of the store leaves as it had read it is remembered as before.
LEMMA ReadIsRemembered ==
  ASSUME StoreInv, storeLock # Free, NEW k \in Events, clock' = clock,
         store'[k] \in {store[k], entries[k]}
  PROVE  Remembered'[k] = Remembered[k]
<1>1. CASE store'[k] = store[k]
  BY <1>1 DEF Remembered
<1>2. CASE store'[k] = Absent /\ Stale(k)
  <2>1. ~(store[k].status = "committed" /\ clock < store[k].time + TTL)
    BY <1>2, WhatIsRemembered, HookAssumption DEF Stale, StoreInv, TypeOK
  <2>2. store'[k].status # "committed"
    BY <1>2, EntryTypes
  <2> QED
    BY <2>1, <2>2 DEF Remembered
<1> QED
  BY <1>1, <1>2 DEF StoreInv, SnapshotRead

\* A commit completes its event; it was not complete, for its reservation was in the file.
LEMMA CommitWindow ==
  ASSUME StoreInv, NEW h \in Handlers, Commit(h)
  PROVE  Window!Complete(event[h]) \/ UNCHANGED <<clock, Remembered>>
<1> DEFINE k == event[h]
<1>1. k \in Events /\ clock \in Nat /\ now \in Nat /\ now \in 0 .. MaxClock /\ TTL \in Nat
  BY HookAssumption DEF StoreInv, TypeOK
<1>2. storeLock # Free /\ now <= clock
  BY HookAssumption DEF Commit, InStore, StoreInv, LocksHeld, SnapshotRead
<1>3. Remembered[k] = NONE
  <2>1. store[k].status = "in_flight"
    BY <1>1, <1>2, EntryTypes DEF Commit, Owned, StoreInv, SnapshotRead
  <2> QED
    BY <1>1, <2>1 DEF Remembered
<1>4. /\ clock' = clock /\ store' = [entries EXCEPT ![k] = Committed(now)]
      /\ store'[k] = Committed(now)
  BY <1>1 DEF Commit, StoreInv, TypeOK
<1>5. Remembered'[k] = IF clock < now + TTL THEN now ELSE NONE
  BY <1>1, <1>4, EntryTypes DEF Remembered
<1>6. \A j \in Events \ {k} : Remembered'[j] = Remembered[j]
  <2> TAKE j \in Events \ {k}
  <2>1. store'[j] = entries[j]
    BY <1>4 DEF StoreInv, TypeOK
  <2> QED
    BY <1>2, <1>4, <2>1, ReadIsRemembered
<1>7. Remembered' = [Remembered EXCEPT ![k] = IF clock < now + TTL THEN now ELSE NONE]
  <2>1. Remembered = [j \in Events |-> Remembered[j]] /\ Remembered' = [j \in Events |-> Remembered'[j]]
    BY DEF Remembered
  <2> HIDE DEF k
  <2> QED
    BY <1>1, <1>5, <1>6, <2>1
<1>8. CASE clock < now + TTL
  <2>1. now \in 0 .. clock /\ Remembered' = [Remembered EXCEPT ![k] = now]
    BY <1>1, <1>2, <1>7, <1>8
  <2> QED
    BY <1>3, <1>4, <1>8, <2>1 DEF Window!Complete
<1>9. CASE ~(clock < now + TTL)
  <2>1. Remembered' = Remembered
    BY <1>1, <1>3, <1>7, <1>9 DEF Remembered
  <2> QED
    BY <1>4, <2>1
<1> QED
  BY <1>8, <1>9

\* A reservation or its release remembers and forgets nothing.
LEMMA ReserveWindow ==
  ASSUME StoreInv, NEW h \in Handlers, Reserve(h) \/ Release(h)
  PROVE  UNCHANGED <<clock, Remembered>>
<1> DEFINE k == event[h]
<1>1. k \in Events /\ now \in 0 .. MaxClock
  BY DEF StoreInv, TypeOK
<1>2. storeLock # Free /\ clock' = clock
  BY HookAssumption DEF Reserve, Release, InStore, StoreInv, LocksHeld
<1>3. PICK e \in Entries : /\ e.status # "committed"
                           /\ store' = store \/ (store' = [entries EXCEPT ![k] = e]
                                                 /\ entries[k].status # "committed")
  <2>1. CASE Reserve(h)
    BY <1>1, <2>1, EntryTypes DEF Reserve
  <2>2. CASE Release(h)
    BY <1>1, <2>2, EntryTypes DEF Release, Owned
  <2> QED
    BY <2>1, <2>2
<1>4. ASSUME NEW j \in Events PROVE Remembered'[j] = Remembered[j]
  <2>1. CASE store' = store
    BY <1>2, <2>1 DEF Remembered
  <2>2. CASE store' = [entries EXCEPT ![k] = e] /\ j # k
    <3>1. store'[j] = entries[j]
      BY <2>2 DEF StoreInv, TypeOK
    <3> QED
      BY <1>2, <3>1, ReadIsRemembered
  <2>3. CASE store' = [entries EXCEPT ![k] = e] /\ j = k /\ entries[k].status # "committed"
    <3>1. store'[k] = e
      BY <1>1, <2>3 DEF StoreInv, TypeOK
    <3>2. store[k].status # "committed" \/ clock >= store[k].time + TTL
      BY <1>1, <1>2, <2>3 DEF StoreInv, SnapshotRead, Stale
    <3>3. store[k].time \in Nat /\ clock \in Nat /\ TTL \in Nat
      BY <1>1, WhatIsRemembered, HookAssumption DEF StoreInv, TypeOK
    <3> QED
      BY <1>1, <1>2, <1>3, <2>3, <3>1, <3>2, <3>3 DEF Remembered
  <2> QED
    BY <1>3, <2>1, <2>2, <2>3
<1>5. Remembered' = Remembered
  BY <1>4 DEF Remembered
<1> QED
  BY <1>2, <1>5

\* Every step of HookEvents is a step of EventWindow, or changes nothing in it.
LEMMA NextWindow == StoreInv /\ StoreInv' /\ [Next]_vars => [Window!Next]_<<clock, Remembered>>
<1> SUFFICES ASSUME StoreInv, StoreInv', [Next]_vars PROVE [Window!Next]_<<clock, Remembered>>
  OBVIOUS
<1>1. CASE Tick
  BY <1>1, TickWindow DEF StoreInv, Window!Next
<1>2. ASSUME NEW h \in Handlers, Commit(h) PROVE [Window!Next]_<<clock, Remembered>>
  <2>1. event[h] \in Events
    BY DEF StoreInv, TypeOK
  <2> QED
    BY <1>2, <2>1, CommitWindow DEF Window!Next
<1>3. ASSUME NEW h \in Handlers, Reserve(h) \/ Release(h) PROVE UNCHANGED <<clock, Remembered>>
  BY <1>3, ReserveWindow
<1>4. CASE UNCHANGED <<clock, store>>
  BY <1>4 DEF Remembered
<1>5. ASSUME NEW h \in Handlers,
             \/ LockStore(h) \/ Duplicate(h) \/ CommitLost(h) \/ StoreFails(h) \/ Work(h)
             \/ LockPackets(h) \/ WriteJournal(h) \/ WritePacket(h) \/ RemoveJournal(h)
             \/ PacketFails(h) \/ Crash(h)
      PROVE  UNCHANGED <<clock, store>>
  BY <1>5 DEF LockStore, Duplicate, CommitLost, StoreFails, Work, LockPackets, WriteJournal,
    WritePacket, RemoveJournal, PacketFails, Crash, storeVars
<1>6. CASE UNCHANGED vars
  BY <1>4, <1>6 DEF vars, storeVars
<1> QED
  BY <1>1, <1>2, <1>3, <1>4, <1>5, <1>6 DEF Next, Step

-----------------------------------------------------------------------------
(* What follows *)

\* Files, locks and locals of the hook router keep their types, for any number of handlers,
\* events and texts (handle_event, IdempotencyStore, _write_context_packets).
THEOREM TypeCorrect == Spec => []TypeOK
<1>1. StoreInv => TypeOK
  BY DEF StoreInv
<1> QED
  BY <1>1, StoreCorrect, PTL

\* Two handlers work on one event only when one has outlived its reservation
\* (IdempotencyStore.reserve, _live_entries).
THEOREM HandlersAreAlone == Spec => []HandledAlone
<1>1. StoreInv => HandledAlone
  <2> SUFFICES ASSUME StoreInv, NEW g \in Handlers, NEW h \in Handlers, g # h, Handling(g),
                      Handling(h), event[g] = event[h],
                      clock < since[g] + RESERVATION, clock < since[h] + RESERVATION
               PROVE  FALSE
    BY HookAssumption DEF HandledAlone, StoreInv, TypeOK
  <2>1. InFlight(g, since[g]) = InFlight(h, since[h])
    BY DEF StoreInv, ReservationKept
  <2> QED
    BY <2>1 DEF InFlight
<1> QED
  BY <1>1, StoreCorrect, PTL

\* No error leaves a reservation behind that blocks its event: a reservation that counts
\* belongs to a running handler or to a dead one (handle_event and its release).
THEOREM ReservationsAreReleased == Spec => []ReservationReleased
<1>1. StoreInv => ReservationReleased
  BY DEF StoreInv
<1> QED
  BY <1>1, StoreCorrect, PTL

\* The two context packets have the same text, or a journal that makes them so, through
\* errors before and after an operation took effect and deaths anywhere
\* (_write_context_packets).
THEOREM PacketsAreAlike == Spec => []PacketsAgree
<1>1. PacketsInv => PacketsAgree
  BY DEF PacketsInv
<1> QED
  BY <1>1, InitPacketsInv, NextPacketsInv, StoreCorrect, PTL DEF Spec

\* The idempotency store keeps the promise of EventWindow: an event completes once in a
\* window, and is not forgotten before the window is over (IdempotencyStore).
THEOREM ImplementsWindow == Spec => CompletedOnce
BY InitWindow, NextWindow, StoreCorrect, PTL DEF Spec, CompletedOnce, Window!Spec
=============================================================================
