---------------------------- MODULE MemoryReview ----------------------------
(***************************************************************************)
(* The memory review core: src/scripts/memory_review_queue.py, with the    *)
(* three writers outside that module which touch the same files:           *)
(*   - the queue worker of a hook event   (vibe_memory_router.py),         *)
(*   - the console's editor of active memory (memory_review_server.py),    *)
(*   - the retention pass over short memory  (vibe_memory_settings.py).    *)
(*                                                                         *)
(* A process is one call in progress: a console request thread, a CLI      *)
(* command, an agent submitting a candidate or a hook.  Files are shared.  *)
(* A read or a write of one file is one step, since files are replaced     *)
(* atomically (the editor truncates and rewrites: one step here as well),  *)
(* and calls interleave between those steps.                               *)
(*                                                                         *)
(* Two kinds of lock protect the files.  The queue lock is a flock: it     *)
(* disappears with its holder.  The other three are O_EXCL lock files      *)
(* (ui_design_store.exclusive_lock): nobody removes the file of a dead     *)
(* holder, so a crash leaves the lock Stale for good and later calls time  *)
(* out on it.                                                              *)
(***************************************************************************)
EXTENDS Naturals

CONSTANTS
  Procs,              \* slots in which calls run
  Projects,           \* registered project roots; also names its PROJECT_LONG
  PERSONAL_LONG,      \* the two global official documents
  PERSONAL_SHORT,
  PERSONAL_PROPOSALS, \* the global proposals document
  Cands,              \* candidates: one id per proposals document and equivalence
  Store,              \* Store[c]: the proposals document candidate c belongs to
  Suggested,          \* Suggested[c]: the official document its target names
  Body,               \* Body[c]: the memory text the candidate proposes
  Contents,           \* memory texts, equal exactly when their digests are
  Sensitive,          \* contents in which risk_flags finds something
  Proposed,           \* candidates already proposed at the start
  Noise,              \* candidates that match is_noise_personal_candidate
  Discardable,        \* contents a user deletes or retention expires
  Agents,             \* source agents (codex, claude-code, unknown)
  Calls,              \* the calls that are made (a subset of CallType)
  FreshProjects,      \* projects whose memory_review_state.json does not exist yet
  NONE, Free, Stale, QUARANTINE,
  MaxCopies,          \* bound: copies of one content in one official document
  MaxCrashes,         \* bound: crashes of a call
  MaxWriteFailures    \* bound: failed writes of the state file

Docs   == Projects \cup {PERSONAL_LONG, PERSONAL_SHORT}
Stores == Projects \cup {PERSONAL_PROPOSALS}

Kinds == {"propose", "approve", "reject", "defer", "reset", "remind",
          "noise", "refresh", "edit", "prune", "hook"}

CallType == [kind : Kinds, proj : Projects, cand : Cands \cup {NONE},
             doc : Docs \cup {NONE}, content : Contents \cup {NONE},
             agent : Agents \cup {NONE}]

ASSUME ConstantsAssumption ==
  /\ Store \in [Cands -> Stores]
  /\ Suggested \in [Cands -> Docs]
  /\ Body \in [Cands -> Contents]
  /\ Sensitive \subseteq Contents
  /\ Noise \subseteq Cands /\ Proposed \subseteq Cands
  /\ Discardable \subseteq Contents
  /\ FreshProjects \subseteq Projects
  /\ MaxCopies \in Nat /\ MaxCrashes \in Nat /\ MaxWriteFailures \in Nat

ASSUME NamesAssumption ==
  /\ Free \notin Procs /\ Stale \notin Procs /\ Free # Stale
  /\ PERSONAL_LONG \notin Projects /\ PERSONAL_SHORT \notin Projects
  /\ PERSONAL_PROPOSALS \notin Projects
  /\ PERSONAL_LONG # PERSONAL_SHORT
  /\ NONE \notin Docs \cup Cands \cup Contents \cup {QUARANTINE}
  /\ QUARANTINE \notin Docs

\* What a caller must supply: a candidate where one is decided, a document
\* and a text where one is approved, edited or pruned.
ASSUME CallsAssumption ==
  /\ Calls \subseteq CallType
  /\ \A k \in Calls :
       /\ k.kind \in {"propose", "approve", "reject", "defer", "reset"} => k.cand \in Cands
       /\ k.kind = "approve" => k.doc \in Docs /\ k.content \in Contents
       /\ k.kind = "edit" => k.doc \in Docs /\ k.content \in Discardable
       /\ k.kind = "propose" => /\ k.agent \in Agents
                               /\ Store[k.cand] \in {k.proj, PERSONAL_PROPOSALS}

-----------------------------------------------------------------------------
\* Decisions, as the items of memory_review_state.json record them (decided_at
\* and the provenance copied from the candidate are left out).

Undecided      == [status |-> "pending",  path |-> NONE, content |-> NONE]
Rejected       == [status |-> "rejected", path |-> NONE, content |-> NONE]
Deferred       == [status |-> "deferred", path |-> NONE, content |-> NONE]
Quarantined    == [status |-> "rejected", path |-> QUARANTINE, content |-> NONE]
Approved(d, x) == [status |-> "approved", path |-> d, content |-> x]

Decisions == {Undecided, Rejected, Deferred, Quarantined}
             \cup [status : {"approved"}, path : Docs, content : Contents]

NoDecisions == [c \in Cands |-> Undecided]
EmptyQueue  == [c \in Cands |-> "absent"]
EmptyText   == [x \in Contents |-> 0]
EmptyDraft  == [c \in Cands |-> {}]
Statuses    == {"absent", "pending", "approved", "rejected", "deferred"}

VARIABLES
  proposals,      \* proposals[c]: agents recorded as sources of c; {} = not proposed
  decisions,      \* decisions[j][c]: the state file of project j
  stateFile,      \* stateFile[j]: the state file of project j exists
  official,       \* official[d][x]: copies of content x in official document d
  queue,          \* queue[j]: memory_review_queue.json of project j
  queueLock, stateLock, targetLock, proposalLock, \* holder of each lock
  pc, job,        \* where each process is, and the call it executes
  stage,          \* "look" before, "settle" after the change, "last" in the last build
                  \* of an approval, "failed" on an error
  rest,           \* noise candidates still to be rejected
  view,           \* the queue being built
  state,          \* the state file as the call read it
  text,           \* the official document as the call read it
  draft,          \* the proposals document the call is about to write
  crashes, failures, aborted,
  left            \* (history) <<d, x>>: text x stayed in document d after its decision
                  \* was taken back, or when its approval was cut off before it decided

documents == <<proposals, decisions, stateFile, official, queue>>
locks     == <<queueLock, stateLock, targetLock, proposalLock>>
locals    == <<job, stage, rest, view, state, text, draft>>
faults    == <<crashes, failures, aborted, left>>
vars      == <<documents, locks, pc, locals, faults>>
-----------------------------------------------------------------------------
\* Helpers

Visible(c, j) == Store[c] \in {j, PERSONAL_PROPOSALS}

\* parse_project_candidates and parse_personal_candidates: what is proposed.
Items(j) == [c \in Cands |-> IF Visible(c, j) /\ proposals[c] # {}
                               THEN "pending" ELSE "absent"]

\* _build_queue_from_items: each item takes the status its decision records.
WithStatus(items, ds) ==
  [c \in Cands |-> IF items[c] = "absent" THEN "absent" ELSE ds[c].status]

\* Two slips: the text is never recognised, or whatever the document holds.
NeverRecognised(d, x, t)  == FALSE
AlwaysRecognised(d, x, t) == d # PERSONAL_SHORT

\* official_contains_content_digest and approved_contains_equivalent both look
\* for the body between a blank line and the end of its section.  The envelope
\* that append_official_memory writes into short memory has neither, so what
\* was approved into PERSONAL_SHORT is never recognised again.
Recognised(d, x, t) == d # PERSONAL_SHORT /\ t[x] > 0

\* validate_approval_target and decision_target_path.
ValidTarget(c, j, d) ==
  IF Store[c] = PERSONAL_PROPOSALS THEN d \in {PERSONAL_LONG, PERSONAL_SHORT}
                                   ELSE d = j

\* update_active_memory (edit: one section deleted or replaced by text of the
\* user's) and prune_personal_short (what expired goes; a write happens also
\* when sections are only stamped with an expiry).  Neither takes a lock.
Edited(k) ==
  IF k.kind = "edit"
    THEN [official[k.doc] EXCEPT ![k.content] = IF @ = 0 THEN 0 ELSE @ - 1]
    ELSE [x \in Contents |-> IF x \in Discardable THEN 0 ELSE official[PERSONAL_SHORT][x]]

EditedDoc(k) == IF k.kind = "edit" THEN k.doc ELSE PERSONAL_SHORT

\* No call is running, nothing is decided, the queue shows what is proposed.
Init ==
  /\ proposals = [c \in Cands |-> IF c \in Proposed THEN Agents ELSE {}]
  /\ decisions = [j \in Projects |-> NoDecisions]
  /\ stateFile = [j \in Projects |-> j \notin FreshProjects]
  /\ official = [d \in Docs |-> EmptyText]
  /\ queue = [j \in Projects |-> Items(j)]
  /\ queueLock = [j \in Projects |-> Free]
  /\ stateLock = [j \in Projects |-> Free]
  /\ targetLock = [d \in Docs |-> Free]
  /\ proposalLock = [s \in Stores |-> Free]
  /\ pc = [p \in Procs |-> "idle"]
  /\ job = [p \in Procs |-> NONE]
  /\ stage = [p \in Procs |-> "settle"]
  /\ rest = [p \in Procs |-> {}]
  /\ view = [p \in Procs |-> EmptyQueue]
  /\ state = [p \in Procs |-> NoDecisions]
  /\ text = [p \in Procs |-> EmptyText]
  /\ draft = [p \in Procs |-> EmptyDraft]
  /\ crashes = 0 /\ failures = 0 /\ aborted = FALSE /\ left = {}

-----------------------------------------------------------------------------
\* Starting and ending a call

Goto(p, label) == pc' = [pc EXCEPT ![p] = label]

\* The call is over: its local variables go.
Return(p) ==
  /\ Goto(p, "idle")
  /\ job' = [job EXCEPT ![p] = NONE]
  /\ stage' = [stage EXCEPT ![p] = "settle"]
  /\ rest' = [rest EXCEPT ![p] = {}]
  /\ view' = [view EXCEPT ![p] = EmptyQueue]
  /\ state' = [state EXCEPT ![p] = NoDecisions]
  /\ text' = [text EXCEPT ![p] = EmptyText]
  /\ draft' = [draft EXCEPT ![p] = EmptyDraft]

FirstLabel(kind) ==
  CASE kind = "propose" -> "propose"
    [] kind \in {"approve", "noise", "refresh"} -> "build"
    [] kind \in {"reject", "defer", "reset", "remind"} -> "mutate"
    [] kind \in {"edit", "prune"} -> "edit"
    [] kind = "hook" -> "hook"

\* create_agent_candidate raises on sensitive text before it touches a file.
Start(p) ==
  /\ pc[p] = "idle"
  /\ \E k \in Calls :
       /\ k.kind = "propose" => Body[k.cand] \notin Sensitive
       /\ job' = [job EXCEPT ![p] = k]
       /\ stage' = [stage EXCEPT ![p] = IF k.kind \in {"approve", "noise"}
                                           THEN "look" ELSE "settle"]
       /\ Goto(p, FirstLabel(k.kind))
  /\ UNCHANGED <<documents, locks, rest, view, state, text, draft, faults>>

-----------------------------------------------------------------------------
\* build_queue: under the queue lock, read the proposals, read the state under
\* its own lock (state_map), write the queue.

\* A slip: the queue is built without waiting for its lock.
BuildUnlocked(p) ==
  /\ pc[p] = "build"
  /\ queueLock' = [queueLock EXCEPT ![job[p].proj] = p]
  /\ view' = [view EXCEPT ![p] = Items(job[p].proj)]
  /\ Goto(p, "read_state")
  /\ UNCHANGED <<documents, stateLock, targetLock, proposalLock,
                 job, stage, rest, state, text, draft, faults>>

BuildLock(p) ==
  /\ pc[p] = "build" /\ queueLock[job[p].proj] = Free
  /\ queueLock' = [queueLock EXCEPT ![job[p].proj] = p]
  /\ view' = [view EXCEPT ![p] = Items(job[p].proj)]
  /\ Goto(p, "read_state")
  /\ UNCHANGED <<documents, stateLock, targetLock, proposalLock,
                 job, stage, rest, state, text, draft, faults>>

\* state_map creates a missing state file.
BuildReadState(p) ==
  LET j == job[p].proj IN
  /\ pc[p] = "read_state" /\ stateLock[j] = Free
  /\ stateLock' = [stateLock EXCEPT ![j] = p]
  /\ stateFile' = [stateFile EXCEPT ![j] = TRUE]
  /\ view' = [view EXCEPT ![p] = WithStatus(view[p], decisions[j])]
  /\ Goto(p, "unlock_read")
  /\ UNCHANGED <<proposals, decisions, official, queue,
                 queueLock, targetLock, proposalLock,
                 job, stage, rest, state, text, draft, faults>>

BuildUnlockState(p) ==
  /\ pc[p] = "unlock_read"
  /\ stateLock' = [stateLock EXCEPT ![job[p].proj] = Free]
  /\ Goto(p, "publish")
  /\ UNCHANGED <<documents, queueLock, targetLock, proposalLock, locals, faults>>

\* Write the queue file and let go of the queue lock.
Publish(p) ==
  /\ pc[p] = "publish"
  /\ queue' = [queue EXCEPT ![job[p].proj] = view[p]]
  /\ queueLock' = [queueLock EXCEPT ![job[p].proj] = Free]
  /\ UNCHANGED <<proposals, decisions, stateFile, official,
                 stateLock, targetLock, proposalLock, faults>>

\* The noise candidates reject_noise_personal_candidates has still to reject:
\* the pending ones of the first queue, then what is left of those.
NoiseLeft(p) ==
  IF stage[p] = "look"
    THEN {c \in Noise : Store[c] = PERSONAL_PROPOSALS /\ view[p][c] = "pending"}
    ELSE rest[p]

\* approve goes on when find_item finds the candidate, the target is of the
\* candidate's scope and the text is not sensitive; otherwise it raises.
Admitted(p) ==
  LET k == job[p] IN
  /\ view[p][k.cand] # "absent"
  /\ ValidTarget(k.cand, k.proj, k.doc)
  /\ k.content \notin Sensitive

\* The last build of a call; an approval refused; no noise left.
BuildThenReturn(p) ==
  /\ Publish(p)
  /\ job[p].kind = "approve" => stage[p] = "last" \/ (stage[p] = "look" /\ ~Admitted(p))
  /\ job[p].kind = "noise" => NoiseLeft(p) = {}
  /\ Return(p)

\* approve builds three times: in the find_item with which it begins, after its
\* decision, and in the find_item it returns.
BuildThenApprove(p) ==
  /\ Publish(p)
  /\ job[p].kind = "approve"
  /\ \/ /\ stage[p] = "look" /\ Admitted(p)
        /\ stage' = [stage EXCEPT ![p] = "settle"]
        /\ Goto(p, "approve")
     \/ /\ stage[p] = "settle"
        /\ stage' = [stage EXCEPT ![p] = "last"]
        /\ Goto(p, "build")
  /\ view' = [view EXCEPT ![p] = EmptyQueue]
  /\ UNCHANGED <<job, rest, state, text, draft>>

\* Each noise candidate is a record_decision of its own.
BuildThenNoise(p) ==
  /\ Publish(p)
  /\ job[p].kind = "noise"
  /\ \E c \in NoiseLeft(p) :
       /\ job' = [job EXCEPT ![p].cand = c]
       /\ rest' = [rest EXCEPT ![p] = NoiseLeft(p) \ {c}]
  /\ stage' = [stage EXCEPT ![p] = "settle"]
  /\ view' = [view EXCEPT ![p] = EmptyQueue]
  /\ Goto(p, "mutate")
  /\ UNCHANGED <<state, text, draft>>

-----------------------------------------------------------------------------
\* create_agent_candidate, under the lock of the proposals document.

\* A slip: the new agent replaces the ones recorded before.
MergedAgentReplaced(k) == [c \in Cands |-> IF c = k.cand THEN {k.agent} ELSE proposals[c]]

\* What the document becomes: the agent merged into an equivalent candidate,
\* nothing if the official memory already holds the text, else a new section.
Merged(k) ==
  [c \in Cands |->
     IF c # k.cand THEN proposals[c]
     ELSE IF proposals[c] # {} THEN proposals[c] \cup {k.agent}
     ELSE IF Recognised(Suggested[c], Body[c], official[Suggested[c]]) THEN {}
     ELSE {k.agent}]

ProposeLock(p) ==
  LET s == Store[job[p].cand] IN
  /\ pc[p] = "propose" /\ proposalLock[s] = Free
  /\ proposalLock' = [proposalLock EXCEPT ![s] = p]
  /\ draft' = [draft EXCEPT ![p] = Merged(job[p])]
  /\ Goto(p, "proposing")
  /\ UNCHANGED <<documents, queueLock, stateLock, targetLock,
                 job, stage, rest, view, state, text, faults>>

\* The whole document is replaced.
ProposeWrite(p) ==
  /\ pc[p] = "proposing"
  /\ proposals' = [c \in Cands |-> IF Store[c] = Store[job[p].cand]
                                     THEN draft[p][c] ELSE proposals[c]]
  /\ draft' = [draft EXCEPT ![p] = EmptyDraft]
  /\ Goto(p, "proposed")
  /\ UNCHANGED <<decisions, stateFile, official, queue, locks,
                 job, stage, rest, view, state, text, faults>>

ProposeUnlock(p) ==
  /\ pc[p] = "proposed"
  /\ proposalLock' = [proposalLock EXCEPT ![Store[job[p].cand]] = Free]
  /\ Goto(p, "build")
  /\ UNCHANGED <<documents, queueLock, stateLock, targetLock, locals, faults>>

-----------------------------------------------------------------------------
\* approve: state lock, then target lock.

ApproveLockState(p) ==
  LET j == job[p].proj IN
  /\ pc[p] = "approve"
  /\ stateLock[j] = Free
  /\ stateLock' = [stateLock EXCEPT ![j] = p]
  /\ Goto(p, "approve_target")
  /\ UNCHANGED <<documents, queueLock, targetLock, proposalLock, locals, faults>>

\* Take the target lock and read the state.  An existing decision ends the call:
\* an exact retry succeeds, anything else is a decision conflict.
ApproveLockTarget(p) ==
  LET k == job[p]
      found == decisions[k.proj][k.cand]
  IN
  /\ pc[p] = "approve_target" /\ targetLock[k.doc] = Free
  /\ targetLock' = [targetLock EXCEPT ![k.doc] = p]
  /\ stateFile' = [stateFile EXCEPT ![k.proj] = TRUE]
  /\ IF found = Undecided
       THEN /\ state' = [state EXCEPT ![p] = decisions[k.proj]]
            /\ text' = [text EXCEPT ![p] = official[k.doc]]
            /\ Goto(p, "append")
            /\ UNCHANGED stage
       ELSE /\ stage' = [stage EXCEPT ![p] = IF found = Approved(k.doc, k.content)
                                               THEN "settle" ELSE "failed"]
            /\ Goto(p, "unlock_target")
            /\ UNCHANGED <<state, text>>
  /\ UNCHANGED <<proposals, decisions, official, queue,
                 queueLock, stateLock, proposalLock, job, rest, view, draft, faults>>

\* append_official_memory, which reads the document again, unless the text read
\* under the lock already holds the content.  Under the target lock only the
\* console's editor or the retention pass can come between the two reads.
ApproveAppend(p) ==
  LET k == job[p] IN
  /\ pc[p] = "append"
  /\ IF Recognised(k.doc, k.content, text[p])
       THEN UNCHANGED official
       ELSE /\ official[k.doc][k.content] < MaxCopies
            /\ official' = [official EXCEPT ![k.doc][k.content] = @ + 1]
  /\ Goto(p, "record")
  /\ UNCHANGED <<proposals, decisions, stateFile, queue, locks, locals, faults>>

ApproveRecord(p) ==
  LET k == job[p] IN
  /\ pc[p] = "record"
  /\ decisions' = [decisions EXCEPT ![k.proj] =
                     [state[p] EXCEPT ![k.cand] = Approved(k.doc, k.content)]]
  /\ stateFile' = [stateFile EXCEPT ![k.proj] = TRUE]
  /\ Goto(p, "unlock_target")
  /\ UNCHANGED <<proposals, official, queue, locks, locals, faults>>

\* An editor has read the text before it was taken back, and will write it again.
Held(d, x) ==
  \E q \in Procs : pc[q] = "editing" /\ EditedDoc(job[q]) = d /\ text[q][x] > 0

\* A slip: the text stays although its decision could not be written.
ApproveKeepsText(p) ==
  /\ pc[p] \in {"append", "record"}
  /\ failures < MaxWriteFailures
  /\ failures' = failures + 1
  /\ stage' = [stage EXCEPT ![p] = "failed"]
  /\ Goto(p, "unlock_target")
  /\ UNCHANGED <<documents, locks, job, rest, view, state, text, draft, crashes, aborted, left>>

\* A file could not be written.  If it is the state file, the document is put
\* back as it was read, unless that fails as well.
ApproveWriteFails(p) ==
  LET k == job[p]
      appends == ~Recognised(k.doc, k.content, text[p])
  IN
  /\ pc[p] = "record" \/ (pc[p] = "append" /\ appends)
  /\ failures < MaxWriteFailures
  /\ failures' = failures + 1
  /\ IF pc[p] = "record" /\ appends
       THEN \/ /\ official' = [official EXCEPT ![k.doc] = text[p]]
               /\ left' = left \cup IF Held(k.doc, k.content) THEN {<<k.doc, k.content>>} ELSE {}
            \/ /\ UNCHANGED official
               /\ left' = left \cup {<<k.doc, k.content>>}
       ELSE UNCHANGED <<official, left>>
  /\ stage' = [stage EXCEPT ![p] = "failed"]
  /\ Goto(p, "unlock_target")
  /\ UNCHANGED <<proposals, decisions, stateFile, queue, locks,
                 job, rest, view, state, text, draft, crashes, aborted>>

ApproveUnlockTarget(p) ==
  /\ pc[p] = "unlock_target"
  /\ targetLock' = [targetLock EXCEPT ![job[p].doc] = Free]
  /\ Goto(p, "unlock_state")
  /\ UNCHANGED <<documents, queueLock, stateLock, proposalLock, locals, faults>>

-----------------------------------------------------------------------------
\* mutate_state, for reject, defer, reset, mark_reminded and each noise
\* candidate: read, change and write the state file under its lock.

\* A slip: the state is changed without waiting for its lock.
MutateUnlocked(p) ==
  LET j == job[p].proj IN
  /\ pc[p] = "mutate"
  /\ stateLock' = [stateLock EXCEPT ![j] = p]
  /\ stateFile' = [stateFile EXCEPT ![j] = TRUE]
  /\ state' = [state EXCEPT ![p] = decisions[j]]
  /\ Goto(p, "mutating")
  /\ UNCHANGED <<proposals, decisions, official, queue,
                 queueLock, targetLock, proposalLock,
                 job, stage, rest, view, text, draft, faults>>

MutateLock(p) ==
  LET j == job[p].proj IN
  /\ pc[p] = "mutate" /\ stateLock[j] = Free
  /\ stateLock' = [stateLock EXCEPT ![j] = p]
  /\ stateFile' = [stateFile EXCEPT ![j] = TRUE]
  /\ state' = [state EXCEPT ![p] = decisions[j]]
  /\ Goto(p, "mutating")
  /\ UNCHANGED <<proposals, decisions, official, queue,
                 queueLock, targetLock, proposalLock,
                 job, stage, rest, view, text, draft, faults>>

\* A slip: the verb is stored where the status is meant.
VerbAsVerdict(kind) == IF kind = "reset" THEN Undecided
                       ELSE [status |-> kind, path |-> NONE, content |-> NONE]

\* What the call decides.
Verdict(kind) == CASE kind = "reject" -> Rejected
                   [] kind = "defer"  -> Deferred
                   [] kind = "noise"  -> Quarantined
                   [] OTHER           -> Undecided

\* record_decision raises on a different decision; reset pops whatever is there.
Conflicts(p) ==
  /\ job[p].kind \in {"reject", "defer", "noise"}
  /\ state[p][job[p].cand] \notin {Undecided, Verdict(job[p].kind)}

\* A decision that is there already, or a reset of none, writes nothing; a
\* reminder always stores its time.
Changes(p) == job[p].kind # "remind" => state[p][job[p].cand] # Verdict(job[p].kind)

\* Where a decision has placed its text.
Placed(r) == IF r.status = "approved" THEN {<<r.path, r.content>>} ELSE {}

MutateWrite(p) ==
  LET k == job[p] IN
  /\ pc[p] = "mutating" /\ ~Conflicts(p)
  /\ IF Changes(p)
       THEN /\ decisions' = [decisions EXCEPT ![k.proj] =
                               IF k.kind = "remind" THEN state[p]
                               ELSE [state[p] EXCEPT ![k.cand] = Verdict(k.kind)]]
            /\ stateFile' = [stateFile EXCEPT ![k.proj] = TRUE]
            /\ left' = left \cup IF k.kind = "reset" THEN Placed(state[p][k.cand]) ELSE {}
       ELSE UNCHANGED <<decisions, stateFile, left>>
  /\ Goto(p, "unlock_state")
  /\ UNCHANGED <<proposals, official, queue, locks, job, stage, rest, view, state, text, draft,
                 crashes, failures, aborted>>

\* A decision conflict, or a state file that cannot be written.
MutateFails(p) ==
  /\ pc[p] = "mutating"
  /\ \/ Conflicts(p) /\ UNCHANGED failures
     \/ /\ ~Conflicts(p) /\ Changes(p)
        /\ failures < MaxWriteFailures /\ failures' = failures + 1
  /\ stage' = [stage EXCEPT ![p] = "failed"]
  /\ Goto(p, "unlock_state")
  /\ UNCHANGED <<documents, locks, job, rest, view, state, text, draft,
                 crashes, aborted, left>>

\* Leaving the state lock.  An error propagates, a reminder builds nothing,
\* every other call rebuilds the queue.
UnlockStateThenReturn(p) ==
  /\ pc[p] = "unlock_state"
  /\ stage[p] = "failed" \/ job[p].kind = "remind"
  /\ stateLock' = [stateLock EXCEPT ![job[p].proj] = Free]
  /\ Return(p)
  /\ UNCHANGED <<documents, queueLock, targetLock, proposalLock, faults>>

\* A slip: the queue is rebuilt inside the state lock.
BuildInsideStateLock(p) ==
  /\ pc[p] = "unlock_state"
  /\ stage[p] # "failed" /\ job[p].kind # "remind"
  /\ state' = [state EXCEPT ![p] = NoDecisions]
  /\ text' = [text EXCEPT ![p] = EmptyText]
  /\ Goto(p, "build")
  /\ UNCHANGED <<documents, locks, job, stage, rest, view, draft, faults>>

UnlockStateThenBuild(p) ==
  /\ pc[p] = "unlock_state"
  /\ stage[p] # "failed" /\ job[p].kind # "remind"
  /\ stateLock' = [stateLock EXCEPT ![job[p].proj] = Free]
  /\ state' = [state EXCEPT ![p] = NoDecisions]
  /\ text' = [text EXCEPT ![p] = EmptyText]
  /\ Goto(p, "build")
  /\ UNCHANGED <<documents, queueLock, targetLock, proposalLock,
                 job, stage, rest, view, draft, faults>>

-----------------------------------------------------------------------------
\* The writers outside memory_review_queue.py.

EditRead(p) ==
  LET k == job[p] IN
  /\ pc[p] = "edit"
  /\ \/ /\ k.kind = "edit" => official[k.doc][k.content] > 0
        /\ text' = [text EXCEPT ![p] = Edited(k)]
        /\ Goto(p, "editing")
        /\ UNCHANGED <<job, stage, rest, view, state, draft>>
     \/ /\ Edited(k) = official[EditedDoc(k)]  \* no such section, nothing expired
        /\ Return(p)
  /\ UNCHANGED <<documents, locks, faults>>

EditWrite(p) ==
  /\ pc[p] = "editing"
  /\ official' = [official EXCEPT ![EditedDoc(job[p])] = text[p]]
  /\ Return(p)
  /\ UNCHANGED <<proposals, decisions, stateFile, queue, locks, faults>>

\* _refresh_review_queue_on_fd, in the child process of a hook event.  The
\* personal proposals are read before the queue lock is held.
HookReadPersonal(p) ==
  /\ pc[p] = "hook"
  /\ view' = [view EXCEPT ![p] =
                [c \in Cands |-> IF Store[c] = PERSONAL_PROPOSALS /\ proposals[c] # {}
                                   THEN "pending" ELSE "absent"]]
  /\ Goto(p, "hook_lock")
  /\ UNCHANGED <<documents, locks, job, stage, rest, state, text, draft, faults>>

\* Project proposals and state are read under the queue lock, without the
\* state lock.
HookLock(p) ==
  LET j == job[p].proj
      items == [c \in Cands |-> IF Store[c] = j THEN Items(j)[c] ELSE view[p][c]]
  IN
  /\ pc[p] = "hook_lock" /\ queueLock[j] = Free
  /\ queueLock' = [queueLock EXCEPT ![j] = p]
  /\ view' = [view EXCEPT ![p] = WithStatus(items, decisions[j])]
  /\ Goto(p, IF stateFile[j] THEN "hook_publish" ELSE "hook_default")
  /\ UNCHANGED <<documents, stateLock, targetLock, proposalLock,
                 job, stage, rest, state, text, draft, faults>>

\* The state file was missing when it was read: write an empty one.
HookDefault(p) ==
  /\ pc[p] = "hook_default"
  /\ decisions' = [decisions EXCEPT ![job[p].proj] = NoDecisions]
  /\ stateFile' = [stateFile EXCEPT ![job[p].proj] = TRUE]
  /\ left' = left \cup UNION {Placed(decisions[job[p].proj][c]) : c \in Cands}
  /\ Goto(p, "hook_publish")
  /\ UNCHANGED <<proposals, official, queue, locks, locals, crashes, failures, aborted>>

HookPublish(p) ==
  /\ pc[p] = "hook_publish"
  /\ queue' = [queue EXCEPT ![job[p].proj] = view[p]]
  /\ queueLock' = [queueLock EXCEPT ![job[p].proj] = Free]
  /\ Return(p)
  /\ UNCHANGED <<proposals, decisions, stateFile, official,
                 stateLock, targetLock, proposalLock, faults>>

\* The parent kills the child at the hard timeout; its flock goes with it.
HookKilled(p) ==
  /\ pc[p] \in {"hook", "hook_lock", "hook_default", "hook_publish"}
  /\ queueLock' = [j \in Projects |-> IF queueLock[j] = p THEN Free ELSE queueLock[j]]
  /\ Return(p)
  /\ UNCHANGED <<documents, stateLock, targetLock, proposalLock, faults>>

-----------------------------------------------------------------------------
\* Timeouts and crashes.

\* A slip: waiting for a lock file never ends.
WaitsForQueue(p) ==
  IF pc[p] \in {"build", "hook_lock"} THEN queueLock[job[p].proj] ELSE Free

\* The holder of the lock p waits for; Free when p does not wait.
WaitsFor(p) ==
  CASE pc[p] \in {"build", "hook_lock"} -> queueLock[job[p].proj]
    [] pc[p] \in {"read_state", "approve", "mutate"} -> stateLock[job[p].proj]
    [] pc[p] = "approve_target" -> targetLock[job[p].doc]
    [] pc[p] = "propose" -> proposalLock[Store[job[p].cand]]
    [] OTHER -> Free

\* A slip: an exception does not release the lock.
KeepsLock(lock, p) == lock

Without(lock, p) == [x \in DOMAIN lock |-> IF lock[x] = p THEN Free ELSE lock[x]]

\* LockTimeout or TimeoutError: the exception leaves the enclosing with
\* statements, which release the locks the call holds.
Timeout(p) ==
  /\ WaitsFor(p) # Free
  /\ queueLock' = Without(queueLock, p)
  /\ stateLock' = Without(stateLock, p)
  /\ Return(p)
  /\ aborted' = TRUE
  /\ UNCHANGED <<documents, targetLock, proposalLock, crashes, failures, left>>

Abandoned(lock, p) == [x \in DOMAIN lock |-> IF lock[x] = p THEN Stale ELSE lock[x]]

\* The process dies: the flock is released, lock files stay behind, and so does
\* what an approval has appended and not yet recorded.
Crash(p) ==
  /\ pc[p] # "idle" /\ crashes < MaxCrashes
  /\ crashes' = crashes + 1
  /\ queueLock' = Without(queueLock, p)
  /\ stateLock' = Abandoned(stateLock, p)
  /\ targetLock' = Abandoned(targetLock, p)
  /\ proposalLock' = Abandoned(proposalLock, p)
  /\ Return(p)
  /\ aborted' = TRUE
  /\ left' = left \cup IF /\ pc[p] = "record"
                          /\ ~Recognised(job[p].doc, job[p].content, text[p])
                         THEN {<<job[p].doc, job[p].content>>} ELSE {}
  /\ UNCHANGED <<documents, failures>>

-----------------------------------------------------------------------------

Build(p)   == \/ BuildLock(p) \/ BuildReadState(p) \/ BuildUnlockState(p)
              \/ BuildThenReturn(p) \/ BuildThenApprove(p) \/ BuildThenNoise(p)
Propose(p) == ProposeLock(p) \/ ProposeWrite(p) \/ ProposeUnlock(p)
Approve(p) == \/ ApproveLockState(p) \/ ApproveLockTarget(p) \/ ApproveAppend(p)
              \/ ApproveRecord(p) \/ ApproveWriteFails(p) \/ ApproveUnlockTarget(p)
Mutate(p)  == \/ MutateLock(p) \/ MutateWrite(p) \/ MutateFails(p)
              \/ UnlockStateThenReturn(p) \/ UnlockStateThenBuild(p)
Edit(p)    == EditRead(p) \/ EditWrite(p)
Hook(p)    == \/ HookReadPersonal(p) \/ HookLock(p) \/ HookDefault(p)
              \/ HookPublish(p) \/ HookKilled(p)

\* What a running call does next.
Step(p) == \/ Build(p) \/ Propose(p) \/ Approve(p)
           \/ Mutate(p) \/ Edit(p) \/ Hook(p) \/ Timeout(p)

Next == \E p \in Procs : Start(p) \/ Step(p) \/ Crash(p)

Spec == Init /\ [][Next]_vars

\* Every running call keeps running: lock waits are bounded by their timeout.
FairSpec == Spec /\ \A p \in Procs : WF_vars(Step(p))

-----------------------------------------------------------------------------
(* Properties *)

Labels == {"idle", "build", "read_state", "unlock_read", "publish",
           "propose", "proposing", "proposed",
           "approve", "approve_target", "append", "record", "unlock_target",
           "mutate", "mutating", "unlock_state", "edit", "editing",
           "hook", "hook_lock", "hook_default", "hook_publish"}

FileTypes ==
  /\ proposals \in [Cands -> SUBSET Agents]
  /\ decisions \in [Projects -> [Cands -> Decisions]]
  /\ stateFile \in [Projects -> BOOLEAN]
  /\ official \in [Docs -> [Contents -> 0 .. MaxCopies]]
  /\ queue \in [Projects -> [Cands -> Statuses]]

LockTypes ==
  /\ queueLock \in [Projects -> Procs \cup {Free}]
  /\ stateLock \in [Projects -> Procs \cup {Free, Stale}]
  /\ targetLock \in [Docs -> Procs \cup {Free, Stale}]
  /\ proposalLock \in [Stores -> Procs \cup {Free, Stale}]

LocalTypes ==
  /\ pc \in [Procs -> Labels]
  /\ job \in [Procs -> CallType \cup {NONE}]
  /\ stage \in [Procs -> {"look", "settle", "last", "failed"}]
  /\ rest \in [Procs -> SUBSET Cands]
  /\ view \in [Procs -> [Cands -> Statuses]]
  /\ state \in [Procs -> [Cands -> Decisions]]
  /\ text \in [Procs -> [Contents -> 0 .. MaxCopies]]
  /\ draft \in [Procs -> [Cands -> SUBSET Agents]]

FaultTypes ==
  /\ crashes \in 0 .. MaxCrashes
  /\ failures \in 0 .. MaxWriteFailures
  /\ aborted \in BOOLEAN
  /\ left \subseteq Docs \X Contents

\* The type invariant: every file, lock and local variable holds what the code
\* can put there, and a copy count never passes its bound.
TypeOK == FileTypes /\ LockTypes /\ LocalTypes /\ FaultTypes

\* The labels inside each lock.
InQueueLock(p)    == pc[p] \in {"read_state", "unlock_read", "publish",
                                "hook_default", "hook_publish"}
InTargetLock(p)   == pc[p] \in {"append", "record", "unlock_target"}
InStateLock(p)    == pc[p] \in {"unlock_read", "approve_target", "append", "record",
                                "unlock_target", "mutating", "unlock_state"}
InProposalLock(p) == pc[p] \in {"proposing", "proposed"}

QueueLockHeld ==
  \A p \in Procs, j \in Projects : queueLock[j] = p <=> InQueueLock(p) /\ job[p].proj = j
StateLockHeld ==
  \A p \in Procs, j \in Projects : stateLock[j] = p <=> InStateLock(p) /\ job[p].proj = j
TargetLockHeld ==
  \A p \in Procs, d \in Docs : targetLock[d] = p <=> InTargetLock(p) /\ job[p].doc = d
ProposalLockHeld ==
  \A p \in Procs, s \in Stores :
    proposalLock[s] = p <=> InProposalLock(p) /\ Store[job[p].cand] = s

\* The with statements of build_queue, mutate_state, approve, the queue worker
\* and create_agent_candidate hold exactly the locks their position says, also
\* after timeouts: no lock leaks and no two calls are inside one lock.
LocksMatchPosition ==
  QueueLockHeld /\ StateLockHeld /\ TargetLockHeld /\ ProposalLockHeld

\* No two calls wait for each other: the lock order queue, state, target is
\* kept, also between a build and an approval (comment at memory_review_queue.py:1005).
NoCircularWait ==
  \A p, q \in Procs : WaitsFor(p) = q => WaitsFor(q) # p

\* A recorded approval of kept content has its text in the document it names:
\* approve's append and its decision are not torn apart by conflicts, by the
\* roll-back of a failed write, by crashes or by approvals of other projects.
ApprovedIsOfficial ==
  \A j \in Projects, c \in Cands :
    LET r == decisions[j][c] IN
    r.status = "approved" /\ r.content \notin Discardable => official[r.path][r.content] > 0

\* One content has one section in one document, whatever retries, resets,
\* crashes and approvals of the same text from other candidates or projects do
\* ("reset/reapprove stays idempotent", memory_review_queue.py:943).
NoDuplicateOfficial ==
  \A d \in Docs, x \in Contents : official[d][x] <= 1

\* Only text somebody approved is official: every section of an official
\* document has a recorded approval, or an approval in progress that will
\* record it or take it back, also when the decision cannot be written.  What
\* the code leaves there without one is exactly this: the text of a decision
\* that was reset (or dropped by a hook), of an approval that died between the
\* two files, of one whose roll-back failed too, and what an editor had read
\* before a roll-back (left).
OfficialIsApproved ==
  \A d \in Docs, x \in Contents :
    official[d][x] > 0 =>
      \/ \E j \in Projects, c \in Cands : decisions[j][c] = Approved(d, x)
      \/ \E p \in Procs : pc[p] = "record" /\ job[p].doc = d /\ job[p].content = x
      \/ <<d, x>> \in left

\* A decision is final until it is reset: no step replaces a recorded decision
\* by another or drops it, except the write of a reset of that candidate.
KeepsDecisions ==
  \A j \in Projects, c \in Cands :
    \/ decisions[j][c] = Undecided
    \/ decisions'[j][c] = decisions[j][c]
    \/ /\ decisions'[j][c] = Undecided
       /\ \E p \in Procs : /\ pc[p] = "mutating" /\ job[p].kind = "reset"
                           /\ job[p].cand = c /\ job[p].proj = j

DecisionFinal == [][KeepsDecisions]_vars

\* A proposal, and the agents recorded as its sources, are never lost to a
\* concurrent submission into the same document.
ProposalsGrow == [][\A c \in Cands : proposals[c] \subseteq proposals'[c]]_vars

\* When nothing runs and no call was cut short, the queue file of a project
\* shows every candidate of the project with its decision.  A personal
\* candidate may be missing (it was proposed from another project, or read by
\* a hook before it was proposed), but is never shown with an old decision.
QueueSettled ==
  (\A p \in Procs : pc[p] = "idle") /\ ~aborted =>
    \A j \in Projects, c \in Cands :
      LET now == WithStatus(Items(j), decisions[j])[c] IN
      \/ queue[j][c] = now
      \/ Store[c] = PERSONAL_PROPOSALS /\ queue[j][c] = "absent"

\* Every call returns, whatever it has to wait for.
CallsReturn == \A p \in Procs : pc[p] # "idle" ~> pc[p] = "idle"

=============================================================================
