--------------------- MODULE MemoryReviewDocumentProofs ---------------------
(***************************************************************************)
(* Proofs about the official documents of MemoryReview: approvals stay and *)
(* no text is written twice when nobody edits them without a lock; and     *)
(* only approved text gets there, whoever edits.                           *)
(***************************************************************************)
EXTENDS MemoryReviewProofs

\* The console's editor and the retention pass do not run.
NoEditors == \A k \in Calls : k.kind \notin {"edit", "prune"}

\* The calls that hold what they read of the state, and of a document.
ReadState(p) == pc[p] \in {"mutating", "append", "record"}
ReadDoc(p)   == pc[p] \in {"append", "record"}

\* While an approval is inside the target lock, the document is what it read,
\* and then that with its own text appended.
TextCurrent ==
  \A p \in Procs :
    LET k == job[p] IN
    /\ pc[p] \notin {"edit", "editing"}
    /\ pc[p] = "append" => text[p] = official[k.doc]
    /\ pc[p] = "record" =>
         official[k.doc] = IF Recognised(k.doc, k.content, text[p]) THEN text[p]
                           ELSE [text[p] EXCEPT ![k.content] = @ + 1]

\* Text t of document d holds every approval that decisions ds place there.
HoldsApprovals(t, d, ds) ==
  \A c \in Cands : ds[c].status = "approved" /\ ds[c].path = d => t[ds[c].content] > 0

\* Not only the recorded decisions but also those a call is about to write back
\* are in their documents; and not only in the documents as they are but also
\* in the texts an approval may put back.
ApprovalsKept ==
  /\ \A d \in Docs : /\ \A j \in Projects : HoldsApprovals(official[d], d, decisions[j])
                     /\ \A q \in Procs : ReadState(q) => HoldsApprovals(official[d], d, state[q])
  /\ \A p \in Procs : ReadDoc(p) =>
       /\ \A j \in Projects : HoldsApprovals(text[p], job[p].doc, decisions[j])
       /\ \A q \in Procs : ReadState(q) => HoldsApprovals(text[p], job[p].doc, state[q])

DocumentInv == LockInv /\ TextCurrent /\ ApprovalsKept

\* No approval and no decision is under way at the start, and none is recorded.
LEMMA InitDocuments == Init => TextCurrent /\ ApprovalsKept
BY DEF Init, TextCurrent, ApprovalsKept, ReadState, ReadDoc, HoldsApprovals,
   NoDecisions, Undecided

\* A step of p that leaves decisions and documents alone, and leaves p neither
\* deciding nor editing, disturbs nothing.
LEMMA QuietStep ==
  ASSUME TextCurrent, ApprovalsKept, NEW p \in Procs,
         UNCHANGED <<decisions, official>>,
         \A q \in Procs \ {p} : /\ pc'[q] = pc[q] /\ job'[q] = job[q]
                                /\ state'[q] = state[q] /\ text'[q] = text[q],
         pc'[p] \notin {"append", "record", "mutating", "edit", "editing"}
  PROVE  TextCurrent' /\ ApprovalsKept'
BY DEF TextCurrent, ApprovalsKept, ReadState, ReadDoc

\* An approved decision names a document and a text.
LEMMA ApprovedTypes ==
  \A r \in Decisions : r.status = "approved" => r.path \in Docs /\ r.content \in Contents
BY DEF Decisions, Undecided, Rejected, Deferred, Quarantined

\* Two approvals are never inside the same target lock.
LEMMA OneApprovalPerDocument ==
  ASSUME LockInv, NEW p \in Procs, NEW q \in Procs, p # q,
         InTargetLock(p), InTargetLock(q)
  PROVE  job[p].doc \in Docs /\ job[q].doc \in Docs /\ job[p].doc # job[q].doc
<1> USE DEF LockInv, TypeInv, LocksMatchPosition
<1>1. job[p].doc \in Docs /\ job[q].doc \in Docs
  BY DEF InTargetLock, CallMatchesPosition, WellFormed
<1>2. targetLock[job[p].doc] = p /\ targetLock[job[q].doc] = q
  BY <1>1 DEF TargetLockHeld
<1>3. QED
  BY <1>1, <1>2

\* Every step keeps documents and approvals together.
LEMMA DocumentStep ==
  ASSUME NoEditors, DocumentInv, Next
  PROVE  TextCurrent' /\ ApprovalsKept'
<1> USE DEF DocumentInv, LockInv, TypeInv, TypeOK
<1>1. ASSUME NEW p \in Procs, Start(p) PROVE TextCurrent' /\ ApprovalsKept'
  <2>1. PICK k \in Calls : /\ job' = [job EXCEPT ![p] = k]
                           /\ Goto(p, FirstLabel(k.kind))
    BY <1>1 DEF Start
  <2>2. k.kind \in Kinds /\ k.kind \notin {"edit", "prune"}
    BY CallsWellFormed, CallTypes DEF WellFormed, NoEditors
  <2>3. FirstLabel(k.kind) \in {"propose", "build", "mutate", "hook"}
    BY <2>2 DEF FirstLabel, Kinds
  <2>4. pc'[p] \in {"propose", "build", "mutate", "hook"}
    BY <2>1, <2>3 DEF Goto, LocalTypes
  <2>5. \A q \in Procs \ {p} : /\ pc'[q] = pc[q] /\ job'[q] = job[q]
                               /\ state'[q] = state[q] /\ text'[q] = text[q]
    BY <1>1, <2>1 DEF Start, Goto, LocalTypes
  <2>6. QED
    BY <1>1, <2>4, <2>5, QuietStep DEF Start, documents
<1>2. ASSUME NEW p \in Procs, BuildLock(p) PROVE TextCurrent' /\ ApprovalsKept'
  BY <1>2, QuietStep
  DEF BuildLock, Goto, LocalTypes, documents, locals
<1>3. ASSUME NEW p \in Procs, BuildReadState(p) PROVE TextCurrent' /\ ApprovalsKept'
  BY <1>3, QuietStep
  DEF BuildReadState, Goto, LocalTypes, documents, locals
<1>4. ASSUME NEW p \in Procs, BuildUnlockState(p) PROVE TextCurrent' /\ ApprovalsKept'
  BY <1>4, QuietStep
  DEF BuildUnlockState, Goto, LocalTypes, documents, locals
<1>5. ASSUME NEW p \in Procs, BuildThenReturn(p) PROVE TextCurrent' /\ ApprovalsKept'
  BY <1>5, QuietStep
  DEF BuildThenReturn, Publish, Return, Goto, LocalTypes, documents, locals
<1>6. ASSUME NEW p \in Procs, BuildThenApprove(p) PROVE TextCurrent' /\ ApprovalsKept'
  BY <1>6, QuietStep
  DEF BuildThenApprove, Publish, Goto, LocalTypes, documents, locals
<1>7. ASSUME NEW p \in Procs, BuildThenNoise(p) PROVE TextCurrent' /\ ApprovalsKept'
  <2>1. pc'[p] = "mutate"
    BY <1>7 DEF BuildThenNoise, Publish, Goto, LocalTypes
  <2>2. \A q \in Procs \ {p} : /\ pc'[q] = pc[q] /\ job'[q] = job[q]
                               /\ state'[q] = state[q] /\ text'[q] = text[q]
    BY <1>7 DEF BuildThenNoise, Publish, Goto, LocalTypes
  <2>3. QED
    BY <1>7, <2>1, <2>2, QuietStep DEF BuildThenNoise, Publish
<1>8. ASSUME NEW p \in Procs, ProposeLock(p) PROVE TextCurrent' /\ ApprovalsKept'
  BY <1>8, QuietStep
  DEF ProposeLock, Goto, LocalTypes, documents, locals
<1>9. ASSUME NEW p \in Procs, ProposeWrite(p) PROVE TextCurrent' /\ ApprovalsKept'
  BY <1>9, QuietStep
  DEF ProposeWrite, Goto, LocalTypes, documents, locals
<1>10. ASSUME NEW p \in Procs, ProposeUnlock(p) PROVE TextCurrent' /\ ApprovalsKept'
  BY <1>10, QuietStep
  DEF ProposeUnlock, Goto, LocalTypes, documents, locals
<1>11. ASSUME NEW p \in Procs, ApproveLockState(p) PROVE TextCurrent' /\ ApprovalsKept'
  BY <1>11, QuietStep
  DEF ApproveLockState, Goto, LocalTypes, documents, locals
<1>12. ASSUME NEW p \in Procs, ApproveLockTarget(p) PROVE TextCurrent' /\ ApprovalsKept'
  <2> DEFINE k == job[p]
  <2>1. k.proj \in Projects /\ k.doc \in Docs
    BY <1>12, CallTypes DEF ApproveLockTarget, CallMatchesPosition, WellFormed
  <2>2. CASE decisions[k.proj][k.cand] = Undecided
    <3>1. /\ UNCHANGED <<decisions, official, job>>
          /\ pc' = [pc EXCEPT ![p] = "append"]
          /\ state' = [state EXCEPT ![p] = decisions[k.proj]]
          /\ text' = [text EXCEPT ![p] = official[k.doc]]
      BY <1>12, <2>2 DEF ApproveLockTarget, Goto
    <3>2. TextCurrent'
      BY <3>1 DEF TextCurrent, LocalTypes
    <3>3. \A d \in Docs : /\ \A j \in Projects : HoldsApprovals(official[d], d, decisions[j])
                          /\ \A q \in Procs : ReadState(q)' => HoldsApprovals(official[d], d, state'[q])
      BY <2>1, <3>1 DEF ApprovalsKept, ReadState, LocalTypes
    <3>4. ASSUME NEW r \in Procs, ReadDoc(r)'
          PROVE  /\ \A j \in Projects : HoldsApprovals(text'[r], job[r].doc, decisions[j])
                 /\ \A q \in Procs : ReadState(q)' => HoldsApprovals(text'[r], job[r].doc, state'[q])
      <4>1. CASE r = p
        BY <2>1, <3>1, <3>3, <4>1 DEF LocalTypes
      <4>2. CASE r # p
        BY <2>1, <3>1, <3>4, <4>2 DEF ApprovalsKept, ReadState, ReadDoc, LocalTypes
      <4>3. QED
        BY <4>1, <4>2
    <3>5. ApprovalsKept'
      BY <3>1, <3>3, <3>4 DEF ApprovalsKept
    <3>6. QED
      BY <3>2, <3>5
  <2>3. CASE decisions[k.proj][k.cand] # Undecided
    <3>1. pc'[p] = "unlock_target"
      BY <1>12, <2>3 DEF ApproveLockTarget, Goto, LocalTypes
    <3>2. \A q \in Procs \ {p} : /\ pc'[q] = pc[q] /\ job'[q] = job[q]
                                 /\ state'[q] = state[q] /\ text'[q] = text[q]
      BY <1>12, <2>3 DEF ApproveLockTarget, Goto, LocalTypes
    <3>3. QED
      BY <1>12, <3>1, <3>2, QuietStep DEF ApproveLockTarget
  <2>4. QED
    BY <2>2, <2>3
<1>13. ASSUME NEW p \in Procs, ApproveAppend(p) PROVE TextCurrent' /\ ApprovalsKept'
  <2> DEFINE k == job[p]
  <2>1. k.doc \in Docs /\ k.content \in Contents /\ text[p] = official[k.doc]
    BY <1>13 DEF ApproveAppend, CallMatchesPosition, WellFormed, TextCurrent
  <2>2. /\ UNCHANGED <<decisions, job, state, text>>
        /\ pc' = [pc EXCEPT ![p] = "record"]
        /\ official' = IF Recognised(k.doc, k.content, text[p]) THEN official
                       ELSE [official EXCEPT ![k.doc][k.content] = @ + 1]
    BY <1>13 DEF ApproveAppend, Goto, locals
  <2>3. \A q \in Procs \ {p} : InTargetLock(q) => job[q].doc # k.doc
    BY <1>13, OneApprovalPerDocument DEF ApproveAppend, InTargetLock
  <2>4. TextCurrent'
    <3>1. SUFFICES ASSUME NEW q \in Procs
                   PROVE  /\ pc'[q] \notin {"edit", "editing"}
                          /\ pc'[q] = "append" => text[q] = official'[job[q].doc]
                          /\ pc'[q] = "record" =>
                               official'[job[q].doc] =
                                 IF Recognised(job[q].doc, job[q].content, text[q]) THEN text[q]
                                 ELSE [text[q] EXCEPT ![job[q].content] = @ + 1]
      BY <2>2 DEF TextCurrent
    <3>2. CASE q = p
      <4>1. pc'[q] = "record"
        BY <2>2, <3>2 DEF LocalTypes
      <4>2. official'[k.doc] = IF Recognised(k.doc, k.content, text[p]) THEN text[p]
                               ELSE [text[p] EXCEPT ![k.content] = @ + 1]
        BY <2>1, <2>2 DEF FileTypes
      <4>3. QED
        BY <3>2, <4>1, <4>2
    <3>3. CASE q # p
      <4>1. pc'[q] = pc[q]
        BY <2>2, <3>3 DEF LocalTypes
      <4>2. InTargetLock(q) => official'[job[q].doc] = official[job[q].doc]
        BY <2>1, <2>2, <2>3, <3>3 DEF FileTypes
      <4>3. QED
        BY <4>1, <4>2 DEF TextCurrent, InTargetLock
    <3>4. QED
      BY <3>2, <3>3
  <2>5. \A d \in Docs, x \in Contents : official[d][x] > 0 => official'[d][x] > 0
    BY <2>1, <2>2, ConstantsAssumption DEF FileTypes
  <2>6. \A d \in Docs, ds \in [Cands -> Decisions] :
          HoldsApprovals(official[d], d, ds) => HoldsApprovals(official'[d], d, ds)
    BY <2>5, ApprovedTypes DEF HoldsApprovals
  <2>7. \A q \in Procs : ReadState(q)' => ReadState(q)
    BY <1>13, <2>2 DEF ApproveAppend, ReadState, LocalTypes
  <2>8. \A q \in Procs : ReadDoc(q)' => ReadDoc(q)
    BY <1>13, <2>2 DEF ApproveAppend, ReadDoc, LocalTypes
  <2>9. ApprovalsKept'
    BY <2>2, <2>6, <2>7, <2>8 DEF ApprovalsKept, FileTypes, LocalTypes
  <2>10. QED
    BY <2>4, <2>9
<1>14. ASSUME NEW p \in Procs, ApproveRecord(p) PROVE TextCurrent' /\ ApprovalsKept'
  <2> DEFINE k == job[p]
             new == [state[p] EXCEPT ![k.cand] = Approved(k.doc, k.content)]
  <2>1. /\ k.proj \in Projects /\ k.doc \in Docs /\ k.content \in Contents
        /\ pc[p] = "record"
    BY <1>14, CallTypes DEF ApproveRecord, CallMatchesPosition, WellFormed
  <2>2. /\ UNCHANGED <<official, job, state, text>>
        /\ pc' = [pc EXCEPT ![p] = "unlock_target"]
        /\ decisions' = [decisions EXCEPT ![k.proj] = new]
    BY <1>14 DEF ApproveRecord, Goto, locals
  <2>3. \A q \in Procs \ {p} : InTargetLock(q) => job[q].doc # k.doc
    BY <2>1, OneApprovalPerDocument DEF InTargetLock
  <2>4. official[k.doc][k.content] > 0
    <3>1. official[k.doc] = IF Recognised(k.doc, k.content, text[p]) THEN text[p]
                            ELSE [text[p] EXCEPT ![k.content] = @ + 1]
      BY <2>1 DEF TextCurrent
    <3>2. text[p] \in [Contents -> 0 .. MaxCopies]
      BY DEF LocalTypes
    <3>3. QED
      BY <2>1, <3>1, <3>2, ConstantsAssumption DEF Recognised
  <2>5. \A t, d : HoldsApprovals(t, d, state[p]) /\ (d = k.doc => t[k.content] > 0)
                    => HoldsApprovals(t, d, new)
    BY DEF HoldsApprovals, Approved, LocalTypes
  <2>6. \A q \in Procs : ReadState(q)' => ReadState(q)
    BY <2>1, <2>2 DEF ReadState, LocalTypes
  <2>7. \A q \in Procs : ReadDoc(q)' => ReadDoc(q) /\ q # p /\ job[q].doc # k.doc
    BY <2>1, <2>2, <2>3 DEF ReadDoc, InTargetLock, LocalTypes
  <2>8. ReadState(p)
    BY <2>1 DEF ReadState
  <2>9. \A d \in Docs, j \in Projects : HoldsApprovals(official[d], d, decisions'[j])
    BY <2>1, <2>2, <2>4, <2>5, <2>8 DEF ApprovalsKept, FileTypes
  <2>10. \A q \in Procs, j \in Projects :
           ReadDoc(q)' => HoldsApprovals(text[q], job[q].doc, decisions'[j])
    BY <2>1, <2>2, <2>5, <2>7, <2>8 DEF ApprovalsKept, FileTypes
  <2>11. ApprovalsKept'
    BY <2>2, <2>6, <2>7, <2>9, <2>10 DEF ApprovalsKept
  <2>12. TextCurrent'
    BY <2>1, <2>2 DEF TextCurrent, LocalTypes
  <2>13. QED
    BY <2>11, <2>12
<1>15. ASSUME NEW p \in Procs, ApproveWriteFails(p) PROVE TextCurrent' /\ ApprovalsKept'
  <2> DEFINE k == job[p]
  <2>1. k.doc \in Docs /\ pc[p] \in {"append", "record"}
    BY <1>15 DEF ApproveWriteFails, CallMatchesPosition, WellFormed
  <2>2. /\ UNCHANGED <<decisions, job, state, text>>
        /\ pc' = [pc EXCEPT ![p] = "unlock_target"]
        /\ official' \in {official, [official EXCEPT ![k.doc] = text[p]]}
    BY <1>15 DEF ApproveWriteFails, Goto
  <2>3. \A q \in Procs \ {p} : InTargetLock(q) => job[q].doc \in Docs \ {k.doc}
    BY <2>1, OneApprovalPerDocument DEF InTargetLock
  <2>4. TextCurrent'
    <3>1. SUFFICES ASSUME NEW q \in Procs
                   PROVE  /\ pc'[q] \notin {"edit", "editing"}
                          /\ pc'[q] = "append" => text[q] = official'[job[q].doc]
                          /\ pc'[q] = "record" =>
                               official'[job[q].doc] =
                                 IF Recognised(job[q].doc, job[q].content, text[q]) THEN text[q]
                                 ELSE [text[q] EXCEPT ![job[q].content] = @ + 1]
      BY <2>2 DEF TextCurrent
    <3>2. CASE q = p
      BY <2>2, <3>2 DEF LocalTypes
    <3>3. CASE q # p
      <4>1. pc'[q] = pc[q]
        BY <2>2, <3>3 DEF LocalTypes
      <4>2. \A d \in Docs \ {k.doc} : official'[d] = official[d]
        BY <2>2 DEF FileTypes
      <4>3. InTargetLock(q) => official'[job[q].doc] = official[job[q].doc]
        BY <2>3, <3>3, <4>2
      <4>4. QED
        BY <4>1, <4>3 DEF TextCurrent, InTargetLock
    <3>4. QED
      BY <3>2, <3>3
  <2>5. \A q \in Procs : (ReadState(q)' => ReadState(q)) /\ (ReadDoc(q)' => ReadDoc(q))
    BY <2>1, <2>2 DEF ReadState, ReadDoc, LocalTypes
  <2>6. \A d \in Docs : official'[d] = official[d] \/ (d = k.doc /\ official'[d] = text[p])
    BY <2>1, <2>2 DEF FileTypes
  <2>7. ReadDoc(p)
    BY <2>1 DEF ReadDoc
  <2>8. ApprovalsKept'
    BY <2>2, <2>5, <2>6, <2>7 DEF ApprovalsKept
  <2>9. QED
    BY <2>4, <2>8
<1>16. ASSUME NEW p \in Procs, ApproveUnlockTarget(p) PROVE TextCurrent' /\ ApprovalsKept'
  BY <1>16, QuietStep
  DEF ApproveUnlockTarget, Goto, LocalTypes, documents, locals
<1>17. ASSUME NEW p \in Procs, MutateLock(p) PROVE TextCurrent' /\ ApprovalsKept'
  <2>1. job[p].proj \in Projects
    BY <1>17, CallTypes DEF MutateLock, CallMatchesPosition, WellFormed
  <2>2. /\ UNCHANGED <<decisions, official, job, text>>
        /\ pc' = [pc EXCEPT ![p] = "mutating"]
        /\ state' = [state EXCEPT ![p] = decisions[job[p].proj]]
    BY <1>17 DEF MutateLock, Goto
  <2>3. TextCurrent'
    BY <2>2 DEF TextCurrent, LocalTypes
  <2>4. \A q \in Procs : ReadDoc(q)' => ReadDoc(q)
    BY <2>2 DEF ReadDoc, LocalTypes
  <2>5. \A q \in Procs : ReadState(q)' => \/ state'[q] = decisions[job[p].proj]
                                          \/ ReadState(q) /\ state'[q] = state[q]
    BY <2>2 DEF ReadState, LocalTypes
  <2>6. ApprovalsKept'
    BY <2>1, <2>2, <2>4, <2>5 DEF ApprovalsKept
  <2>7. QED
    BY <2>3, <2>6
<1>18. ASSUME NEW p \in Procs, MutateWrite(p) PROVE TextCurrent' /\ ApprovalsKept'
  <2> DEFINE k == job[p]
             new == IF k.kind = "remind" THEN state[p]
                    ELSE [state[p] EXCEPT ![k.cand] = Verdict(k.kind)]
  <2>1. k.proj \in Projects /\ ReadState(p)
    BY <1>18, CallTypes DEF MutateWrite, CallMatchesPosition, WellFormed, ReadState
  <2>2. /\ UNCHANGED <<official, job, state, text>>
        /\ pc' = [pc EXCEPT ![p] = "unlock_state"]
        /\ decisions' \in {decisions, [decisions EXCEPT ![k.proj] = new]}
    BY <1>18 DEF MutateWrite, Goto, locals
  <2>3. Verdict(k.kind).status # "approved"
    BY DEF Verdict, Undecided, Rejected, Deferred, Quarantined
  <2>4. \A t, d : HoldsApprovals(t, d, state[p]) => HoldsApprovals(t, d, new)
    BY <2>3 DEF HoldsApprovals, LocalTypes
  <2>5. \A q \in Procs : (ReadState(q)' => ReadState(q)) /\ (ReadDoc(q)' => ReadDoc(q))
    BY <2>2 DEF ReadState, ReadDoc, LocalTypes
  <2>6. \A j \in Projects : decisions'[j] = decisions[j] \/ decisions'[j] = new
    BY <2>1, <2>2 DEF FileTypes
  <2>7. ApprovalsKept'
    BY <2>1, <2>2, <2>4, <2>5, <2>6 DEF ApprovalsKept
  <2>8. TextCurrent'
    BY <2>2 DEF TextCurrent, LocalTypes
  <2>9. QED
    BY <2>7, <2>8
<1>19. ASSUME NEW p \in Procs, MutateFails(p) PROVE TextCurrent' /\ ApprovalsKept'
  BY <1>19, QuietStep
  DEF MutateFails, Goto, LocalTypes, documents, locals
<1>20. ASSUME NEW p \in Procs, UnlockStateThenReturn(p) PROVE TextCurrent' /\ ApprovalsKept'
  BY <1>20, QuietStep
  DEF UnlockStateThenReturn, Return, Goto, LocalTypes, documents, locals
<1>21. ASSUME NEW p \in Procs, UnlockStateThenBuild(p) PROVE TextCurrent' /\ ApprovalsKept'
  BY <1>21, QuietStep
  DEF UnlockStateThenBuild, Goto, LocalTypes, documents, locals
<1>22. ASSUME NEW p \in Procs, EditRead(p) PROVE TextCurrent' /\ ApprovalsKept'
  BY <1>22 DEF EditRead, TextCurrent
<1>23. ASSUME NEW p \in Procs, EditWrite(p) PROVE TextCurrent' /\ ApprovalsKept'
  BY <1>23 DEF EditWrite, TextCurrent
<1>24. ASSUME NEW p \in Procs, HookReadPersonal(p) PROVE TextCurrent' /\ ApprovalsKept'
  BY <1>24, QuietStep
  DEF HookReadPersonal, Goto, LocalTypes, documents, locals
<1>25. ASSUME NEW p \in Procs, HookLock(p) PROVE TextCurrent' /\ ApprovalsKept'
  <2>1. pc'[p] \in {"hook_publish", "hook_default"}
    BY <1>25 DEF HookLock, Goto, LocalTypes
  <2>2. \A q \in Procs \ {p} : /\ pc'[q] = pc[q] /\ job'[q] = job[q]
                               /\ state'[q] = state[q] /\ text'[q] = text[q]
    BY <1>25 DEF HookLock, Goto, LocalTypes
  <2>3. QED
    BY <1>25, <2>1, <2>2, QuietStep DEF HookLock, documents
<1>26. ASSUME NEW p \in Procs, HookDefault(p) PROVE TextCurrent' /\ ApprovalsKept'
  <2>1. /\ UNCHANGED <<official, job, state, text>>
        /\ pc' = [pc EXCEPT ![p] = "hook_publish"]
        /\ decisions' = [decisions EXCEPT ![job[p].proj] = NoDecisions]
    BY <1>26 DEF HookDefault, Goto, locals
  <2>2. \A t, d : HoldsApprovals(t, d, NoDecisions)
    BY DEF HoldsApprovals, NoDecisions, Undecided
  <2>3. \A q \in Procs : (ReadState(q)' => ReadState(q)) /\ (ReadDoc(q)' => ReadDoc(q))
    BY <2>1 DEF ReadState, ReadDoc, LocalTypes
  <2>4. \A j \in Projects : decisions'[j] = decisions[j] \/ decisions'[j] = NoDecisions
    BY <2>1 DEF FileTypes
  <2>5. ApprovalsKept'
    BY <2>1, <2>2, <2>3, <2>4 DEF ApprovalsKept
  <2>6. TextCurrent'
    BY <2>1 DEF TextCurrent, LocalTypes
  <2>7. QED
    BY <2>5, <2>6
<1>27. ASSUME NEW p \in Procs, HookPublish(p) PROVE TextCurrent' /\ ApprovalsKept'
  BY <1>27, QuietStep
  DEF HookPublish, Return, Goto, LocalTypes, documents, locals
<1>28. ASSUME NEW p \in Procs, HookKilled(p) PROVE TextCurrent' /\ ApprovalsKept'
  BY <1>28, QuietStep
  DEF HookKilled, Return, Goto, LocalTypes, documents, locals
<1>29. ASSUME NEW p \in Procs, Timeout(p) PROVE TextCurrent' /\ ApprovalsKept'
  BY <1>29, QuietStep
  DEF Timeout, Return, Goto, LocalTypes, documents, locals
<1>30. ASSUME NEW p \in Procs, Crash(p) PROVE TextCurrent' /\ ApprovalsKept'
  BY <1>30, QuietStep
  DEF Crash, Return, Goto, LocalTypes, documents, locals
<1>31. QED
  BY <1>1, <1>2, <1>3, <1>4, <1>5, <1>6, <1>7, <1>8, <1>9, <1>10, <1>11,
     <1>12, <1>13, <1>14, <1>15, <1>16, <1>17, <1>18, <1>19, <1>20, <1>21,
     <1>22, <1>23, <1>24, <1>25, <1>26, <1>27, <1>28, <1>29, <1>30
  DEF Next, Step, Build, Propose, Approve, Mutate, Edit, Hook

\* A stutter changes nothing, so documents and approvals stay together.
LEMMA DocumentInvStep ==
  ASSUME NoEditors
  PROVE  DocumentInv /\ [Next]_vars => DocumentInv'
<1>1. ASSUME DocumentInv, Next PROVE DocumentInv'
  BY <1>1, LockInvStep, DocumentStep DEF DocumentInv
<1>2. ASSUME DocumentInv, UNCHANGED vars PROVE DocumentInv'
  <2>1. LockInv'
    BY <1>2, LockInvStep DEF DocumentInv
  <2>2. UNCHANGED <<decisions, official, pc, job, state, text>>
    BY <1>2 DEF vars, documents, locals
  <2>3. QED
    BY <1>2, <2>1, <2>2 DEF DocumentInv, TextCurrent, ApprovalsKept, ReadState, ReadDoc
<1>3. QED
  BY <1>1, <1>2

\* When nobody edits the documents without a lock, DocumentInv always holds.
LEMMA DocumentInvAlways ==
  ASSUME NoEditors
  PROVE  Spec => []DocumentInv
<1>1. Init => DocumentInv
  BY InitDocuments, InitTypeInv, InitLocks DEF DocumentInv, LockInv
<1>2. QED
  BY <1>1, DocumentInvStep, PTL DEF Spec

\* Without the editor and the retention pass, whatever text a recorded approval
\* names is in the document it names: approve's append and its decision are
\* never torn apart.
THEOREM ApprovedStaysOfficial ==
  ASSUME NoEditors
  PROVE  Spec => []ApprovedIsOfficial
<1>1. DocumentInv => ApprovedIsOfficial
  <2>1. SUFFICES ASSUME DocumentInv, NEW j \in Projects, NEW c \in Cands,
                        decisions[j][c].status = "approved"
                 PROVE  official[decisions[j][c].path][decisions[j][c].content] > 0
    BY DEF ApprovedIsOfficial
  <2>2. decisions[j][c] \in Decisions
    BY <2>1 DEF DocumentInv, LockInv, TypeInv, TypeOK, FileTypes
  <2>3. decisions[j][c].path \in Docs
    BY <2>1, <2>2, ApprovedTypes
  <2>4. HoldsApprovals(official[decisions[j][c].path], decisions[j][c].path, decisions[j])
    BY <2>1, <2>3 DEF DocumentInv, ApprovalsKept
  <2>5. QED
    BY <2>1, <2>4 DEF HoldsApprovals
<1>2. QED
  BY <1>1, DocumentInvAlways, PTL

-----------------------------------------------------------------------------
\* No approval goes into short memory, whose envelopes are not recognised.
NoShortApprovals == \A k \in Calls : k.kind = "approve" => k.doc # PERSONAL_SHORT

\* Neither a document nor a text read from one holds a section twice, and
\* approvals under way stay out of short memory.
SingleCopies ==
  /\ \A d \in Docs, x \in Contents : official[d][x] <= 1
  /\ \A p \in Procs, x \in Contents : text[p][x] <= 1
  /\ \A p \in Procs : pc[p] # "idle" /\ job[p].kind = "approve" => job[p].doc # PERSONAL_SHORT

CopiesInv == DocumentInv /\ SingleCopies

\* What most steps of p do: no document is read or written, and p goes on with
\* its call or ends it.
Quiet(p) ==
  /\ UNCHANGED official
  /\ \A q \in Procs : /\ text'[q] \in {text[q], EmptyText}
                      /\ pc'[q] # "idle" => pc[q] # "idle" /\ job'[q] = job[q]

\* Such a step copies nothing.
LEMMA QuietCopies ==
  ASSUME SingleCopies, NEW p, Quiet(p)
  PROVE  SingleCopies'
BY ConstantsAssumption DEF SingleCopies, Quiet, EmptyText

\* Only starting a call, the noise clean-up and the steps that read or write a
\* document are not of that kind.
LEMMA QuietSteps ==
  ASSUME TypeOK, NEW p \in Procs,
         \/ Build(p) /\ ~BuildThenNoise(p)
         \/ Propose(p) \/ ApproveLockState(p) \/ ApproveRecord(p) \/ ApproveUnlockTarget(p)
         \/ Mutate(p) \/ Hook(p) \/ Timeout(p) \/ Crash(p)
  PROVE  Quiet(p)
<1> USE DEF TypeOK, LocalTypes, Quiet, Goto, documents, locals, Return, Publish
<1>1. ASSUME BuildLock(p) PROVE Quiet(p)
  BY <1>1 DEF BuildLock
<1>2. ASSUME BuildReadState(p) PROVE Quiet(p)
  BY <1>2 DEF BuildReadState
<1>3. ASSUME BuildUnlockState(p) PROVE Quiet(p)
  BY <1>3 DEF BuildUnlockState
<1>4. ASSUME BuildThenReturn(p) PROVE Quiet(p)
  BY <1>4 DEF BuildThenReturn
<1>5. ASSUME BuildThenApprove(p) PROVE Quiet(p)
  BY <1>5 DEF BuildThenApprove
<1>6. ASSUME ProposeLock(p) PROVE Quiet(p)
  BY <1>6 DEF ProposeLock
<1>7. ASSUME ProposeWrite(p) PROVE Quiet(p)
  BY <1>7 DEF ProposeWrite
<1>8. ASSUME ProposeUnlock(p) PROVE Quiet(p)
  BY <1>8 DEF ProposeUnlock
<1>9. ASSUME ApproveLockState(p) PROVE Quiet(p)
  BY <1>9 DEF ApproveLockState
<1>10. ASSUME ApproveRecord(p) PROVE Quiet(p)
  BY <1>10 DEF ApproveRecord
<1>11. ASSUME ApproveUnlockTarget(p) PROVE Quiet(p)
  BY <1>11 DEF ApproveUnlockTarget
<1>12. ASSUME MutateLock(p) PROVE Quiet(p)
  BY <1>12 DEF MutateLock
<1>13. ASSUME MutateWrite(p) PROVE Quiet(p)
  BY <1>13 DEF MutateWrite
<1>14. ASSUME MutateFails(p) PROVE Quiet(p)
  BY <1>14 DEF MutateFails
<1>15. ASSUME UnlockStateThenReturn(p) PROVE Quiet(p)
  BY <1>15 DEF UnlockStateThenReturn
<1>16. ASSUME UnlockStateThenBuild(p) PROVE Quiet(p)
  BY <1>16 DEF UnlockStateThenBuild
<1>17. ASSUME HookReadPersonal(p) PROVE Quiet(p)
  BY <1>17 DEF HookReadPersonal
<1>18. ASSUME HookLock(p) PROVE Quiet(p)
  BY <1>18 DEF HookLock
<1>19. ASSUME HookDefault(p) PROVE Quiet(p)
  BY <1>19 DEF HookDefault
<1>20. ASSUME HookPublish(p) PROVE Quiet(p)
  BY <1>20 DEF HookPublish
<1>21. ASSUME HookKilled(p) PROVE Quiet(p)
  BY <1>21 DEF HookKilled
<1>22. ASSUME Timeout(p) PROVE Quiet(p)
  BY <1>22 DEF Timeout
<1>23. ASSUME Crash(p) PROVE Quiet(p)
  BY <1>23 DEF Crash
<1>24. QED
  BY <1>1, <1>2, <1>3, <1>4, <1>5, <1>6, <1>7, <1>8, <1>9, <1>10, <1>11, <1>12, <1>13, <1>14, <1>15, <1>16, <1>17, <1>18, <1>19, <1>20, <1>21, <1>22, <1>23
  DEF Build, Propose, Mutate, Hook

\* Every step keeps one copy of each text.
LEMMA CopiesStep ==
  ASSUME NoEditors, NoShortApprovals, CopiesInv, Next
  PROVE  SingleCopies'
<1> USE DEF CopiesInv, DocumentInv, LockInv, TypeInv, TypeOK
<1>1. ASSUME NEW p \in Procs, Start(p) PROVE SingleCopies'
  <2>1. PICK k \in Calls : job' = [job EXCEPT ![p] = k]
    BY <1>1 DEF Start
  <2>2. UNCHANGED <<official, text>> /\ \A q \in Procs \ {p} : pc'[q] = pc[q]
    BY <1>1 DEF Start, Goto, documents, LocalTypes
  <2>3. QED
    BY <2>1, <2>2 DEF SingleCopies, NoShortApprovals, LocalTypes
<1>2. ASSUME NEW p \in Procs, BuildThenNoise(p) PROVE SingleCopies'
  <2>1. PICK c \in Cands : job' = [job EXCEPT ![p].cand = c]
    BY <1>2, ConstantsAssumption DEF BuildThenNoise, NoiseLeft, LocalTypes
  <2>2. /\ UNCHANGED <<official, text>> /\ pc[p] = "publish" /\ job[p].kind = "noise"
        /\ \A q \in Procs \ {p} : pc'[q] = pc[q]
    BY <1>2 DEF BuildThenNoise, Publish, Goto, LocalTypes
  <2>3. job'[p].kind = "noise"
    BY <2>1, <2>2, CallTypes DEF LocalTypes, CallMatchesPosition, WellFormed
  <2>4. QED
    BY <2>1, <2>2, <2>3 DEF SingleCopies, LocalTypes
<1>3. ASSUME NEW p \in Procs, ApproveLockTarget(p) PROVE SingleCopies'
  <2>1. job[p].doc \in Docs /\ pc[p] = "approve_target"
    BY <1>3 DEF ApproveLockTarget, CallMatchesPosition, WellFormed
  <2>2. /\ UNCHANGED <<official, job>>
        /\ text' \in {text, [text EXCEPT ![p] = official[job[p].doc]]}
        /\ \A q \in Procs \ {p} : pc'[q] = pc[q]
    BY <1>3 DEF ApproveLockTarget, Goto, LocalTypes
  <2>3. QED
    BY <2>1, <2>2 DEF SingleCopies, LocalTypes
<1>4. ASSUME NEW p \in Procs, ApproveAppend(p) PROVE SingleCopies'
  <2> DEFINE k == job[p]
  <2>1. /\ k.doc \in Docs /\ k.content \in Contents /\ k.kind = "approve"
        /\ pc[p] = "append" /\ text[p] = official[k.doc]
    BY <1>4 DEF ApproveAppend, CallMatchesPosition, WellFormed, TextCurrent
  <2>2. /\ UNCHANGED <<job, text>>
        /\ \A q \in Procs \ {p} : pc'[q] = pc[q]
        /\ official' = IF Recognised(k.doc, k.content, text[p]) THEN official
                       ELSE [official EXCEPT ![k.doc][k.content] = @ + 1]
    BY <1>4 DEF ApproveAppend, Goto, locals, LocalTypes
  <2>3. k.doc # PERSONAL_SHORT
    BY <2>1 DEF SingleCopies
  <2>4. ~Recognised(k.doc, k.content, text[p]) => official[k.doc][k.content] = 0
    BY <2>1, <2>3, ConstantsAssumption DEF Recognised, FileTypes
  <2>5. \A d \in Docs, x \in Contents : official'[d][x] <= 1
    BY <2>1, <2>2, <2>4 DEF SingleCopies, FileTypes
  <2>6. QED
    BY <2>1, <2>2, <2>3, <2>5 DEF SingleCopies
<1>5. ASSUME NEW p \in Procs, ApproveWriteFails(p) PROVE SingleCopies'
  <2>1. job[p].doc \in Docs /\ pc[p] \in {"append", "record"}
    BY <1>5 DEF ApproveWriteFails, CallMatchesPosition, WellFormed
  <2>2. /\ UNCHANGED <<job, text>>
        /\ official' \in {official, [official EXCEPT ![job[p].doc] = text[p]]}
        /\ \A q \in Procs \ {p} : pc'[q] = pc[q]
    BY <1>5 DEF ApproveWriteFails, Goto, LocalTypes
  <2>3. QED
    BY <2>1, <2>2 DEF SingleCopies, FileTypes
<1>6. ASSUME NEW p \in Procs, Edit(p) PROVE SingleCopies'
  BY <1>6 DEF Edit, EditRead, EditWrite, TextCurrent
<1>7. QED
  BY <1>1, <1>2, <1>3, <1>4, <1>5, <1>6, QuietSteps, QuietCopies
  DEF Next, Step, Build, Approve

\* When nobody edits the documents without a lock and nothing is approved into
\* short memory, retries, resets, crashes and approvals of one text from several
\* candidates or projects never put a second section of it into a document.
THEOREM OneSectionPerText ==
  ASSUME NoEditors, NoShortApprovals
  PROVE  Spec => []NoDuplicateOfficial
<1>1. Init => CopiesInv
  <2>1. Init => SingleCopies
    BY DEF Init, SingleCopies, EmptyText
  <2>2. QED
    BY <2>1, InitDocuments, InitTypeInv, InitLocks DEF CopiesInv, DocumentInv, LockInv
<1>2. CopiesInv /\ [Next]_vars => CopiesInv'
  <2>1. ASSUME CopiesInv, Next PROVE SingleCopies'
    BY <2>1, CopiesStep
  <2>2. ASSUME CopiesInv, UNCHANGED vars PROVE SingleCopies'
    BY <2>2 DEF CopiesInv, SingleCopies, vars, documents, locals
  <2>3. QED
    BY <2>1, <2>2, DocumentInvStep DEF CopiesInv
<1>3. CopiesInv => NoDuplicateOfficial
  BY DEF CopiesInv, SingleCopies, NoDuplicateOfficial
<1>4. QED
  BY <1>1, <1>2, <1>3, PTL DEF Spec

-----------------------------------------------------------------------------
\* Only approved text is official.

\* Text x of document d is approved, or known to have been left there.
Recorded(d, x) ==
  \/ \E j \in Projects, c \in Cands : decisions[j][c] = Approved(d, x)
  \/ <<d, x>> \in left

\* It is, or it is being approved.
Accounted(d, x) ==
  \/ Recorded(d, x)
  \/ \E p \in Procs : pc[p] = "record" /\ job[p].doc = d /\ job[p].content = x

\* So is all text of a document, and all text an editor, which holds no lock,
\* is about to write into it.  What an approval may put back was there before
\* it, so its own being under way does not account for it.
TextAccounted ==
  /\ \A d \in Docs, x \in Contents : official[d][x] > 0 => Accounted(d, x)
  /\ \A p \in Procs : pc[p] = "editing" =>
       \A x \in Contents : text[p][x] > 0 => Accounted(EditedDoc(job[p]), x)
  /\ \A p \in Procs : ReadDoc(p) =>
       \A x \in Contents : text[p][x] > 0 => Recorded(job[p].doc, x)

AccountInv == DecisionInv /\ TextAccounted

\* A step of p leaves the history alone, but for five actions.
LEMMA LeftWriters ==
  ASSUME NEW p \in Procs, Start(p) \/ Step(p) \/ Crash(p),
         ~ApproveWriteFails(p), ~MutateWrite(p), ~HookDefault(p), ~Crash(p)
  PROVE  UNCHANGED left
<1>1. CASE Start(p) \/ Timeout(p)
  BY <1>1 DEF Start, Timeout, faults
<1>2. CASE Build(p)
  BY <1>2 DEF Build, BuildLock, BuildReadState, BuildUnlockState, BuildThenReturn,
     BuildThenApprove, BuildThenNoise, Publish, faults
<1>3. CASE Propose(p) \/ Approve(p)
  BY <1>3 DEF Propose, ProposeLock, ProposeWrite, ProposeUnlock, Approve,
     ApproveLockState, ApproveLockTarget, ApproveAppend, ApproveRecord,
     ApproveUnlockTarget, faults
<1>4. CASE Mutate(p)
  BY <1>4 DEF Mutate, MutateLock, MutateFails, UnlockStateThenReturn,
     UnlockStateThenBuild, faults
<1>5. CASE Edit(p) \/ Hook(p)
  BY <1>5 DEF Edit, EditRead, EditWrite, Hook, HookReadPersonal, HookLock,
     HookPublish, HookKilled, faults
<1>6. QED
  BY <1>1, <1>2, <1>3, <1>4, <1>5 DEF Step

\* What was left stays known.
LEMMA LeftGrows ==
  ASSUME NEW p \in Procs, Start(p) \/ Step(p) \/ Crash(p)
  PROVE  left \subseteq left'
<1>1. CASE ApproveWriteFails(p)
  BY <1>1 DEF ApproveWriteFails
<1>2. CASE MutateWrite(p)
  BY <1>2 DEF MutateWrite
<1>3. CASE HookDefault(p)
  BY <1>3 DEF HookDefault
<1>4. CASE Crash(p)
  BY <1>4 DEF Crash
<1>5. QED
  BY <1>1, <1>2, <1>3, <1>4, LeftWriters

\* An approval is recorded until it is reset, and then its text is left.
LEMMA RecordedStays ==
  ASSUME AccountInv, Next, NEW d \in Docs, NEW x \in Contents, Recorded(d, x)
  PROVE  Recorded(d, x)'
<1> USE DEF AccountInv, DecisionInv, LockInv
<1>1. PICK p \in Procs : Start(p) \/ Step(p) \/ Crash(p)
  BY DEF Next
<1>2. CASE <<d, x>> \in left
  BY <1>1, <1>2, LeftGrows DEF Recorded
<1>3. CASE \E j \in Projects, c \in Cands : decisions[j][c] = Approved(d, x)
  <2>1. PICK j \in Projects, c \in Cands : decisions[j][c] = Approved(d, x)
    BY <1>3
  <2>2. Approved(d, x) # Undecided
    BY DEF Approved, Undecided
  <2>3. CASE decisions'[j][c] = decisions[j][c]
    BY <2>1, <2>3 DEF Recorded, Approved
  <2>4. CASE decisions'[j][c] # decisions[j][c]
    <3>1. PICK q \in Procs : /\ pc[q] = "mutating" /\ job[q].kind = "reset"
                             /\ job[q].cand = c /\ job[q].proj = j
      BY <2>1, <2>2, <2>4, DecisionStep DEF KeepsDecisions
    <3>2. decisions'[j][c] = Undecided
      BY <2>1, <2>2, <2>4, DecisionStep DEF KeepsDecisions
    <3>3. MutateWrite(p) \/ ApproveRecord(p)
      <4>1. ~\E r \in Procs : HookDefault(r)
        BY DEF HookDefault, SnapshotCurrent
      <4>2. PICK r \in Procs : ApproveRecord(r) \/ MutateWrite(r)
        BY <2>4, <4>1, StateWriters
      <4>3. r = p
        BY <1>1, <4>2, OthersAsTheyWere DEF Others, ApproveRecord, MutateWrite, Goto,
           TypeInv, TypeOK, LocalTypes
      <4>4. QED
        BY <4>2, <4>3
    <3>4. p = q
      <4>1. InStateLock(p) /\ job[p].proj = j /\ InStateLock(q)
        BY <2>4, <3>1, <3>3 DEF MutateWrite, ApproveRecord, InStateLock, TypeInv, TypeOK,
           FileTypes
      <4>2. stateLock[j] = p /\ stateLock[j] = q
        BY <3>1, <4>1 DEF LocksMatchPosition, StateLockHeld
      <4>3. QED
        BY <4>2
    <3>5. MutateWrite(p)
      BY <3>1, <3>3, <3>4 DEF ApproveRecord
    <3>6. Changes(p)
      BY <2>4, <3>5 DEF MutateWrite
    <3>7. state[p][c] = Approved(d, x)
      BY <2>1, <3>1, <3>4 DEF SnapshotCurrent
    <3>8. Placed(state[p][c]) = {<<d, x>>}
      BY <3>7 DEF Placed, Approved
    <3>9. <<d, x>> \in left'
      BY <3>1, <3>4, <3>5, <3>6, <3>8 DEF MutateWrite
    <3>10. QED
      BY <3>9 DEF Recorded
  <2>5. QED
    BY <2>3, <2>4
<1>4. QED
  BY <1>2, <1>3 DEF Recorded

\* An approval between its append and its record records, fails or dies.
LEMMA OnlyRecords ==
  ASSUME NEW p \in Procs, pc[p] = "record", Start(p) \/ Step(p) \/ Crash(p)
  PROVE  ApproveRecord(p) \/ ApproveWriteFails(p) \/ Crash(p)
<1>1. WaitsFor(p) = Free
  BY DEF WaitsFor
<1>2. ~Start(p) /\ ~Timeout(p)
  BY <1>1 DEF Start, Timeout
<1>3. ~Build(p) /\ ~Propose(p)
  BY DEF Build, BuildLock, BuildReadState, BuildUnlockState, BuildThenReturn,
     BuildThenApprove, BuildThenNoise, Publish, Propose, ProposeLock, ProposeWrite,
     ProposeUnlock
<1>4. ~Mutate(p) /\ ~Edit(p) /\ ~Hook(p)
  BY DEF Mutate, MutateLock, MutateWrite, MutateFails, UnlockStateThenReturn,
     UnlockStateThenBuild, Edit, EditRead, EditWrite, Hook, HookReadPersonal, HookLock,
     HookDefault, HookPublish, HookKilled
<1>5. QED
  BY <1>2, <1>3, <1>4
  DEF Step, Approve, ApproveLockState, ApproveLockTarget, ApproveAppend, ApproveUnlockTarget

\* The approval of text x for document d could not record it.
GivesUp(p, d, x) ==
  ApproveWriteFails(p) /\ pc[p] = "record" /\ job[p].doc = d /\ job[p].content = x

\* What is accounted for stays so, but for the text of an approval that fails.
LEMMA AccountedStays ==
  ASSUME AccountInv, Next, NEW d \in Docs, NEW x \in Contents, Accounted(d, x),
         \A p \in Procs : ~GivesUp(p, d, x)
  PROVE  Accounted(d, x)'
<1> USE DEF AccountInv, DecisionInv, LockInv
<1>1. CASE Recorded(d, x)
  BY <1>1, RecordedStays DEF Accounted
<1>2. CASE \E p \in Procs : pc[p] = "record" /\ job[p].doc = d /\ job[p].content = x
  <2>1. PICK p \in Procs : pc[p] = "record" /\ job[p].doc = d /\ job[p].content = x
    BY <1>2
  <2>2. PICK q \in Procs : Start(q) \/ Step(q) \/ Crash(q)
    BY DEF Next
  <2>3. CASE q # p
    <3>1. pc'[p] = "record" /\ job'[p] = job[p]
      BY <2>1, <2>2, <2>3, OthersAsTheyWere DEF Others
    <3>2. QED
      BY <2>1, <3>1 DEF Accounted
  <2>4. CASE q = p /\ ApproveRecord(p)
    <3>1. job[p].proj \in Projects /\ job[p].cand \in Cands
      BY <2>1, CallHasProject DEF TypeInv, CallMatchesPosition, WellFormed
    <3>2. decisions'[job[p].proj][job[p].cand] = Approved(d, x)
      BY <2>1, <2>4, <3>1 DEF ApproveRecord, TypeInv, TypeOK, FileTypes, LocalTypes
    <3>3. QED
      BY <3>1, <3>2 DEF Accounted, Recorded, Approved
  <2>5. CASE q = p /\ Crash(p)
    <3>1. CASE Recognised(d, x, text[p])
      <4>1. Recorded(d, x)
        BY <2>1, <3>1 DEF Recognised, TextAccounted, ReadDoc
      <4>2. QED
        BY <4>1, RecordedStays DEF Accounted
    <3>2. CASE ~Recognised(d, x, text[p])
      BY <2>1, <2>5, <3>2 DEF Crash, Accounted, Recorded
    <3>3. QED
      BY <3>1, <3>2
  <2>6. QED
    BY <2>1, <2>2, <2>3, <2>4, <2>5, OnlyRecords DEF GivesUp
<1>3. QED
  BY <1>1, <1>2 DEF Accounted

\* Three actions change a document.
LEMMA DocumentWriters ==
  ASSUME NEW p \in Procs, Start(p) \/ Step(p) \/ Crash(p),
         ~ApproveAppend(p), ~ApproveWriteFails(p), ~EditWrite(p)
  PROVE  UNCHANGED official
<1>1. CASE Start(p) \/ Timeout(p) \/ Crash(p)
  BY <1>1 DEF Start, Timeout, Crash, documents
<1>2. CASE Build(p)
  BY <1>2 DEF Build, BuildLock, BuildReadState, BuildUnlockState, BuildThenReturn,
     BuildThenApprove, BuildThenNoise, Publish, documents
<1>3. CASE Propose(p) \/ Approve(p)
  BY <1>3 DEF Propose, ProposeLock, ProposeWrite, ProposeUnlock, Approve,
     ApproveLockState, ApproveLockTarget, ApproveRecord,
     ApproveUnlockTarget, documents
<1>4. CASE Mutate(p)
  BY <1>4 DEF Mutate, MutateLock, MutateWrite, MutateFails, UnlockStateThenReturn,
     UnlockStateThenBuild, documents
<1>5. CASE Edit(p) \/ Hook(p)
  BY <1>5 DEF Edit, EditRead, Hook, HookReadPersonal, HookLock, HookDefault,
     HookPublish, HookKilled, documents
<1>6. QED
  BY <1>1, <1>2, <1>3, <1>4, <1>5 DEF Step

\* A step of p leaves alone what other calls have read, and only the read of an
\* editor takes p to the write of one.
LEMMA EditorsAlone ==
  ASSUME TypeInv, NEW p \in Procs, Start(p) \/ Step(p) \/ Crash(p)
  PROVE  /\ \A q \in Procs \ {p} : text'[q] = text[q]
         /\ pc'[p] = "editing" => EditRead(p)
<1> USE DEF TypeInv, TypeOK, LocalTypes, Goto, Return
<1>1. CASE Start(p)
  <2>1. PICK k \in Calls : pc'[p] = FirstLabel(k.kind)
    BY <1>1 DEF Start
  <2>2. k.kind \in Kinds
    BY CallsWellFormed, CallTypes DEF WellFormed
  <2>3. QED
    BY <1>1, <2>1, <2>2 DEF Start, FirstLabel, Kinds
<1>2. CASE BuildLock(p) \/ BuildReadState(p) \/ BuildUnlockState(p)
  BY <1>2 DEF BuildLock, BuildReadState, BuildUnlockState, locals
<1>3. CASE BuildThenReturn(p) \/ BuildThenApprove(p) \/ BuildThenNoise(p)
  BY <1>3 DEF BuildThenReturn, BuildThenApprove, BuildThenNoise
<1>4. CASE Propose(p)
  BY <1>4 DEF Propose, ProposeLock, ProposeWrite, ProposeUnlock, locals
<1>5. CASE Approve(p)
  BY <1>5 DEF Approve, ApproveLockState, ApproveLockTarget, ApproveAppend, ApproveRecord,
     ApproveWriteFails, ApproveUnlockTarget, locals
<1>6. CASE Mutate(p)
  BY <1>6 DEF Mutate, MutateLock, MutateWrite, MutateFails, UnlockStateThenReturn,
     UnlockStateThenBuild, locals
<1>7. CASE Edit(p)
  BY <1>7 DEF Edit, EditRead, EditWrite
<1>8. CASE Hook(p)
  BY <1>8 DEF Hook, HookReadPersonal, HookLock, HookDefault, HookPublish, HookKilled, locals
<1>9. CASE Timeout(p) \/ Crash(p)
  BY <1>9 DEF Timeout, Crash
<1>10. QED
  BY <1>1, <1>2, <1>3, <1>4, <1>5, <1>6, <1>7, <1>8, <1>9 DEF Step, Build

\* An edit or a retention pass adds no text to what it reads.
LEMMA EditAddsNothing ==
  ASSUME TypeInv, NEW p \in Procs, pc[p] = "edit", NEW x \in Contents,
         Edited(job[p])[x] > 0
  PROVE  /\ EditedDoc(job[p]) \in Docs
         /\ official[EditedDoc(job[p])][x] > 0
<1>1. job[p].kind = "edit" => job[p].doc \in Docs
  BY DEF TypeInv, CallMatchesPosition, WellFormed
<1>2. EditedDoc(job[p]) \in Docs
  BY <1>1 DEF EditedDoc, Docs
<1>3. official[EditedDoc(job[p])] \in [Contents -> 0 .. MaxCopies]
  BY <1>2 DEF TypeInv, TypeOK, FileTypes
<1>4. official[EditedDoc(job[p])][x] \in Nat
  BY <1>3, ConstantsAssumption
<1>5. CASE job[p].kind = "edit"
  <2>1. DEFINE t == official[job[p].doc]
               n == IF t[job[p].content] = 0 THEN 0 ELSE t[job[p].content] - 1
  <2>2. Edited(job[p]) = [t EXCEPT ![job[p].content] = n]
    BY <1>5 DEF Edited
  <2>3. CASE x = job[p].content
    <3>1. Edited(job[p])[x] = n
      BY <1>3, <1>5, <2>2, <2>3 DEF EditedDoc
    <3>2. t[x] \in Nat /\ (t[x] = 0 => n = 0)
      BY <1>4, <1>5, <2>3 DEF EditedDoc
    <3>3. t[x] > 0
      BY <3>1, <3>2
    <3>4. QED
      BY <1>2, <1>5, <3>3 DEF EditedDoc
  <2>4. CASE x # job[p].content
    BY <1>2, <1>3, <1>5, <2>2, <2>4 DEF EditedDoc
  <2>5. QED
    BY <2>3, <2>4
<1>6. CASE job[p].kind # "edit"
  BY <1>2, <1>4, <1>6 DEF Edited, EditedDoc
<1>7. QED
  BY <1>5, <1>6

\* An approval takes what it may put back from the document it has locked.
LEMMA ReadersAlone ==
  ASSUME TypeInv, NEW p \in Procs, Start(p) \/ Step(p) \/ Crash(p), ReadDoc(p)'
  PROVE  \/ ApproveLockTarget(p) /\ pc'[p] = "append"
         \/ ApproveAppend(p)
<1> USE DEF TypeInv, TypeOK, LocalTypes, Goto, Return, ReadDoc
<1>1. CASE Start(p)
  <2>1. PICK k \in Calls : pc'[p] = FirstLabel(k.kind)
    BY <1>1 DEF Start
  <2>2. k.kind \in Kinds
    BY CallsWellFormed, CallTypes DEF WellFormed
  <2>3. QED
    BY <1>1, <2>1, <2>2 DEF Start, FirstLabel, Kinds
<1>2. CASE BuildLock(p) \/ BuildReadState(p) \/ BuildUnlockState(p)
  BY <1>2 DEF BuildLock, BuildReadState, BuildUnlockState
<1>3. CASE BuildThenReturn(p) \/ BuildThenApprove(p) \/ BuildThenNoise(p)
  BY <1>3 DEF BuildThenReturn, BuildThenApprove, BuildThenNoise
<1>4. CASE Propose(p) \/ Mutate(p)
  BY <1>4 DEF Propose, ProposeLock, ProposeWrite, ProposeUnlock, Mutate, MutateLock,
     MutateWrite, MutateFails, UnlockStateThenReturn, UnlockStateThenBuild
<1>5. CASE Approve(p)
  BY <1>5 DEF Approve, ApproveLockState, ApproveLockTarget, ApproveRecord,
     ApproveWriteFails, ApproveUnlockTarget
<1>6. CASE Edit(p) \/ Hook(p)
  BY <1>6 DEF Edit, EditRead, EditWrite, Hook, HookReadPersonal, HookLock, HookDefault,
     HookPublish, HookKilled
<1>7. CASE Timeout(p) \/ Crash(p)
  BY <1>7 DEF Timeout, Crash
<1>8. QED
  BY <1>1, <1>2, <1>3, <1>4, <1>5, <1>6, <1>7 DEF Step, Build

\* The approval that takes a target lock is the only one there.
LEMMA LockedDocument ==
  ASSUME AccountInv, Next, NEW p \in Procs, ApproveLockTarget(p), NEW x \in Contents,
         official[job[p].doc][x] > 0
  PROVE  job[p].doc \in Docs /\ Recorded(job[p].doc, x)'
<1> USE DEF AccountInv, DecisionInv, LockInv
<1>1. job[p].doc \in Docs
  BY DEF ApproveLockTarget, TypeInv, CallMatchesPosition, WellFormed
<1>2. targetLock[job[p].doc] = Free
  BY DEF ApproveLockTarget
<1>3. \A q \in Procs : ~(pc[q] = "record" /\ job[q].doc = job[p].doc)
  BY <1>1, <1>2, NamesAssumption DEF LocksMatchPosition, TargetLockHeld, InTargetLock
<1>4. Recorded(job[p].doc, x)
  BY <1>1, <1>3 DEF TextAccounted, Accounted
<1>5. Recorded(job[p].doc, x) => \A d \in Docs : d = job[p].doc => Recorded(d, x)'
  BY RecordedStays
<1>6. UNCHANGED job
  BY DEF ApproveLockTarget
<1>7. QED
  BY <1>1, <1>4, <1>5, <1>6 DEF Recorded, Approved

\* Every step accounts for the text it leaves in a document or takes to write.
LEMMA AccountStep ==
  ASSUME AccountInv, Next
  PROVE  TextAccounted'
<1> USE DEF AccountInv, DecisionInv, LockInv
<1>1. PICK p \in Procs : Start(p) \/ Step(p) \/ Crash(p)
  BY DEF Next
<1>2. Others(p)
  BY <1>1, OthersAsTheyWere
<1>3. \A q \in Procs \ {p} : ~ApproveWriteFails(q)
  BY <1>2 DEF Others, ApproveWriteFails, Goto, TypeInv, TypeOK, LocalTypes
<1>4. ASSUME NEW d \in Docs, NEW x \in Contents, GivesUp(p, d, x)
      PROVE  /\ official'[d][x] > 0 => Accounted(d, x)'
             /\ Held(d, x) => Accounted(d, x)'
  <2>1. CASE text[p][x] > 0
    <3>1. Recorded(d, x)
      BY <1>4, <2>1 DEF GivesUp, TextAccounted, ReadDoc
    <3>2. QED
      BY <3>1, RecordedStays DEF Accounted
  <2>2. CASE ~(text[p][x] > 0)
    <3>1. ~Recognised(d, x, text[p])
      BY <2>2 DEF Recognised
    <3>2. CASE official' = [official EXCEPT ![d] = text[p]] /\ ~Held(d, x)
      BY <2>2, <3>2 DEF TypeInv, TypeOK, FileTypes
    <3>3. CASE ~(official' = [official EXCEPT ![d] = text[p]] /\ ~Held(d, x))
      <4>1. <<d, x>> \in left'
        BY <1>4, <3>1, <3>3 DEF GivesUp, ApproveWriteFails
      <4>2. QED
        BY <4>1 DEF Accounted, Recorded
    <3>4. QED
      BY <3>2, <3>3
  <2>3. QED
    BY <2>1, <2>2
<1>5. ASSUME NEW d \in Docs, NEW x \in Contents, Accounted(d, x), ~GivesUp(p, d, x)
      PROVE  Accounted(d, x)'
  BY <1>3, <1>5, AccountedStays DEF GivesUp
<1>6. ASSUME NEW d \in Docs, NEW x \in Contents, official'[d][x] > 0
      PROVE  Accounted(d, x)'
  <2>1. CASE GivesUp(p, d, x)
    BY <1>4, <1>6, <2>1
  <2>2. CASE official[d][x] > 0 /\ ~GivesUp(p, d, x)
    BY <1>5, <2>2 DEF TextAccounted
  <2>3. CASE ~(official[d][x] > 0) /\ ~GivesUp(p, d, x)
    <3>1. official'[d][x] # official[d][x]
      BY <1>6, <2>3
    <3>2. CASE ApproveAppend(p)
      <4>1. job[p].doc = d /\ job[p].content = x
        BY <3>1, <3>2 DEF ApproveAppend, TypeInv, TypeOK, FileTypes
      <4>2. pc'[p] = "record" /\ job' = job
        BY <3>2 DEF ApproveAppend, Goto, locals, TypeInv, TypeOK, LocalTypes
      <4>3. QED
        BY <4>1, <4>2 DEF Accounted
    <3>3. CASE ApproveWriteFails(p)
      <4>1. /\ pc[p] = "record" /\ job[p].doc = d
            /\ official' = [official EXCEPT ![d] = text[p]]
        BY <3>1, <3>3 DEF ApproveWriteFails, TypeInv, TypeOK, FileTypes
      <4>2. text[p][x] > 0
        BY <1>6, <4>1 DEF TypeInv, TypeOK, FileTypes
      <4>3. Recorded(d, x)
        BY <4>1, <4>2 DEF TextAccounted, ReadDoc
      <4>4. QED
        BY <4>3, RecordedStays DEF Accounted
    <3>4. CASE EditWrite(p)
      <4>1. pc[p] = "editing" /\ official' = [official EXCEPT ![EditedDoc(job[p])] = text[p]]
        BY <3>4 DEF EditWrite
      <4>2. d = EditedDoc(job[p])
        BY <3>1, <4>1 DEF TypeInv, TypeOK, FileTypes
      <4>3. text[p][x] > 0
        BY <1>6, <4>1, <4>2 DEF TypeInv, TypeOK, FileTypes
      <4>4. Accounted(d, x)
        BY <4>1, <4>2, <4>3 DEF TextAccounted
      <4>5. QED
        BY <1>5, <2>3, <4>4
    <3>5. QED
      BY <1>1, <3>1, <3>2, <3>3, <3>4, DocumentWriters
  <2>4. QED
    BY <2>1, <2>2, <2>3
<1>7. ASSUME NEW q \in Procs, pc'[q] = "editing", NEW x \in Contents, text'[q][x] > 0
      PROVE  Accounted(EditedDoc(job[q]), x)'
  <2>1. CASE q = p
    <3>1. EditRead(p) /\ pc[p] = "edit"
      BY <1>1, <1>7, <2>1, EditorsAlone DEF EditRead
    <3>2. text'[p] = Edited(job[p]) /\ job' = job
      BY <1>7, <2>1, <3>1 DEF EditRead, Return, Goto, TypeInv, TypeOK, LocalTypes
    <3>3. /\ EditedDoc(job[p]) \in Docs
          /\ official[EditedDoc(job[p])][x] > 0
      BY <1>7, <2>1, <3>1, <3>2, EditAddsNothing
    <3>4. \A d \in Docs : ~GivesUp(p, d, x)
      BY <3>1 DEF GivesUp
    <3>5. \A d \in Docs : official[d][x] > 0 => Accounted(d, x)'
      BY <1>5, <3>4 DEF TextAccounted
    <3>6. Accounted(EditedDoc(job[p]), x)'
      BY <3>2, <3>3, <3>5 DEF Accounted, Recorded, EditedDoc, Approved
    <3>7. QED
      BY <2>1, <3>6
  <2>2. CASE q # p
    <3>1. pc[q] = "editing" /\ job'[q] = job[q] /\ text'[q] = text[q]
      BY <1>1, <1>2, <1>7, <2>2, EditorsAlone DEF Others
    <3>2. Accounted(EditedDoc(job[q]), x)
      BY <1>7, <3>1 DEF TextAccounted
    <3>3. EditedDoc(job[q]) \in Docs
      BY <3>1 DEF EditedDoc, Docs, TypeInv, CallMatchesPosition, WellFormed
    <3>4. Held(EditedDoc(job[q]), x)
      BY <1>7, <3>1 DEF Held
    <3>5. \A d \in Docs : Accounted(d, x) /\ Held(d, x) => Accounted(d, x)'
      BY <1>4, <1>5
    <3>6. QED
      BY <3>1, <3>2, <3>3, <3>4, <3>5 DEF Accounted, Recorded, EditedDoc, Approved
  <2>3. QED
    BY <2>1, <2>2
<1>8. ASSUME NEW q \in Procs, ReadDoc(q)', NEW x \in Contents, text'[q][x] > 0
      PROVE  Recorded(job[q].doc, x)'
  <2>1. CASE q = p /\ ApproveLockTarget(p)
    <3>1. pc'[p] = "append"
      BY <1>8, <2>1 DEF ReadDoc, ApproveLockTarget, Goto, TypeInv, TypeOK, LocalTypes
    <3>2. text'[p] = official[job[p].doc]
      BY <2>1, <3>1 DEF ApproveLockTarget, Goto, TypeInv, TypeOK, LocalTypes
    <3>3. QED
      BY <1>8, <2>1, <3>2, LockedDocument
  <2>2. CASE ~(q = p /\ ApproveLockTarget(p))
    <3>1. ReadDoc(q) /\ job'[q] = job[q] /\ text'[q] = text[q]
      <4>1. CASE q = p
        BY <1>1, <1>8, <2>2, <4>1, ReadersAlone DEF ApproveAppend, ReadDoc, locals
      <4>2. CASE q # p
        BY <1>1, <1>2, <1>8, <4>2, EditorsAlone DEF Others, ReadDoc
      <4>3. QED
        BY <4>1, <4>2
    <3>2. Recorded(job[q].doc, x)
      BY <1>8, <3>1 DEF TextAccounted
    <3>3. job[q].doc \in Docs
      BY <3>1 DEF ReadDoc, TypeInv, CallMatchesPosition, WellFormed
    <3>4. \A d \in Docs : Recorded(d, x) => Recorded(d, x)'
      BY RecordedStays
    <3>5. QED
      BY <3>1, <3>2, <3>3, <3>4 DEF Recorded, Approved
  <2>3. QED
    BY <2>1, <2>2
<1>9. QED
  BY <1>6, <1>7, <1>8 DEF TextAccounted

\* A step or a stutter keeps all text accounted for.
LEMMA AccountInvStep == AccountInv /\ [Next]_vars => AccountInv'
<1>1. ASSUME AccountInv, Next PROVE AccountInv'
  BY <1>1, DecisionInvStep, AccountStep DEF AccountInv
<1>2. ASSUME AccountInv, UNCHANGED vars PROVE AccountInv'
  <2>1. DecisionInv'
    BY <1>2, DecisionInvStep DEF AccountInv
  <2>2. UNCHANGED <<decisions, official, pc, job, text, left>>
    BY <1>2 DEF vars, documents, locals, faults
  <2>3. TextAccounted'
    BY <1>2, <2>2 DEF AccountInv, TextAccounted, Accounted, Recorded, EditedDoc, ReadDoc
  <2>4. QED
    BY <2>1, <2>3 DEF AccountInv
<1>3. QED
  BY <1>1, <1>2

\* Only text somebody approved is official, whatever editors, the retention
\* pass, resets, deaths and failing writes do: an approval whose decision cannot
\* be written takes its text back.  (When every project has a state file before
\* its first hook, as for DecisionsAreFinal.)
THEOREM OnlyApprovedIsOfficial ==
  ASSUME FreshProjects = {}
  PROVE  Spec => []OfficialIsApproved
<1>1. Init => AccountInv
  <2>1. Init => SnapshotCurrent
    BY DEF Init, SnapshotCurrent
  <2>2. Init => TextAccounted
    BY DEF Init, TextAccounted, EmptyText, ReadDoc
  <2>3. QED
    BY <2>1, <2>2, InitTypeInv, InitLocks DEF AccountInv, DecisionInv, LockInv
<1>2. AccountInv => OfficialIsApproved
  BY DEF AccountInv, TextAccounted, Accounted, Recorded, OfficialIsApproved
<1>3. QED
  BY <1>1, <1>2, AccountInvStep, PTL DEF Spec

=============================================================================
