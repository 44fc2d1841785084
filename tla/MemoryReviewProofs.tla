------------------------- MODULE MemoryReviewProofs -------------------------
(***************************************************************************)
(* Proofs about MemoryReview, for every set of processes, projects,        *)
(* candidates, texts and calls.                                            *)
(***************************************************************************)
EXTENDS MemoryReview, TLAPS

\* What a call carries, by its kind (the assumption on Calls, for one call).
WellFormed(k) ==
  /\ k \in CallType
  /\ k.kind \in {"propose", "approve", "reject", "defer", "reset"} => k.cand \in Cands
  /\ k.kind = "approve" => k.doc \in Docs /\ k.content \in Contents
  /\ k.kind = "edit" => k.doc \in Docs /\ k.content \in Contents
  /\ k.kind = "propose" => k.agent \in Agents

\* The call a process executes at each label.
CallMatchesPosition ==
  \A p \in Procs :
    /\ pc[p] # "idle" => WellFormed(job[p])
    /\ pc[p] \in {"propose", "proposing", "proposed"} => job[p].kind = "propose"
    /\ pc[p] \in {"approve", "approve_target", "append", "record", "unlock_target"}
         => job[p].kind = "approve"
    /\ pc[p] \in {"mutate", "mutating"}
         => /\ job[p].kind \in {"reject", "defer", "reset", "remind", "noise"}
            /\ job[p].kind # "remind" => job[p].cand \in Cands
    /\ pc[p] \in {"edit", "editing"} => job[p].kind \in {"edit", "prune"}

-----------------------------------------------------------------------------
\* Facts about the data.

\* Every verdict, and every approval of a text into a document, is a decision.
LEMMA DecisionTypes ==
  /\ Undecided \in Decisions /\ Rejected \in Decisions
  /\ Deferred \in Decisions /\ Quarantined \in Decisions
  /\ \A d \in Docs, x \in Contents : Approved(d, x) \in Decisions
  /\ \A r \in Decisions : r.status \in Statuses
BY DEF Decisions, Undecided, Rejected, Deferred, Quarantined, Approved, Statuses

\* A call names its project and kind, and keeps its shape when the noise
\* clean-up moves on to its next candidate.
LEMMA CallTypes ==
  ASSUME NEW k \in CallType
  PROVE  /\ k.kind \in Kinds /\ k.proj \in Projects
         /\ \A c \in Cands : /\ [k EXCEPT !.cand = c] \in CallType
                             /\ [k EXCEPT !.cand = c].kind = k.kind
                             /\ [k EXCEPT !.cand = c].proj = k.proj
                             /\ [k EXCEPT !.cand = c].cand = c
BY DEF CallType

\* The calls that are made are well formed.
LEMMA CallsWellFormed == \A k \in Calls : WellFormed(k)
BY CallsAssumption, ConstantsAssumption DEF WellFormed

\* An append below the bound keeps the copies of every text in bounds.
LEMMA OneMoreCopy ==
  ASSUME NEW f \in [Docs -> [Contents -> 0 .. MaxCopies]],
         NEW d \in Docs, NEW x \in Contents, f[d][x] < MaxCopies
  PROVE  [f EXCEPT ![d][x] = @ + 1] \in [Docs -> [Contents -> 0 .. MaxCopies]]
BY ConstantsAssumption

\* What a build puts into its view is a status for every candidate.
LEMMA ViewTypes ==
  ASSUME NEW items \in [Cands -> Statuses], NEW ds \in [Cands -> Decisions]
  PROVE  WithStatus(items, ds) \in [Cands -> Statuses]
BY DecisionTypes DEF WithStatus, Statuses

\* What is proposed is a queue in which every item is pending or absent.
LEMMA ItemsType ==
  ASSUME NEW j \in Projects
  PROVE  Items(j) \in [Cands -> Statuses]
BY DEF Items, Statuses

-----------------------------------------------------------------------------
\* Type correctness: TypeOK is inductive together with CallMatchesPosition.

TypeInv == TypeOK /\ CallMatchesPosition

\* The initial state is well typed and runs no call.
LEMMA InitTypeInv == Init => TypeInv
<1> SUFFICES ASSUME Init PROVE TypeInv
  OBVIOUS
<1>1. TypeOK
  <2>1. /\ proposals \in [Cands -> SUBSET Agents]
        /\ stateFile \in [Projects -> BOOLEAN]
        /\ pc \in [Procs -> Labels]
        /\ job \in [Procs -> CallType \cup {NONE}]
        /\ stage \in [Procs -> {"look", "settle", "failed"}]
        /\ rest \in [Procs -> SUBSET Cands]
        /\ draft \in [Procs -> [Cands -> SUBSET Agents]]
    BY DEF Init, EmptyDraft, Labels
  <2>2. /\ decisions \in [Projects -> [Cands -> Decisions]]
        /\ state \in [Procs -> [Cands -> Decisions]]
    BY DecisionTypes DEF Init, NoDecisions
  <2>3. /\ official \in [Docs -> [Contents -> 0 .. MaxCopies]]
        /\ text \in [Procs -> [Contents -> 0 .. MaxCopies]]
        /\ crashes \in 0 .. MaxCrashes
        /\ failures \in 0 .. MaxWriteFailures
    <3>1. 0 \in 0 .. MaxCopies /\ 0 \in 0 .. MaxCrashes /\ 0 \in 0 .. MaxWriteFailures
      BY ConstantsAssumption
    <3>2. EmptyText \in [Contents -> 0 .. MaxCopies]
      BY <3>1 DEF EmptyText
    <3>3. QED
      BY <3>1, <3>2 DEF Init
  <2>4. /\ queue \in [Projects -> [Cands -> Statuses]]
        /\ view \in [Procs -> [Cands -> Statuses]]
    BY ItemsType DEF Init, EmptyQueue, Statuses
  <2>5. /\ queueLock \in [Projects -> Procs \cup {Free}]
        /\ stateLock \in [Projects -> Procs \cup {Free, Stale}]
        /\ targetLock \in [Docs -> Procs \cup {Free, Stale}]
        /\ proposalLock \in [Stores -> Procs \cup {Free, Stale}]
    BY DEF Init
  <2>6. aborted \in BOOLEAN /\ left \subseteq Docs \X Contents
    BY DEF Init
  <2>7. QED
    BY <2>1, <2>2, <2>3, <2>4, <2>5, <2>6 DEF TypeOK, FileTypes, LockTypes, LocalTypes, FaultTypes
<1>2. CallMatchesPosition
  BY DEF Init, CallMatchesPosition
<1>3. QED
  BY <1>1, <1>2 DEF TypeInv

\* Zero copies are within the bound.
LEMMA Zero == 0 \in 0 .. MaxCopies
BY ConstantsAssumption

\* The values local variables are cleared to have their types.
LEMMA EmptyTypes ==
  /\ EmptyText \in [Contents -> 0 .. MaxCopies]
  /\ EmptyDraft \in [Cands -> SUBSET Agents]
  /\ EmptyQueue \in [Cands -> Statuses]
  /\ NoDecisions \in [Cands -> Decisions]
<1>1. EmptyText \in [Contents -> 0 .. MaxCopies]
  BY Zero DEF EmptyText
<1>2. NoDecisions \in [Cands -> Decisions]
  BY DecisionTypes DEF NoDecisions
<1>3. QED
  BY <1>1, <1>2 DEF EmptyDraft, EmptyQueue, Statuses

\* What a decision has placed is a text in a document.
LEMMA PlacedTypes ==
  ASSUME NEW r \in Decisions
  PROVE  Placed(r) \subseteq Docs \X Contents
BY DEF Placed, Decisions, Undecided, Rejected, Deferred, Quarantined

\* Returning clears the local variables to values of their types.
LEMMA ReturnTypes ==
  ASSUME NEW p \in Procs, LocalTypes, Return(p)
  PROVE  LocalTypes'
BY EmptyTypes DEF Return, Goto, LocalTypes, Labels

\* The document a submission is about to write is one.
LEMMA MergedType ==
  ASSUME FileTypes, NEW k, k.agent \in Agents
  PROVE  Merged(k) \in [Cands -> SUBSET Agents]
BY DEF Merged, FileTypes

\* The document an edit or the retention pass is about to write is one.
LEMMA EditedType ==
  ASSUME FileTypes, NEW k, WellFormed(k), k.kind \in {"edit", "prune"}
  PROVE  Edited(k) \in [Contents -> 0 .. MaxCopies] /\ EditedDoc(k) \in Docs
<1>1. PERSONAL_SHORT \in Docs
  BY DEF Docs
<1>2. CASE k.kind = "edit"
  <2>1. k.doc \in Docs /\ k.content \in Contents
    BY <1>2 DEF WellFormed
  <2>2. official[k.doc] \in [Contents -> 0 .. MaxCopies]
    BY <2>1 DEF FileTypes
  <2>3. \A n \in 0 .. MaxCopies : (IF n = 0 THEN 0 ELSE n - 1) \in 0 .. MaxCopies
    BY ConstantsAssumption
  <2>4. QED
    BY <1>2, <2>1, <2>2, <2>3 DEF Edited, EditedDoc
<1>3. CASE k.kind # "edit"
  BY <1>1, <1>3, Zero DEF Edited, EditedDoc, FileTypes
<1>4. QED
  BY <1>2, <1>3

\* What a mutation of the state file decides is a decision.
LEMMA VerdictTypes == \A kind : Verdict(kind) \in Decisions
BY DecisionTypes DEF Verdict

\* Every step of a call keeps the types, one action at a time.
LEMMA TypeStep ==
  ASSUME TypeInv, Next
  PROVE  TypeOK'
<1> USE DEF TypeInv, TypeOK
<1>1. ASSUME NEW p \in Procs, Start(p) PROVE TypeOK'
  <2>1. FileTypes' /\ LockTypes' /\ FaultTypes'
    BY <1>1 DEF Start, FileTypes, LockTypes, FaultTypes, documents, locks, faults
  <2>2. PICK k \in Calls :
          /\ job' = [job EXCEPT ![p] = k]
          /\ stage' = [stage EXCEPT ![p] = IF k.kind \in {"approve", "noise"}
                                              THEN "look" ELSE "settle"]
          /\ Goto(p, FirstLabel(k.kind))
    BY <1>1 DEF Start
  <2>3. k \in CallType /\ k.kind \in Kinds
    BY CallsAssumption, CallTypes
  <2>4. FirstLabel(k.kind) \in Labels
    BY <2>3 DEF FirstLabel, Kinds, Labels
  <2>5. LocalTypes'
    BY <1>1, <2>2, <2>3, <2>4 DEF Start, Goto, LocalTypes
  <2>6. QED
    BY <2>1, <2>5
<1>2. ASSUME NEW p \in Procs, BuildLock(p) PROVE TypeOK'
  BY <1>2, CallTypes, ConstantsAssumption, ItemsType
  DEF BuildLock, Goto, FileTypes, LockTypes, LocalTypes, FaultTypes, Labels,
      CallMatchesPosition, WellFormed, documents, locks, locals, faults
<1>3. ASSUME NEW p \in Procs, BuildReadState(p) PROVE TypeOK'
  <2>1. job[p].proj \in Projects
    BY <1>3, CallTypes DEF BuildReadState, CallMatchesPosition, WellFormed
  <2>2. view[p] \in [Cands -> Statuses] /\ decisions[job[p].proj] \in [Cands -> Decisions]
    BY <2>1 DEF FileTypes, LocalTypes
  <2>3. WithStatus(view[p], decisions[job[p].proj]) \in [Cands -> Statuses]
    BY <2>2, ViewTypes
  <2>4. FileTypes' /\ FaultTypes'
    BY <1>3, <2>1 DEF BuildReadState, FileTypes, FaultTypes, faults
  <2>5. LockTypes'
    BY <1>3, <2>1 DEF BuildReadState, LockTypes
  <2>6. LocalTypes'
    BY <1>3, <2>3 DEF BuildReadState, Goto, LocalTypes, Labels
  <2>7. QED
    BY <2>4, <2>5, <2>6
<1>4. ASSUME NEW p \in Procs, BuildUnlockState(p) PROVE TypeOK'
  BY <1>4, CallTypes, ConstantsAssumption
  DEF BuildUnlockState, Goto, FileTypes, LockTypes, LocalTypes, FaultTypes, Labels,
      CallMatchesPosition, WellFormed, documents, locks, locals, faults
<1>5. ASSUME NEW p \in Procs, BuildThenReturn(p) PROVE TypeOK'
  <2>1. FileTypes' /\ LockTypes' /\ FaultTypes'
    BY <1>5, CallTypes, ConstantsAssumption
    DEF BuildThenReturn, Publish, FileTypes, LockTypes, LocalTypes, FaultTypes,
        CallMatchesPosition, WellFormed, documents, locks, faults
  <2>2. LocalTypes'
    BY <1>5, ReturnTypes DEF BuildThenReturn
  <2>3. QED
    BY <2>1, <2>2
<1>6. ASSUME NEW p \in Procs, BuildThenApprove(p) PROVE TypeOK'
  <2>1. FileTypes' /\ LockTypes' /\ FaultTypes'
    BY <1>6, CallTypes DEF BuildThenApprove, Publish, FileTypes, LockTypes, LocalTypes,
       FaultTypes, CallMatchesPosition, WellFormed, faults
  <2>2. LocalTypes'
    BY <1>6, EmptyTypes DEF BuildThenApprove, Goto, LocalTypes, Labels
  <2>3. QED
    BY <2>1, <2>2
<1>7. ASSUME NEW p \in Procs, BuildThenNoise(p) PROVE TypeOK'
  <2>1. FileTypes' /\ LockTypes' /\ FaultTypes'
    BY <1>7, CallTypes DEF BuildThenNoise, Publish, FileTypes, LockTypes, LocalTypes,
       FaultTypes, CallMatchesPosition, WellFormed, faults
  <2>2. job[p] \in CallType
    BY <1>7 DEF BuildThenNoise, Publish, CallMatchesPosition, WellFormed
  <2>3. PICK c \in NoiseLeft(p) : /\ job' = [job EXCEPT ![p].cand = c]
                                  /\ rest' = [rest EXCEPT ![p] = NoiseLeft(p) \ {c}]
    BY <1>7 DEF BuildThenNoise
  <2>4. NoiseLeft(p) \subseteq Cands
    BY ConstantsAssumption DEF NoiseLeft, LocalTypes
  <2>5. [job[p] EXCEPT !.cand = c] \in CallType
    BY <2>2, <2>4, CallTypes
  <2>6. LocalTypes'
    BY <1>7, <2>3, <2>4, <2>5, EmptyTypes DEF BuildThenNoise, Goto, LocalTypes, Labels
  <2>7. QED
    BY <2>1, <2>6
<1>8. ASSUME NEW p \in Procs, ProposeLock(p) PROVE TypeOK'
  <2>1. WellFormed(job[p]) /\ job[p].kind = "propose"
    BY <1>8 DEF ProposeLock, CallMatchesPosition
  <2>2. FileTypes' /\ LockTypes' /\ FaultTypes'
    BY <1>8, <2>1, ConstantsAssumption
    DEF ProposeLock, FileTypes, LockTypes, FaultTypes, documents, faults, WellFormed
  <2>3. Merged(job[p]) \in [Cands -> SUBSET Agents]
    BY <2>1, MergedType DEF WellFormed
  <2>4. LocalTypes'
    BY <1>8, <2>3 DEF ProposeLock, Goto, LocalTypes, Labels
  <2>5. QED
    BY <2>2, <2>4
<1>9. ASSUME NEW p \in Procs, ProposeWrite(p) PROVE TypeOK'
  BY <1>9, CallTypes, ConstantsAssumption, EmptyTypes
  DEF ProposeWrite, Goto, FileTypes, LockTypes, LocalTypes, FaultTypes, Labels,
      CallMatchesPosition, WellFormed, documents, locks, locals, faults
<1>10. ASSUME NEW p \in Procs, ProposeUnlock(p) PROVE TypeOK'
  BY <1>10, CallTypes, ConstantsAssumption
  DEF ProposeUnlock, Goto, FileTypes, LockTypes, LocalTypes, FaultTypes, Labels,
      CallMatchesPosition, WellFormed, documents, locks, locals, faults
<1>11. ASSUME NEW p \in Procs, ApproveLockState(p) PROVE TypeOK'
  BY <1>11, CallTypes, ConstantsAssumption
  DEF ApproveLockState, Goto, FileTypes, LockTypes, LocalTypes, FaultTypes, Labels,
      CallMatchesPosition, WellFormed, documents, locks, locals, faults
<1>12. ASSUME NEW p \in Procs, ApproveLockTarget(p) PROVE TypeOK'
  <2>1. WellFormed(job[p]) /\ job[p].kind = "approve"
    BY <1>12 DEF ApproveLockTarget, CallMatchesPosition
  <2>2. job[p].proj \in Projects /\ job[p].doc \in Docs
    BY <2>1, CallTypes DEF WellFormed
  <2>3. FileTypes' /\ LockTypes' /\ FaultTypes'
    BY <1>12, <2>2 DEF ApproveLockTarget, FileTypes, LockTypes, FaultTypes, faults
  <2>4. /\ decisions[job[p].proj] \in [Cands -> Decisions]
        /\ official[job[p].doc] \in [Contents -> 0 .. MaxCopies]
    BY <2>2 DEF FileTypes
  <2>5. LocalTypes'
    <3>1. pc' \in [Procs -> Labels] /\ stage' \in [Procs -> {"look", "settle", "last", "failed"}]
      BY <1>12 DEF ApproveLockTarget, Goto, LocalTypes, Labels
    <3>2. state' \in [Procs -> [Cands -> Decisions]]
      BY <1>12, <2>4 DEF ApproveLockTarget, LocalTypes
    <3>3. text' \in [Procs -> [Contents -> 0 .. MaxCopies]]
      BY <1>12, <2>4 DEF ApproveLockTarget, LocalTypes
    <3>4. QED
      BY <1>12, <3>1, <3>2, <3>3 DEF ApproveLockTarget, LocalTypes
  <2>6. QED
    BY <2>3, <2>5
<1>13. ASSUME NEW p \in Procs, ApproveAppend(p) PROVE TypeOK'
  <2>1. job[p].doc \in Docs /\ job[p].content \in Contents
    BY <1>13 DEF ApproveAppend, CallMatchesPosition, WellFormed
  <2>2. official \in [Docs -> [Contents -> 0 .. MaxCopies]]
    BY DEF FileTypes
  <2>3. official' \in [Docs -> [Contents -> 0 .. MaxCopies]]
    <3>1. CASE UNCHANGED official
      BY <2>2, <3>1
    <3>2. CASE /\ official[job[p].doc][job[p].content] < MaxCopies
               /\ official' = [official EXCEPT ![job[p].doc][job[p].content] = @ + 1]
      BY <2>1, <2>2, <3>2, OneMoreCopy
    <3>3. QED
      BY <1>13, <3>1, <3>2 DEF ApproveAppend
  <2>4. FileTypes' /\ LockTypes' /\ LocalTypes' /\ FaultTypes'
    BY <1>13, <2>3 DEF ApproveAppend, Goto, FileTypes, LockTypes, LocalTypes, FaultTypes,
       Labels, locks, locals, faults
  <2>5. QED
    BY <2>4
<1>14. ASSUME NEW p \in Procs, ApproveRecord(p) PROVE TypeOK'
  BY <1>14, CallTypes, ConstantsAssumption, DecisionTypes
  DEF ApproveRecord, Goto, FileTypes, LockTypes, LocalTypes, FaultTypes, Labels,
      CallMatchesPosition, WellFormed, documents, locks, locals, faults
<1>15. ASSUME NEW p \in Procs, ApproveWriteFails(p) PROVE TypeOK'
  <2>1. job[p].doc \in Docs /\ job[p].content \in Contents
    BY <1>15, CallTypes DEF ApproveWriteFails, CallMatchesPosition, WellFormed
  <2>2. official' \in [Docs -> [Contents -> 0 .. MaxCopies]]
    BY <1>15, <2>1 DEF ApproveWriteFails, FileTypes, LocalTypes
  <2>3. left' \subseteq left \cup {<<job[p].doc, job[p].content>>}
    BY <1>15 DEF ApproveWriteFails
  <2>4. left' \subseteq Docs \X Contents
    BY <2>1, <2>3 DEF FaultTypes
  <2>5. FileTypes' /\ LockTypes' /\ LocalTypes' /\ FaultTypes'
    BY <1>15, <2>2, <2>4, ConstantsAssumption DEF ApproveWriteFails, Goto, FileTypes, LockTypes,
       LocalTypes, FaultTypes, Labels, locks
  <2>6. QED
    BY <2>5
<1>16. ASSUME NEW p \in Procs, ApproveUnlockTarget(p) PROVE TypeOK'
  BY <1>16, CallTypes, ConstantsAssumption
  DEF ApproveUnlockTarget, Goto, FileTypes, LockTypes, LocalTypes, FaultTypes, Labels,
      CallMatchesPosition, WellFormed, documents, locks, locals, faults
<1>17. ASSUME NEW p \in Procs, MutateLock(p) PROVE TypeOK'
  BY <1>17, CallTypes, ConstantsAssumption
  DEF MutateLock, Goto, FileTypes, LockTypes, LocalTypes, FaultTypes, Labels,
      CallMatchesPosition, WellFormed, documents, locks, locals, faults
<1>18. ASSUME NEW p \in Procs, MutateWrite(p) PROVE TypeOK'
  <2>1. job[p].proj \in Projects /\ (job[p].kind # "remind" => job[p].cand \in Cands)
    BY <1>18, CallTypes DEF MutateWrite, CallMatchesPosition, WellFormed
  <2>2. decisions' \in [Projects -> [Cands -> Decisions]]
    <3>1. CASE Changes(p)
      <4> DEFINE new == IF job[p].kind = "remind" THEN state[p]
                        ELSE [state[p] EXCEPT ![job[p].cand] = Verdict(job[p].kind)]
      <4>1. decisions' = [decisions EXCEPT ![job[p].proj] = new]
        BY <1>18, <3>1 DEF MutateWrite
      <4>2. new \in [Cands -> Decisions]
        BY <2>1, VerdictTypes DEF LocalTypes
      <4>3. QED
        BY <4>1, <4>2 DEF FileTypes
    <3>2. CASE ~Changes(p)
      BY <1>18, <3>2 DEF MutateWrite, FileTypes
    <3>3. QED
      BY <3>1, <3>2
  <2>3. left' \subseteq Docs \X Contents
    <3>1. job[p].kind = "reset" => Placed(state[p][job[p].cand]) \subseteq Docs \X Contents
      BY <2>1, PlacedTypes DEF LocalTypes
    <3>2. QED
      BY <1>18, <3>1 DEF MutateWrite, FaultTypes
  <2>4. FileTypes' /\ LockTypes' /\ LocalTypes' /\ FaultTypes'
    BY <1>18, <2>1, <2>2, <2>3 DEF MutateWrite, Goto, FileTypes, LockTypes, LocalTypes, FaultTypes,
       Labels, locks
  <2>5. QED
    BY <2>4
<1>19. ASSUME NEW p \in Procs, MutateFails(p) PROVE TypeOK'
  BY <1>19, CallTypes, ConstantsAssumption
  DEF MutateFails, Goto, FileTypes, LockTypes, LocalTypes, FaultTypes, Labels,
      CallMatchesPosition, WellFormed, documents, locks, locals, faults
<1>20. ASSUME NEW p \in Procs, UnlockStateThenReturn(p) PROVE TypeOK'
  <2>1. FileTypes' /\ LockTypes' /\ FaultTypes'
    BY <1>20, CallTypes, ConstantsAssumption
    DEF UnlockStateThenReturn, FileTypes, LockTypes, LocalTypes, FaultTypes,
        CallMatchesPosition, WellFormed, documents, locks, faults
  <2>2. LocalTypes'
    BY <1>20, ReturnTypes DEF UnlockStateThenReturn
  <2>3. QED
    BY <2>1, <2>2
<1>21. ASSUME NEW p \in Procs, UnlockStateThenBuild(p) PROVE TypeOK'
  BY <1>21, CallTypes, ConstantsAssumption, EmptyTypes
  DEF UnlockStateThenBuild, Goto, FileTypes, LockTypes, LocalTypes, FaultTypes, Labels,
      CallMatchesPosition, WellFormed, documents, locks, locals, faults
<1>22. ASSUME NEW p \in Procs, EditRead(p) PROVE TypeOK'
  <2>1. WellFormed(job[p]) /\ job[p].kind \in {"edit", "prune"}
    BY <1>22 DEF EditRead, CallMatchesPosition
  <2>2. FileTypes' /\ LockTypes' /\ FaultTypes'
    BY <1>22 DEF EditRead, FileTypes, LockTypes, FaultTypes, documents, locks, faults
  <2>3. CASE Return(p)
    BY <2>2, <2>3, ReturnTypes
  <2>4. CASE /\ text' = [text EXCEPT ![p] = Edited(job[p])]
             /\ Goto(p, "editing")
             /\ UNCHANGED <<job, stage, rest, view, state, draft>>
    <3>1. LocalTypes'
      BY <2>1, <2>4, EditedType DEF Goto, LocalTypes, Labels
    <3>2. QED
      BY <2>2, <3>1
  <2>5. QED
    BY <1>22, <2>3, <2>4 DEF EditRead
<1>23. ASSUME NEW p \in Procs, EditWrite(p) PROVE TypeOK'
  <2>1. WellFormed(job[p]) /\ job[p].kind \in {"edit", "prune"}
    BY <1>23 DEF EditWrite, CallMatchesPosition
  <2>2. FileTypes' /\ LockTypes' /\ FaultTypes'
    BY <1>23, <2>1, EditedType
    DEF EditWrite, FileTypes, LockTypes, LocalTypes, FaultTypes, locks, faults
  <2>3. LocalTypes'
    BY <1>23, ReturnTypes DEF EditWrite
  <2>4. QED
    BY <2>2, <2>3
<1>24. ASSUME NEW p \in Procs, HookReadPersonal(p) PROVE TypeOK'
  BY <1>24 DEF HookReadPersonal, Goto, FileTypes, LockTypes, LocalTypes, FaultTypes,
     Labels, Statuses, documents, locks, faults
<1>25. ASSUME NEW p \in Procs, HookLock(p) PROVE TypeOK'
  <2> DEFINE j == job[p].proj
             items == [c \in Cands |-> IF Store[c] = j THEN Items(j)[c] ELSE view[p][c]]
  <2>1. j \in Projects
    BY <1>25, CallTypes DEF HookLock, CallMatchesPosition, WellFormed
  <2>2. FileTypes' /\ LockTypes' /\ FaultTypes'
    BY <1>25, <2>1 DEF HookLock, FileTypes, LockTypes, FaultTypes, documents, faults
  <2>3. items \in [Cands -> Statuses]
    BY <2>1, ItemsType DEF LocalTypes
  <2>4. decisions[j] \in [Cands -> Decisions]
    BY <2>1 DEF FileTypes
  <2>5. WithStatus(items, decisions[j]) \in [Cands -> Statuses]
    BY <2>3, <2>4, ViewTypes
  <2>6. LocalTypes'
    BY <1>25, <2>5 DEF HookLock, Goto, LocalTypes, Labels
  <2>7. QED
    BY <2>2, <2>6
<1>26. ASSUME NEW p \in Procs, HookDefault(p) PROVE TypeOK'
  <2>1. job[p].proj \in Projects
    BY <1>26, CallTypes DEF HookDefault, CallMatchesPosition, WellFormed
  <2>2. \A c \in Cands : Placed(decisions[job[p].proj][c]) \subseteq Docs \X Contents
    BY <2>1, PlacedTypes DEF FileTypes
  <2>3. left' \subseteq Docs \X Contents
    BY <1>26, <2>2 DEF HookDefault, FaultTypes
  <2>4. QED
    BY <1>26, <2>3, EmptyTypes DEF HookDefault, Goto, FileTypes, LockTypes, LocalTypes, FaultTypes,
       Labels, locks, locals
<1>27. ASSUME NEW p \in Procs, HookPublish(p) PROVE TypeOK'
  <2>1. FileTypes' /\ LockTypes' /\ FaultTypes'
    BY <1>27, CallTypes, ConstantsAssumption
    DEF HookPublish, FileTypes, LockTypes, LocalTypes, FaultTypes,
        CallMatchesPosition, WellFormed, documents, locks, faults
  <2>2. LocalTypes'
    BY <1>27, ReturnTypes DEF HookPublish
  <2>3. QED
    BY <2>1, <2>2
<1>28. ASSUME NEW p \in Procs, HookKilled(p) PROVE TypeOK'
  <2>1. FileTypes' /\ LockTypes' /\ FaultTypes'
    BY <1>28, CallTypes, ConstantsAssumption
    DEF HookKilled, FileTypes, LockTypes, LocalTypes, FaultTypes,
        CallMatchesPosition, WellFormed, documents, locks, faults
  <2>2. LocalTypes'
    BY <1>28, ReturnTypes DEF HookKilled
  <2>3. QED
    BY <2>1, <2>2
<1>29. ASSUME NEW p \in Procs, Timeout(p) PROVE TypeOK'
  <2>1. FileTypes' /\ LockTypes' /\ FaultTypes'
    BY <1>29, CallTypes, ConstantsAssumption
    DEF Timeout, FileTypes, LockTypes, LocalTypes, FaultTypes,
        CallMatchesPosition, WellFormed, Without, Abandoned, documents, locks, faults
  <2>2. LocalTypes'
    BY <1>29, ReturnTypes DEF Timeout
  <2>3. QED
    BY <2>1, <2>2
<1>30. ASSUME NEW p \in Procs, Crash(p) PROVE TypeOK'
  <2>1. FileTypes' /\ LockTypes' /\ FaultTypes'
    BY <1>30, CallTypes, ConstantsAssumption
    DEF Crash, FileTypes, LockTypes, LocalTypes, FaultTypes,
        CallMatchesPosition, WellFormed, Without, Abandoned, documents, locks, faults
  <2>2. LocalTypes'
    BY <1>30, ReturnTypes DEF Crash
  <2>3. QED
    BY <2>1, <2>2
<1>31. QED
  BY <1>1, <1>2, <1>3, <1>4, <1>5, <1>6, <1>7, <1>8, <1>9, <1>10, <1>11,
     <1>12, <1>13, <1>14, <1>15, <1>16, <1>17, <1>18, <1>19, <1>20, <1>21,
     <1>22, <1>23, <1>24, <1>25, <1>26, <1>27, <1>28, <1>29, <1>30
  DEF Next, Step, Build, Propose, Approve, Mutate, Edit, Hook

\* Every step leaves each call at a label of its kind.
LEMMA CallStep ==
  ASSUME TypeInv, Next
  PROVE  CallMatchesPosition'
<1> USE DEF TypeInv, TypeOK
<1>1. ASSUME NEW p \in Procs, Start(p) PROVE CallMatchesPosition'
  <2>1. PICK k \in Calls :
          /\ job' = [job EXCEPT ![p] = k]
          /\ Goto(p, FirstLabel(k.kind))
    BY <1>1 DEF Start
  <2>2. WellFormed(k) /\ k.kind \in Kinds
    BY CallsWellFormed, CallTypes DEF WellFormed
  <2>3. QED
    BY <2>1, <2>2 DEF Goto, FirstLabel, Kinds, LocalTypes, CallMatchesPosition, WellFormed
<1>2. ASSUME NEW p \in Procs, BuildLock(p) PROVE CallMatchesPosition'
  BY <1>2
  DEF BuildLock, Goto, LocalTypes, CallMatchesPosition, WellFormed, locals
<1>3. ASSUME NEW p \in Procs, BuildReadState(p) PROVE CallMatchesPosition'
  BY <1>3
  DEF BuildReadState, Goto, LocalTypes, CallMatchesPosition, WellFormed, locals
<1>4. ASSUME NEW p \in Procs, BuildUnlockState(p) PROVE CallMatchesPosition'
  BY <1>4
  DEF BuildUnlockState, Goto, LocalTypes, CallMatchesPosition, WellFormed,
      locals
<1>5. ASSUME NEW p \in Procs, BuildThenReturn(p) PROVE CallMatchesPosition'
  BY <1>5
  DEF BuildThenReturn, Return, Goto, LocalTypes, CallMatchesPosition, WellFormed
<1>6. ASSUME NEW p \in Procs, BuildThenApprove(p) PROVE CallMatchesPosition'
  BY <1>6
  DEF BuildThenApprove, Publish, Goto, LocalTypes, CallMatchesPosition,
      WellFormed, locals
<1>7. ASSUME NEW p \in Procs, BuildThenNoise(p) PROVE CallMatchesPosition'
  <2>1. WellFormed(job[p]) /\ job[p].kind = "noise"
    BY <1>7 DEF BuildThenNoise, Publish, CallMatchesPosition
  <2>2. PICK c \in NoiseLeft(p) : job' = [job EXCEPT ![p].cand = c]
    BY <1>7 DEF BuildThenNoise
  <2>3. c \in Cands
    BY ConstantsAssumption DEF NoiseLeft, LocalTypes
  <2>4. [job[p] EXCEPT !.cand = c] \in CallType
        /\ [job[p] EXCEPT !.cand = c].kind = "noise"
        /\ [job[p] EXCEPT !.cand = c].cand = c
    BY <2>1, <2>3, CallTypes DEF WellFormed
  <2>5. QED
    BY <1>7, <2>2, <2>3, <2>4
    DEF BuildThenNoise, Goto, LocalTypes, CallMatchesPosition, WellFormed
<1>8. ASSUME NEW p \in Procs, ProposeLock(p) PROVE CallMatchesPosition'
  BY <1>8
  DEF ProposeLock, Goto, LocalTypes, CallMatchesPosition, WellFormed, locals
<1>9. ASSUME NEW p \in Procs, ProposeWrite(p) PROVE CallMatchesPosition'
  BY <1>9
  DEF ProposeWrite, Goto, LocalTypes, CallMatchesPosition, WellFormed, locals
<1>10. ASSUME NEW p \in Procs, ProposeUnlock(p) PROVE CallMatchesPosition'
  BY <1>10
  DEF ProposeUnlock, Goto, LocalTypes, CallMatchesPosition, WellFormed, locals
<1>11. ASSUME NEW p \in Procs, ApproveLockState(p) PROVE CallMatchesPosition'
  BY <1>11
  DEF ApproveLockState, Goto, LocalTypes, CallMatchesPosition, WellFormed,
      locals
<1>12. ASSUME NEW p \in Procs, ApproveLockTarget(p) PROVE CallMatchesPosition'
  BY <1>12
  DEF ApproveLockTarget, Goto, LocalTypes, CallMatchesPosition, WellFormed,
      locals
<1>13. ASSUME NEW p \in Procs, ApproveAppend(p) PROVE CallMatchesPosition'
  BY <1>13
  DEF ApproveAppend, Goto, LocalTypes, CallMatchesPosition, WellFormed, locals
<1>14. ASSUME NEW p \in Procs, ApproveRecord(p) PROVE CallMatchesPosition'
  BY <1>14
  DEF ApproveRecord, Goto, LocalTypes, CallMatchesPosition, WellFormed, locals
<1>15. ASSUME NEW p \in Procs, ApproveWriteFails(p) PROVE CallMatchesPosition'
  BY <1>15
  DEF ApproveWriteFails, Goto, LocalTypes, CallMatchesPosition, WellFormed,
      locals
<1>16. ASSUME NEW p \in Procs, ApproveUnlockTarget(p) PROVE CallMatchesPosition'
  BY <1>16
  DEF ApproveUnlockTarget, Goto, LocalTypes, CallMatchesPosition, WellFormed,
      locals
<1>17. ASSUME NEW p \in Procs, MutateLock(p) PROVE CallMatchesPosition'
  BY <1>17
  DEF MutateLock, Goto, LocalTypes, CallMatchesPosition, WellFormed, locals
<1>18. ASSUME NEW p \in Procs, MutateWrite(p) PROVE CallMatchesPosition'
  BY <1>18
  DEF MutateWrite, Goto, LocalTypes, CallMatchesPosition, WellFormed, locals
<1>19. ASSUME NEW p \in Procs, MutateFails(p) PROVE CallMatchesPosition'
  BY <1>19
  DEF MutateFails, Goto, LocalTypes, CallMatchesPosition, WellFormed, locals
<1>20. ASSUME NEW p \in Procs, UnlockStateThenReturn(p) PROVE CallMatchesPosition'
  BY <1>20
  DEF UnlockStateThenReturn, Return, Goto, LocalTypes, CallMatchesPosition,
      WellFormed
<1>21. ASSUME NEW p \in Procs, UnlockStateThenBuild(p) PROVE CallMatchesPosition'
  BY <1>21
  DEF UnlockStateThenBuild, Goto, LocalTypes, CallMatchesPosition, WellFormed,
      locals
<1>22. ASSUME NEW p \in Procs, EditRead(p) PROVE CallMatchesPosition'
  BY <1>22
  DEF EditRead, Return, Goto, LocalTypes, CallMatchesPosition, WellFormed,
      locals
<1>23. ASSUME NEW p \in Procs, EditWrite(p) PROVE CallMatchesPosition'
  BY <1>23
  DEF EditWrite, Return, Goto, LocalTypes, CallMatchesPosition, WellFormed
<1>24. ASSUME NEW p \in Procs, HookReadPersonal(p) PROVE CallMatchesPosition'
  BY <1>24
  DEF HookReadPersonal, Goto, LocalTypes, CallMatchesPosition, WellFormed,
      locals
<1>25. ASSUME NEW p \in Procs, HookLock(p) PROVE CallMatchesPosition'
  BY <1>25
  DEF HookLock, Goto, LocalTypes, CallMatchesPosition, WellFormed, locals
<1>26. ASSUME NEW p \in Procs, HookDefault(p) PROVE CallMatchesPosition'
  BY <1>26
  DEF HookDefault, Goto, LocalTypes, CallMatchesPosition, WellFormed, locals
<1>27. ASSUME NEW p \in Procs, HookPublish(p) PROVE CallMatchesPosition'
  BY <1>27
  DEF HookPublish, Return, Goto, LocalTypes, CallMatchesPosition, WellFormed
<1>28. ASSUME NEW p \in Procs, HookKilled(p) PROVE CallMatchesPosition'
  BY <1>28
  DEF HookKilled, Return, Goto, LocalTypes, CallMatchesPosition, WellFormed
<1>29. ASSUME NEW p \in Procs, Timeout(p) PROVE CallMatchesPosition'
  BY <1>29
  DEF Timeout, Return, Goto, LocalTypes, CallMatchesPosition, WellFormed
<1>30. ASSUME NEW p \in Procs, Crash(p) PROVE CallMatchesPosition'
  BY <1>30
  DEF Crash, Return, Goto, LocalTypes, CallMatchesPosition, WellFormed
<1>31. QED
  BY <1>1, <1>2, <1>3, <1>4, <1>5, <1>6, <1>7, <1>8, <1>9, <1>10, <1>11,
     <1>12, <1>13, <1>14, <1>15, <1>16, <1>17, <1>18, <1>19, <1>20, <1>21,
     <1>22, <1>23, <1>24, <1>25, <1>26, <1>27, <1>28, <1>29, <1>30
  DEF Next, Step, Build, Propose, Approve, Mutate, Edit, Hook

\* The two halves of TypeInv are inductive together.
LEMMA TypeInvStep == TypeInv /\ [Next]_vars => TypeInv'
<1>1. ASSUME TypeInv, Next PROVE TypeInv'
  BY <1>1, TypeStep, CallStep DEF TypeInv
<1>2. ASSUME TypeInv, UNCHANGED vars PROVE TypeInv'
  BY <1>2 DEF TypeInv, TypeOK, FileTypes, LockTypes, LocalTypes, FaultTypes,
     CallMatchesPosition, WellFormed, vars, documents, locks, locals, faults
<1>3. QED
  BY <1>1, <1>2

\* Every reachable state is well typed, and each call sits at a label of its kind.
LEMMA TypeInvAlways == Spec => []TypeInv
BY InitTypeInv, TypeInvStep, PTL DEF Spec

\* Files, locks and local variables always hold what the code can put there.
THEOREM TypeCorrect == Spec => []TypeOK
<1>1. TypeInv => TypeOK
  BY DEF TypeInv
<1>2. QED
  BY <1>1, TypeInvAlways, PTL

-----------------------------------------------------------------------------
\* Lock discipline.

\* No call runs at the start and every lock is free.
LEMMA InitLocks == Init => LocksMatchPosition
BY NamesAssumption
DEF Init, LocksMatchPosition, QueueLockHeld, StateLockHeld, TargetLockHeld,
    ProposalLockHeld, InQueueLock, InStateLock, InTargetLock, InProposalLock

\* Every step keeps each lock with the calls that are inside it.
LEMMA LockStep ==
  ASSUME TypeInv, LocksMatchPosition, Next
  PROVE  LocksMatchPosition'
<1> USE DEF TypeInv, TypeOK, LocksMatchPosition
<1>1. ASSUME NEW p \in Procs, Start(p) PROVE LocksMatchPosition'
  <2>1. PICK k \in Calls : /\ job' = [job EXCEPT ![p] = k]
                           /\ Goto(p, FirstLabel(k.kind))
    BY <1>1 DEF Start
  <2>2. /\ k.kind \in Kinds
        /\ pc[p] = "idle" /\ UNCHANGED locks
    BY <1>1, CallsWellFormed, CallTypes DEF Start, WellFormed
  <2>3. FirstLabel(k.kind) \in {"propose", "build", "mutate", "edit", "hook"}
    BY <2>2 DEF FirstLabel, Kinds
  <2>4. /\ \A q \in Procs \ {p} : pc'[q] = pc[q] /\ job'[q] = job[q]
        /\ pc'[p] \in {"propose", "build", "mutate", "edit", "hook"}
    BY <2>1, <2>3 DEF Goto, LocalTypes
  <2>5. QED
    BY <2>2, <2>4 DEF locks, QueueLockHeld, StateLockHeld, TargetLockHeld, ProposalLockHeld,
       InQueueLock, InStateLock, InTargetLock, InProposalLock
<1>2. ASSUME NEW p \in Procs, BuildLock(p) PROVE LocksMatchPosition'
  BY <1>2, NamesAssumption, CallTypes, ConstantsAssumption
  DEF BuildLock, Goto, LocalTypes, LockTypes, CallMatchesPosition, WellFormed,
      QueueLockHeld, StateLockHeld, TargetLockHeld, ProposalLockHeld,
      InQueueLock, InStateLock, InTargetLock, InProposalLock, locks, documents,
      locals
<1>3. ASSUME NEW p \in Procs, BuildReadState(p) PROVE LocksMatchPosition'
  BY <1>3, NamesAssumption, CallTypes, ConstantsAssumption
  DEF BuildReadState, Goto, LocalTypes, LockTypes, CallMatchesPosition,
      WellFormed, QueueLockHeld, StateLockHeld, TargetLockHeld,
      ProposalLockHeld, InQueueLock, InStateLock, InTargetLock, InProposalLock,
      locks, documents, locals
<1>4. ASSUME NEW p \in Procs, BuildUnlockState(p) PROVE LocksMatchPosition'
  BY <1>4, NamesAssumption, CallTypes, ConstantsAssumption
  DEF BuildUnlockState, Goto, LocalTypes, LockTypes, CallMatchesPosition,
      WellFormed, QueueLockHeld, StateLockHeld, TargetLockHeld,
      ProposalLockHeld, InQueueLock, InStateLock, InTargetLock, InProposalLock,
      locks, documents, locals
<1>5. ASSUME NEW p \in Procs, BuildThenReturn(p) PROVE LocksMatchPosition'
  BY <1>5, NamesAssumption, CallTypes, ConstantsAssumption
  DEF BuildThenReturn, Publish, Return, Goto, LocalTypes, LockTypes,
      CallMatchesPosition, WellFormed, QueueLockHeld, StateLockHeld,
      TargetLockHeld, ProposalLockHeld, InQueueLock, InStateLock, InTargetLock,
      InProposalLock, locks, documents, locals
<1>6. ASSUME NEW p \in Procs, BuildThenApprove(p) PROVE LocksMatchPosition'
  <2>1. QueueLockHeld'
    BY <1>6, NamesAssumption, CallTypes, ConstantsAssumption
    DEF BuildThenApprove, Publish, Goto, LocalTypes, LockTypes, CallMatchesPosition,
        WellFormed, QueueLockHeld, InQueueLock, documents, locals
  <2>2. StateLockHeld'
    BY <1>6, NamesAssumption, CallTypes, ConstantsAssumption
    DEF BuildThenApprove, Publish, Goto, LocalTypes, LockTypes, CallMatchesPosition,
        WellFormed, StateLockHeld, InStateLock, documents, locals
  <2>3. TargetLockHeld'
    BY <1>6, NamesAssumption, CallTypes, ConstantsAssumption
    DEF BuildThenApprove, Publish, Goto, LocalTypes, LockTypes, CallMatchesPosition,
        WellFormed, TargetLockHeld, InTargetLock, documents, locals
  <2>4. ProposalLockHeld'
    BY <1>6, NamesAssumption, CallTypes, ConstantsAssumption
    DEF BuildThenApprove, Publish, Goto, LocalTypes, LockTypes, CallMatchesPosition,
        WellFormed, ProposalLockHeld, InProposalLock, documents, locals
  <2>5. QED
    BY <2>1, <2>2, <2>3, <2>4
<1>7. ASSUME NEW p \in Procs, BuildThenNoise(p) PROVE LocksMatchPosition'
  BY <1>7, NamesAssumption, CallTypes, ConstantsAssumption
  DEF BuildThenNoise, Publish, Goto, LocalTypes, LockTypes, CallMatchesPosition,
      WellFormed, QueueLockHeld, StateLockHeld, TargetLockHeld,
      ProposalLockHeld, InQueueLock, InStateLock, InTargetLock, InProposalLock,
      locks, documents, locals
<1>8. ASSUME NEW p \in Procs, ProposeLock(p) PROVE LocksMatchPosition'
  BY <1>8, NamesAssumption, CallTypes, ConstantsAssumption
  DEF ProposeLock, Goto, LocalTypes, LockTypes, CallMatchesPosition, WellFormed,
      QueueLockHeld, StateLockHeld, TargetLockHeld, ProposalLockHeld,
      InQueueLock, InStateLock, InTargetLock, InProposalLock, locks, documents,
      locals
<1>9. ASSUME NEW p \in Procs, ProposeWrite(p) PROVE LocksMatchPosition'
  BY <1>9, NamesAssumption, CallTypes, ConstantsAssumption
  DEF ProposeWrite, Goto, LocalTypes, LockTypes, CallMatchesPosition,
      WellFormed, QueueLockHeld, StateLockHeld, TargetLockHeld,
      ProposalLockHeld, InQueueLock, InStateLock, InTargetLock, InProposalLock,
      locks, documents, locals
<1>10. ASSUME NEW p \in Procs, ProposeUnlock(p) PROVE LocksMatchPosition'
  BY <1>10, NamesAssumption, CallTypes, ConstantsAssumption
  DEF ProposeUnlock, Goto, LocalTypes, LockTypes, CallMatchesPosition,
      WellFormed, QueueLockHeld, StateLockHeld, TargetLockHeld,
      ProposalLockHeld, InQueueLock, InStateLock, InTargetLock, InProposalLock,
      locks, documents, locals
<1>11. ASSUME NEW p \in Procs, ApproveLockState(p) PROVE LocksMatchPosition'
  BY <1>11, NamesAssumption, CallTypes, ConstantsAssumption
  DEF ApproveLockState, Goto, LocalTypes, LockTypes, CallMatchesPosition,
      WellFormed, QueueLockHeld, StateLockHeld, TargetLockHeld,
      ProposalLockHeld, InQueueLock, InStateLock, InTargetLock, InProposalLock,
      locks, documents, locals
<1>12. ASSUME NEW p \in Procs, ApproveLockTarget(p) PROVE LocksMatchPosition'
  <2>1. QueueLockHeld'
    BY <1>12, NamesAssumption, CallTypes, ConstantsAssumption
    DEF ApproveLockTarget, Goto, LocalTypes, LockTypes, CallMatchesPosition,
        WellFormed, QueueLockHeld, InQueueLock, documents, locals
  <2>2. StateLockHeld'
    BY <1>12, NamesAssumption, CallTypes, ConstantsAssumption
    DEF ApproveLockTarget, Goto, LocalTypes, LockTypes, CallMatchesPosition,
        WellFormed, StateLockHeld, InStateLock, documents, locals
  <2>3. TargetLockHeld'
    BY <1>12, NamesAssumption, CallTypes, ConstantsAssumption
    DEF ApproveLockTarget, Goto, LocalTypes, LockTypes, CallMatchesPosition,
        WellFormed, TargetLockHeld, InTargetLock, documents, locals
  <2>4. ProposalLockHeld'
    BY <1>12, NamesAssumption, CallTypes, ConstantsAssumption
    DEF ApproveLockTarget, Goto, LocalTypes, LockTypes, CallMatchesPosition,
        WellFormed, ProposalLockHeld, InProposalLock, documents, locals
  <2>5. QED
    BY <2>1, <2>2, <2>3, <2>4
<1>13. ASSUME NEW p \in Procs, ApproveAppend(p) PROVE LocksMatchPosition'
  BY <1>13, NamesAssumption, CallTypes, ConstantsAssumption
  DEF ApproveAppend, Goto, LocalTypes, LockTypes, CallMatchesPosition,
      WellFormed, QueueLockHeld, StateLockHeld, TargetLockHeld,
      ProposalLockHeld, InQueueLock, InStateLock, InTargetLock, InProposalLock,
      locks, documents, locals
<1>14. ASSUME NEW p \in Procs, ApproveRecord(p) PROVE LocksMatchPosition'
  BY <1>14, NamesAssumption, CallTypes, ConstantsAssumption
  DEF ApproveRecord, Goto, LocalTypes, LockTypes, CallMatchesPosition,
      WellFormed, QueueLockHeld, StateLockHeld, TargetLockHeld,
      ProposalLockHeld, InQueueLock, InStateLock, InTargetLock, InProposalLock,
      locks, documents, locals
<1>15. ASSUME NEW p \in Procs, ApproveWriteFails(p) PROVE LocksMatchPosition'
  BY <1>15, NamesAssumption, CallTypes, ConstantsAssumption
  DEF ApproveWriteFails, Goto, LocalTypes, LockTypes, CallMatchesPosition,
      WellFormed, QueueLockHeld, StateLockHeld, TargetLockHeld,
      ProposalLockHeld, InQueueLock, InStateLock, InTargetLock, InProposalLock,
      locks, documents, locals
<1>16. ASSUME NEW p \in Procs, ApproveUnlockTarget(p) PROVE LocksMatchPosition'
  <2>1. QueueLockHeld'
    BY <1>16, NamesAssumption, CallTypes, ConstantsAssumption
    DEF ApproveUnlockTarget, Goto, LocalTypes, LockTypes, CallMatchesPosition,
        WellFormed, QueueLockHeld, InQueueLock, documents, locals
  <2>2. StateLockHeld'
    BY <1>16, NamesAssumption, CallTypes, ConstantsAssumption
    DEF ApproveUnlockTarget, Goto, LocalTypes, LockTypes, CallMatchesPosition,
        WellFormed, StateLockHeld, InStateLock, documents, locals
  <2>3. TargetLockHeld'
    BY <1>16, NamesAssumption, CallTypes, ConstantsAssumption
    DEF ApproveUnlockTarget, Goto, LocalTypes, LockTypes, CallMatchesPosition,
        WellFormed, TargetLockHeld, InTargetLock, documents, locals
  <2>4. ProposalLockHeld'
    BY <1>16, NamesAssumption, CallTypes, ConstantsAssumption
    DEF ApproveUnlockTarget, Goto, LocalTypes, LockTypes, CallMatchesPosition,
        WellFormed, ProposalLockHeld, InProposalLock, documents, locals
  <2>5. QED
    BY <2>1, <2>2, <2>3, <2>4
<1>17. ASSUME NEW p \in Procs, MutateLock(p) PROVE LocksMatchPosition'
  <2>1. QueueLockHeld'
    BY <1>17, NamesAssumption, CallTypes, ConstantsAssumption
    DEF MutateLock, Goto, LocalTypes, LockTypes, CallMatchesPosition,
        WellFormed, QueueLockHeld, InQueueLock, documents, locals
  <2>2. StateLockHeld'
    BY <1>17, NamesAssumption, CallTypes, ConstantsAssumption
    DEF MutateLock, Goto, LocalTypes, LockTypes, CallMatchesPosition,
        WellFormed, StateLockHeld, InStateLock, documents, locals
  <2>3. TargetLockHeld'
    BY <1>17, NamesAssumption, CallTypes, ConstantsAssumption
    DEF MutateLock, Goto, LocalTypes, LockTypes, CallMatchesPosition,
        WellFormed, TargetLockHeld, InTargetLock, documents, locals
  <2>4. ProposalLockHeld'
    BY <1>17, NamesAssumption, CallTypes, ConstantsAssumption
    DEF MutateLock, Goto, LocalTypes, LockTypes, CallMatchesPosition,
        WellFormed, ProposalLockHeld, InProposalLock, documents, locals
  <2>5. QED
    BY <2>1, <2>2, <2>3, <2>4
<1>18. ASSUME NEW p \in Procs, MutateWrite(p) PROVE LocksMatchPosition'
  BY <1>18, NamesAssumption, CallTypes, ConstantsAssumption
  DEF MutateWrite, Goto, LocalTypes, LockTypes, CallMatchesPosition, WellFormed,
      QueueLockHeld, StateLockHeld, TargetLockHeld, ProposalLockHeld,
      InQueueLock, InStateLock, InTargetLock, InProposalLock, locks, documents,
      locals
<1>19. ASSUME NEW p \in Procs, MutateFails(p) PROVE LocksMatchPosition'
  BY <1>19, NamesAssumption, CallTypes, ConstantsAssumption
  DEF MutateFails, Goto, LocalTypes, LockTypes, CallMatchesPosition, WellFormed,
      QueueLockHeld, StateLockHeld, TargetLockHeld, ProposalLockHeld,
      InQueueLock, InStateLock, InTargetLock, InProposalLock, locks, documents,
      locals
<1>20. ASSUME NEW p \in Procs, UnlockStateThenReturn(p) PROVE LocksMatchPosition'
  BY <1>20, NamesAssumption, CallTypes, ConstantsAssumption
  DEF UnlockStateThenReturn, Return, Goto, LocalTypes, LockTypes,
      CallMatchesPosition, WellFormed, QueueLockHeld, StateLockHeld,
      TargetLockHeld, ProposalLockHeld, InQueueLock, InStateLock, InTargetLock,
      InProposalLock, locks, documents, locals
<1>21. ASSUME NEW p \in Procs, UnlockStateThenBuild(p) PROVE LocksMatchPosition'
  BY <1>21, NamesAssumption, CallTypes, ConstantsAssumption
  DEF UnlockStateThenBuild, Goto, LocalTypes, LockTypes, CallMatchesPosition,
      WellFormed, QueueLockHeld, StateLockHeld, TargetLockHeld,
      ProposalLockHeld, InQueueLock, InStateLock, InTargetLock, InProposalLock,
      locks, documents, locals
<1>22. ASSUME NEW p \in Procs, EditRead(p) PROVE LocksMatchPosition'
  <2>1. /\ UNCHANGED locks
        /\ \A q \in Procs \ {p} : pc'[q] = pc[q] /\ job'[q] = job[q]
        /\ pc[p] = "edit" /\ pc'[p] \in {"editing", "idle"}
    BY <1>22 DEF EditRead, Return, Goto, LocalTypes
  <2>2. QED
    BY <2>1 DEF locks, QueueLockHeld, StateLockHeld, TargetLockHeld, ProposalLockHeld,
       InQueueLock, InStateLock, InTargetLock, InProposalLock
<1>23. ASSUME NEW p \in Procs, EditWrite(p) PROVE LocksMatchPosition'
  <2>1. /\ UNCHANGED locks
        /\ \A q \in Procs \ {p} : pc'[q] = pc[q] /\ job'[q] = job[q]
        /\ pc[p] = "editing" /\ pc'[p] = "idle"
    BY <1>23 DEF EditWrite, Return, Goto, LocalTypes
  <2>2. QED
    BY <2>1 DEF locks, QueueLockHeld, StateLockHeld, TargetLockHeld, ProposalLockHeld,
       InQueueLock, InStateLock, InTargetLock, InProposalLock
<1>24. ASSUME NEW p \in Procs, HookReadPersonal(p) PROVE LocksMatchPosition'
  BY <1>24, NamesAssumption, CallTypes, ConstantsAssumption
  DEF HookReadPersonal, Goto, LocalTypes, LockTypes, CallMatchesPosition,
      WellFormed, QueueLockHeld, StateLockHeld, TargetLockHeld,
      ProposalLockHeld, InQueueLock, InStateLock, InTargetLock, InProposalLock,
      locks, documents, locals
<1>25. ASSUME NEW p \in Procs, HookLock(p) PROVE LocksMatchPosition'
  BY <1>25, NamesAssumption, CallTypes, ConstantsAssumption
  DEF HookLock, Goto, LocalTypes, LockTypes, CallMatchesPosition, WellFormed,
      QueueLockHeld, StateLockHeld, TargetLockHeld, ProposalLockHeld,
      InQueueLock, InStateLock, InTargetLock, InProposalLock, locks, documents,
      locals
<1>26. ASSUME NEW p \in Procs, HookDefault(p) PROVE LocksMatchPosition'
  BY <1>26, NamesAssumption, CallTypes, ConstantsAssumption
  DEF HookDefault, Goto, LocalTypes, LockTypes, CallMatchesPosition, WellFormed,
      QueueLockHeld, StateLockHeld, TargetLockHeld, ProposalLockHeld,
      InQueueLock, InStateLock, InTargetLock, InProposalLock, locks, documents,
      locals
<1>27. ASSUME NEW p \in Procs, HookPublish(p) PROVE LocksMatchPosition'
  <2>1. QueueLockHeld'
    BY <1>27, NamesAssumption, CallTypes, ConstantsAssumption
    DEF HookPublish, Return, Goto, LocalTypes, LockTypes, CallMatchesPosition,
        WellFormed, QueueLockHeld, InQueueLock, documents, locals
  <2>2. StateLockHeld'
    BY <1>27, NamesAssumption, CallTypes, ConstantsAssumption
    DEF HookPublish, Return, Goto, LocalTypes, LockTypes, CallMatchesPosition,
        WellFormed, StateLockHeld, InStateLock, documents, locals
  <2>3. TargetLockHeld'
    BY <1>27, NamesAssumption, CallTypes, ConstantsAssumption
    DEF HookPublish, Return, Goto, LocalTypes, LockTypes, CallMatchesPosition,
        WellFormed, TargetLockHeld, InTargetLock, documents, locals
  <2>4. ProposalLockHeld'
    BY <1>27, NamesAssumption, CallTypes, ConstantsAssumption
    DEF HookPublish, Return, Goto, LocalTypes, LockTypes, CallMatchesPosition,
        WellFormed, ProposalLockHeld, InProposalLock, documents, locals
  <2>5. QED
    BY <2>1, <2>2, <2>3, <2>4
<1>28. ASSUME NEW p \in Procs, HookKilled(p) PROVE LocksMatchPosition'
  <2>1. QueueLockHeld'
    BY <1>28, NamesAssumption, CallTypes, ConstantsAssumption
    DEF HookKilled, Return, Goto, LocalTypes, LockTypes, CallMatchesPosition,
        WellFormed, QueueLockHeld, InQueueLock, documents, locals
  <2>2. StateLockHeld'
    BY <1>28, NamesAssumption, CallTypes, ConstantsAssumption
    DEF HookKilled, Return, Goto, LocalTypes, LockTypes, CallMatchesPosition,
        WellFormed, StateLockHeld, InStateLock, documents, locals
  <2>3. TargetLockHeld'
    BY <1>28, NamesAssumption, CallTypes, ConstantsAssumption
    DEF HookKilled, Return, Goto, LocalTypes, LockTypes, CallMatchesPosition,
        WellFormed, TargetLockHeld, InTargetLock, documents, locals
  <2>4. ProposalLockHeld'
    BY <1>28, NamesAssumption, CallTypes, ConstantsAssumption
    DEF HookKilled, Return, Goto, LocalTypes, LockTypes, CallMatchesPosition,
        WellFormed, ProposalLockHeld, InProposalLock, documents, locals
  <2>5. QED
    BY <2>1, <2>2, <2>3, <2>4
<1>29. ASSUME NEW p \in Procs, Timeout(p) PROVE LocksMatchPosition'
  BY <1>29, NamesAssumption, CallTypes, ConstantsAssumption
  DEF Timeout, Return, Goto, LocalTypes, LockTypes, CallMatchesPosition,
      WellFormed, Without, WaitsFor, QueueLockHeld, StateLockHeld,
      TargetLockHeld, ProposalLockHeld, InQueueLock, InStateLock, InTargetLock,
      InProposalLock, locks, documents, locals
<1>30. ASSUME NEW p \in Procs, Crash(p) PROVE LocksMatchPosition'
  BY <1>30, NamesAssumption, CallTypes, ConstantsAssumption
  DEF Crash, Return, Goto, LocalTypes, LockTypes, CallMatchesPosition,
      WellFormed, Without, Abandoned, QueueLockHeld, StateLockHeld,
      TargetLockHeld, ProposalLockHeld, InQueueLock, InStateLock, InTargetLock,
      InProposalLock, locks, documents, locals
<1>31. QED
  BY <1>1, <1>2, <1>3, <1>4, <1>5, <1>6, <1>7, <1>8, <1>9, <1>10, <1>11,
     <1>12, <1>13, <1>14, <1>15, <1>16, <1>17, <1>18, <1>19, <1>20, <1>21,
     <1>22, <1>23, <1>24, <1>25, <1>26, <1>27, <1>28, <1>29, <1>30
  DEF Next, Step, Build, Propose, Approve, Mutate, Edit, Hook

LockInv == TypeInv /\ LocksMatchPosition

\* A step or a stutter keeps types and locks.
LEMMA LockInvStep == LockInv /\ [Next]_vars => LockInv'
<1>1. ASSUME LockInv, Next PROVE LockInv'
  BY <1>1, TypeInvStep, LockStep DEF LockInv
<1>2. ASSUME LockInv, UNCHANGED vars PROVE LockInv'
  <2>1. TypeInv'
    BY <1>2, TypeInvStep DEF LockInv
  <2>2. LocksMatchPosition'
    BY <1>2 DEF LockInv, LocksMatchPosition, QueueLockHeld, StateLockHeld, TargetLockHeld,
       ProposalLockHeld, InQueueLock, InStateLock, InTargetLock, InProposalLock,
       vars, locks, locals
  <2>3. QED
    BY <2>1, <2>2 DEF LockInv
<1>3. QED
  BY <1>1, <1>2

\* Every reachable state is well typed and its locks are held by the calls inside them.
LEMMA LockInvAlways == Spec => []LockInv
<1>1. Init => LockInv
  BY InitTypeInv, InitLocks DEF LockInv
<1>2. QED
  BY <1>1, LockInvStep, PTL DEF Spec

\* A lock is held exactly by the call that is between its acquisition and its
\* release; in particular no lock leaks from a call that returned.
THEOREM LocksHeld == Spec => []LocksMatchPosition
<1>1. LockInv => LocksMatchPosition
  BY DEF LockInv
<1>2. QED
  BY <1>1, LockInvAlways, PTL

\* No two calls ever wait for each other: whoever holds the lock a call waits
\* for is further along the order queue, state, target.
THEOREM NoDeadlyEmbrace == Spec => []NoCircularWait
<1>1. ASSUME LockInv PROVE NoCircularWait
  <2> USE <1>1 DEF LockInv, LocksMatchPosition
  <2> SUFFICES ASSUME NEW p \in Procs, NEW q \in Procs, WaitsFor(p) = q
               PROVE  WaitsFor(q) # p
    BY DEF NoCircularWait
  <2>1. pc[p] # "idle" => job[p].proj \in Projects
    BY CallTypes DEF TypeInv, CallMatchesPosition, WellFormed
  <2>2. pc[p] = "approve_target" => job[p].doc \in Docs
    BY DEF TypeInv, CallMatchesPosition, WellFormed
  <2>3. pc[p] = "propose" => Store[job[p].cand] \in Stores
    BY ConstantsAssumption DEF TypeInv, CallMatchesPosition, WellFormed
  <2>4. /\ pc[p] \in {"build", "hook_lock"} => InQueueLock(q)
        /\ pc[p] \in {"read_state", "approve", "mutate"} => InStateLock(q)
        /\ pc[p] = "approve_target" => InTargetLock(q)
        /\ pc[p] = "propose" => InProposalLock(q)
        /\ pc[p] \in {"build", "hook_lock", "read_state", "approve", "mutate",
                      "approve_target", "propose"}
    BY <2>1, <2>2, <2>3, NamesAssumption
    DEF WaitsFor, QueueLockHeld, StateLockHeld, TargetLockHeld, ProposalLockHeld
  <2>5. pc[q] # "idle" => job[q].proj \in Projects
    BY CallTypes DEF TypeInv, CallMatchesPosition, WellFormed
  <2>6. pc[q] = "approve_target" => job[q].doc \in Docs
    BY DEF TypeInv, CallMatchesPosition, WellFormed
  <2>7. /\ WaitsFor(q) = p /\ pc[q] = "read_state" => InStateLock(p)
        /\ WaitsFor(q) = p /\ pc[q] = "approve_target" => InTargetLock(p)
    BY <2>5, <2>6 DEF WaitsFor, StateLockHeld, TargetLockHeld
  <2>8. QED
    BY <2>4, <2>7, NamesAssumption
    DEF WaitsFor, InQueueLock, InStateLock, InTargetLock, InProposalLock
<1>2. QED
  BY <1>1, LockInvAlways, PTL

-----------------------------------------------------------------------------
\* Decisions are final.

\* When every state file exists from the start, no hook writes a default one,
\* and what a call read under the state lock is still what the file holds.
SnapshotCurrent ==
  /\ \A j \in Projects : stateFile[j]
  /\ \A p \in Procs :
       /\ pc[p] # "hook_default"
       /\ pc[p] \in {"append", "record", "mutating"} => state[p] = decisions[job[p].proj]
       /\ pc[p] \in {"append", "record"} => state[p][job[p].cand] = Undecided

DecisionInv == LockInv /\ SnapshotCurrent

\* Every step keeps what the calls inside a state lock read up to date.
LEMMA SnapshotStep ==
  ASSUME DecisionInv, Next
  PROVE  SnapshotCurrent'
<1> USE DEF DecisionInv, LockInv, TypeInv, TypeOK
<1>1. ASSUME NEW p \in Procs, Start(p) PROVE SnapshotCurrent'
  <2>1. PICK k \in Calls : /\ job' = [job EXCEPT ![p] = k]
                           /\ Goto(p, FirstLabel(k.kind))
    BY <1>1 DEF Start
  <2>2. k.kind \in Kinds
    BY CallsWellFormed, CallTypes DEF WellFormed
  <2>3. FirstLabel(k.kind) \in {"propose", "build", "mutate", "edit", "hook"}
    BY <2>2 DEF FirstLabel, Kinds
  <2>4. /\ \A q \in Procs \ {p} : pc'[q] = pc[q] /\ job'[q] = job[q]
        /\ pc'[p] \in {"propose", "build", "mutate", "edit", "hook"}
    BY <2>1, <2>3 DEF Goto, LocalTypes
  <2>5. QED
    BY <1>1, <2>4 DEF Start, SnapshotCurrent, documents
<1>2. ASSUME NEW p \in Procs, BuildLock(p) PROVE SnapshotCurrent'
  BY <1>2
  DEF BuildLock, Goto, SnapshotCurrent, FileTypes, LocalTypes, documents, locals
<1>3. ASSUME NEW p \in Procs, BuildReadState(p) PROVE SnapshotCurrent'
  BY <1>3
  DEF BuildReadState, Goto, SnapshotCurrent, FileTypes, LocalTypes, documents,
      locals
<1>4. ASSUME NEW p \in Procs, BuildUnlockState(p) PROVE SnapshotCurrent'
  BY <1>4
  DEF BuildUnlockState, Goto, SnapshotCurrent, FileTypes, LocalTypes, documents,
      locals
<1>5. ASSUME NEW p \in Procs, BuildThenReturn(p) PROVE SnapshotCurrent'
  BY <1>5
  DEF BuildThenReturn, Publish, Return, Goto, SnapshotCurrent, FileTypes,
      LocalTypes, documents, locals
<1>6. ASSUME NEW p \in Procs, BuildThenApprove(p) PROVE SnapshotCurrent'
  BY <1>6
  DEF BuildThenApprove, Publish, Goto, SnapshotCurrent, FileTypes, LocalTypes,
      documents, locals
<1>7. ASSUME NEW p \in Procs, BuildThenNoise(p) PROVE SnapshotCurrent'
  BY <1>7
  DEF BuildThenNoise, Publish, Goto, SnapshotCurrent, FileTypes, LocalTypes,
      documents, locals
<1>8. ASSUME NEW p \in Procs, ProposeLock(p) PROVE SnapshotCurrent'
  BY <1>8
  DEF ProposeLock, Goto, SnapshotCurrent, FileTypes, LocalTypes, documents,
      locals
<1>9. ASSUME NEW p \in Procs, ProposeWrite(p) PROVE SnapshotCurrent'
  BY <1>9
  DEF ProposeWrite, Goto, SnapshotCurrent, FileTypes, LocalTypes, documents,
      locals
<1>10. ASSUME NEW p \in Procs, ProposeUnlock(p) PROVE SnapshotCurrent'
  BY <1>10
  DEF ProposeUnlock, Goto, SnapshotCurrent, FileTypes, LocalTypes, documents,
      locals
<1>11. ASSUME NEW p \in Procs, ApproveLockState(p) PROVE SnapshotCurrent'
  BY <1>11
  DEF ApproveLockState, Goto, SnapshotCurrent, FileTypes, LocalTypes, documents,
      locals
<1>12. ASSUME NEW p \in Procs, ApproveLockTarget(p) PROVE SnapshotCurrent'
  <2>1. job[p].proj \in Projects
    BY <1>12, CallTypes DEF ApproveLockTarget, CallMatchesPosition, WellFormed
  <2>2. /\ UNCHANGED <<decisions, job>>
        /\ \A j \in Projects : stateFile'[j]
    BY <1>12, <2>1 DEF ApproveLockTarget, SnapshotCurrent, FileTypes
  <2>3. \A q \in Procs \ {p} : pc'[q] = pc[q] /\ state'[q] = state[q]
    BY <1>12 DEF ApproveLockTarget, Goto, LocalTypes
  <2>4. \/ /\ pc'[p] = "append"
           /\ state'[p] = decisions[job[p].proj]
           /\ decisions[job[p].proj][job[p].cand] = Undecided
        \/ pc'[p] = "unlock_target"
    BY <1>12 DEF ApproveLockTarget, Goto, LocalTypes
  <2>5. QED
    BY <2>2, <2>3, <2>4 DEF SnapshotCurrent
<1>13. ASSUME NEW p \in Procs, ApproveAppend(p) PROVE SnapshotCurrent'
  BY <1>13
  DEF ApproveAppend, Goto, SnapshotCurrent, FileTypes, LocalTypes, documents,
      locals
<1>14. ASSUME NEW p \in Procs, ApproveRecord(p) PROVE SnapshotCurrent'
  <2>1. job[p].proj \in Projects
    BY <1>14, CallTypes DEF ApproveRecord, CallMatchesPosition, WellFormed
  <2>2. stateLock[job[p].proj] = p
    BY <1>14, <2>1 DEF ApproveRecord, LocksMatchPosition, StateLockHeld, InStateLock
  <2>3. ASSUME NEW q \in Procs \ {p}, pc[q] \in {"append", "record", "mutating"}
        PROVE  job[q].proj # job[p].proj /\ job[q].proj \in Projects
    <3>1. job[q].proj \in Projects
      BY <2>3, CallTypes DEF CallMatchesPosition, WellFormed
    <3>2. QED
      BY <2>1, <2>2, <2>3, <3>1 DEF LocksMatchPosition, StateLockHeld, InStateLock
  <2>4. \A j \in Projects : j # job[p].proj => decisions'[j] = decisions[j]
    BY <1>14, <2>1 DEF ApproveRecord, FileTypes
  <2>5. QED
    BY <1>14, <2>1, <2>3, <2>4
    DEF ApproveRecord, Goto, SnapshotCurrent, FileTypes, LocalTypes, locals
<1>15. ASSUME NEW p \in Procs, ApproveWriteFails(p) PROVE SnapshotCurrent'
  BY <1>15
  DEF ApproveWriteFails, Goto, SnapshotCurrent, FileTypes, LocalTypes,
      documents, locals
<1>16. ASSUME NEW p \in Procs, ApproveUnlockTarget(p) PROVE SnapshotCurrent'
  BY <1>16
  DEF ApproveUnlockTarget, Goto, SnapshotCurrent, FileTypes, LocalTypes,
      documents, locals
<1>17. ASSUME NEW p \in Procs, MutateLock(p) PROVE SnapshotCurrent'
  <2>1. job[p].proj \in Projects
    BY <1>17, CallTypes DEF MutateLock, CallMatchesPosition, WellFormed
  <2>2. QED
    BY <1>17, <2>1
    DEF MutateLock, Goto, SnapshotCurrent, FileTypes, LocalTypes
<1>18. ASSUME NEW p \in Procs, MutateWrite(p) PROVE SnapshotCurrent'
  <2>1. job[p].proj \in Projects
    BY <1>18, CallTypes DEF MutateWrite, CallMatchesPosition, WellFormed
  <2>2. stateLock[job[p].proj] = p
    BY <1>18, <2>1 DEF MutateWrite, LocksMatchPosition, StateLockHeld, InStateLock
  <2>3. ASSUME NEW q \in Procs \ {p}, pc[q] \in {"append", "record", "mutating"}
        PROVE  job[q].proj # job[p].proj /\ job[q].proj \in Projects
    <3>1. job[q].proj \in Projects
      BY <2>3, CallTypes DEF CallMatchesPosition, WellFormed
    <3>2. QED
      BY <2>1, <2>2, <2>3, <3>1 DEF LocksMatchPosition, StateLockHeld, InStateLock
  <2>4. \A j \in Projects : j # job[p].proj => decisions'[j] = decisions[j]
    BY <1>18, <2>1 DEF MutateWrite, FileTypes
  <2>5. pc' = [pc EXCEPT ![p] = "unlock_state"] /\ UNCHANGED <<job, state>>
    BY <1>18 DEF MutateWrite, Goto, locals
  <2>6. \A j \in Projects : stateFile'[j]
    BY <1>18, <2>1 DEF MutateWrite, SnapshotCurrent, FileTypes
  <2>7. QED
    BY <2>3, <2>4, <2>5, <2>6 DEF SnapshotCurrent, LocalTypes
<1>19. ASSUME NEW p \in Procs, MutateFails(p) PROVE SnapshotCurrent'
  BY <1>19
  DEF MutateFails, Goto, SnapshotCurrent, FileTypes, LocalTypes, documents,
      locals
<1>20. ASSUME NEW p \in Procs, UnlockStateThenReturn(p) PROVE SnapshotCurrent'
  BY <1>20
  DEF UnlockStateThenReturn, Return, Goto, SnapshotCurrent, FileTypes,
      LocalTypes, documents, locals
<1>21. ASSUME NEW p \in Procs, UnlockStateThenBuild(p) PROVE SnapshotCurrent'
  BY <1>21
  DEF UnlockStateThenBuild, Goto, SnapshotCurrent, FileTypes, LocalTypes,
      documents, locals
<1>22. ASSUME NEW p \in Procs, EditRead(p) PROVE SnapshotCurrent'
  <2>1. /\ UNCHANGED documents
        /\ \A q \in Procs \ {p} : pc'[q] = pc[q] /\ state'[q] = state[q] /\ job'[q] = job[q]
        /\ pc'[p] \in {"editing", "idle"}
    BY <1>22 DEF EditRead, Return, Goto, LocalTypes
  <2>2. QED
    BY <2>1 DEF SnapshotCurrent, documents
<1>23. ASSUME NEW p \in Procs, EditWrite(p) PROVE SnapshotCurrent'
  BY <1>23
  DEF EditWrite, Return, Goto, SnapshotCurrent, FileTypes, LocalTypes,
      documents, locals
<1>24. ASSUME NEW p \in Procs, HookReadPersonal(p) PROVE SnapshotCurrent'
  BY <1>24
  DEF HookReadPersonal, Goto, SnapshotCurrent, FileTypes, LocalTypes, documents,
      locals
<1>25. ASSUME NEW p \in Procs, HookLock(p) PROVE SnapshotCurrent'
  <2>1. job[p].proj \in Projects
    BY <1>25, CallTypes DEF HookLock, CallMatchesPosition, WellFormed
  <2>2. pc' = [pc EXCEPT ![p] = "hook_publish"]
    BY <1>25, <2>1 DEF HookLock, Goto, SnapshotCurrent
  <2>3. QED
    BY <1>25, <2>2 DEF HookLock, SnapshotCurrent, LocalTypes, documents
<1>26. ASSUME NEW p \in Procs, HookDefault(p) PROVE SnapshotCurrent'
  BY <1>26
  DEF HookDefault, Goto, SnapshotCurrent, FileTypes, LocalTypes, documents,
      locals
<1>27. ASSUME NEW p \in Procs, HookPublish(p) PROVE SnapshotCurrent'
  BY <1>27
  DEF HookPublish, Return, Goto, SnapshotCurrent, FileTypes, LocalTypes,
      documents, locals
<1>28. ASSUME NEW p \in Procs, HookKilled(p) PROVE SnapshotCurrent'
  BY <1>28
  DEF HookKilled, Return, Goto, SnapshotCurrent, FileTypes, LocalTypes,
      documents, locals
<1>29. ASSUME NEW p \in Procs, Timeout(p) PROVE SnapshotCurrent'
  BY <1>29
  DEF Timeout, Return, Goto, SnapshotCurrent, FileTypes, LocalTypes, documents,
      locals
<1>30. ASSUME NEW p \in Procs, Crash(p) PROVE SnapshotCurrent'
  BY <1>30
  DEF Crash, Return, Goto, SnapshotCurrent, FileTypes, LocalTypes, documents,
      locals
<1>31. QED
  BY <1>1, <1>2, <1>3, <1>4, <1>5, <1>6, <1>7, <1>8, <1>9, <1>10, <1>11,
     <1>12, <1>13, <1>14, <1>15, <1>16, <1>17, <1>18, <1>19, <1>20, <1>21,
     <1>22, <1>23, <1>24, <1>25, <1>26, <1>27, <1>28, <1>29, <1>30
  DEF Next, Step, Build, Propose, Approve, Mutate, Edit, Hook

\* A step or a stutter keeps what a call read of the state up to date.
LEMMA DecisionInvStep == DecisionInv /\ [Next]_vars => DecisionInv'
<1>1. ASSUME DecisionInv, Next PROVE DecisionInv'
  BY <1>1, LockInvStep, SnapshotStep DEF DecisionInv
<1>2. ASSUME DecisionInv, UNCHANGED vars PROVE DecisionInv'
  <2>1. LockInv'
    BY <1>2, LockInvStep DEF DecisionInv
  <2>2. UNCHANGED <<decisions, stateFile, pc, job, state>>
    BY <1>2 DEF vars, documents, locals
  <2>3. SnapshotCurrent'
    BY <1>2, <2>2 DEF DecisionInv, SnapshotCurrent
  <2>4. QED
    BY <2>1, <2>3 DEF DecisionInv
<1>3. QED
  BY <1>1, <1>2

\* Three actions write a state file.
LEMMA StateWriters ==
  ASSUME Next, ~\E p \in Procs : ApproveRecord(p) \/ MutateWrite(p) \/ HookDefault(p)
  PROVE  UNCHANGED decisions
<1>1. PICK p \in Procs : Start(p) \/ Step(p) \/ Crash(p)
  BY DEF Next
<1>2. CASE Start(p) \/ Timeout(p) \/ Crash(p)
  BY <1>2 DEF Start, Timeout, Crash, documents
<1>3. CASE Build(p)
  BY <1>3 DEF Build, BuildLock, BuildReadState, BuildUnlockState, BuildThenReturn,
     BuildThenApprove, BuildThenNoise, Publish, documents
<1>4. CASE Propose(p)
  BY <1>4 DEF Propose, ProposeLock, ProposeWrite, ProposeUnlock, documents
<1>5. CASE Approve(p)
  BY <1>5 DEF Approve, ApproveLockState, ApproveLockTarget, ApproveAppend,
     ApproveWriteFails, ApproveUnlockTarget, documents
<1>6. CASE Mutate(p)
  BY <1>6 DEF Mutate, MutateLock, MutateFails, UnlockStateThenReturn,
     UnlockStateThenBuild, documents
<1>7. CASE Edit(p) \/ Hook(p)
  BY <1>7 DEF Edit, Hook, EditRead, EditWrite, HookReadPersonal, HookLock,
     HookPublish, HookKilled, documents
<1>8. QED
  BY <1>1, <1>2, <1>3, <1>4, <1>5, <1>6, <1>7 DEF Step

\* Each of the three writes the state it read with one undecided entry changed,
\* or a reset entry removed.
LEMMA DecisionStep ==
  ASSUME DecisionInv, Next
  PROVE  KeepsDecisions
<1> USE DEF DecisionInv, LockInv, TypeInv, TypeOK
<1>1. ASSUME NEW p \in Procs, ApproveRecord(p) PROVE KeepsDecisions
  <2>1. /\ job[p].proj \in Projects
        /\ state[p] = decisions[job[p].proj]
        /\ decisions[job[p].proj][job[p].cand] = Undecided
    BY <1>1, CallTypes DEF ApproveRecord, SnapshotCurrent, CallMatchesPosition, WellFormed
  <2>2. QED
    BY <1>1, <2>1 DEF ApproveRecord, KeepsDecisions, FileTypes
<1>2. ASSUME NEW p \in Procs, MutateWrite(p) PROVE KeepsDecisions
  <2>1. /\ job[p].proj \in Projects
        /\ state[p] = decisions[job[p].proj]
        /\ pc[p] = "mutating"
        /\ job[p].kind \in {"reject", "defer", "reset", "remind", "noise"}
        /\ job[p].kind # "remind" => job[p].cand \in Cands
    BY <1>2, CallTypes DEF MutateWrite, SnapshotCurrent, CallMatchesPosition, WellFormed
  <2>2. CASE job[p].kind = "remind"
    BY <1>2, <2>1, <2>2 DEF MutateWrite, KeepsDecisions, FileTypes
  <2>3. CASE job[p].kind = "reset"
    BY <1>2, <2>1, <2>3 DEF MutateWrite, KeepsDecisions, FileTypes, Verdict
  <2>4. CASE job[p].kind \in {"reject", "defer", "noise"}
    <3>1. decisions[job[p].proj][job[p].cand] \in {Undecided, Verdict(job[p].kind)}
      BY <1>2, <2>1, <2>4 DEF MutateWrite, Conflicts
    <3>2. \/ decisions' = decisions
          \/ decisions' = [decisions EXCEPT ![job[p].proj] =
                             [decisions[job[p].proj] EXCEPT ![job[p].cand] =
                                Verdict(job[p].kind)]]
      BY <1>2, <2>1, <2>4 DEF MutateWrite
    <3>3. QED
      BY <2>1, <2>4, <3>1, <3>2 DEF KeepsDecisions, FileTypes
  <2>5. QED
    BY <2>1, <2>2, <2>3, <2>4
<1>3. ASSUME NEW p \in Procs, HookDefault(p) PROVE KeepsDecisions
  BY <1>3 DEF HookDefault, SnapshotCurrent
<1>4. CASE ~\E p \in Procs : ApproveRecord(p) \/ MutateWrite(p) \/ HookDefault(p)
  BY <1>4, StateWriters DEF KeepsDecisions
<1>5. QED
  BY <1>1, <1>2, <1>3, <1>4

\* When every project has a state file before its first hook, a recorded
\* decision is never replaced or dropped except by a reset of that candidate.
THEOREM DecisionsAreFinal ==
  ASSUME FreshProjects = {}
  PROVE  Spec => DecisionFinal
<1>1. Init => DecisionInv
  <2>1. Init => SnapshotCurrent
    BY DEF Init, SnapshotCurrent
  <2>2. QED
    BY <2>1, InitTypeInv, InitLocks DEF DecisionInv, LockInv
<1>2. DecisionInv /\ [Next]_vars => [KeepsDecisions]_vars
  BY DecisionStep
<1>3. QED
  BY <1>1, <1>2, DecisionInvStep, PTL DEF Spec, DecisionFinal

-----------------------------------------------------------------------------
\* Proposals are not lost.

\* A submission has its own project or the personal document in mind, and what
\* it is about to write holds every agent the document names by now.
DraftCurrent ==
  \A p \in Procs :
    /\ pc[p] \in {"propose", "proposing", "proposed"} =>
         Store[job[p].cand] \in {job[p].proj, PERSONAL_PROPOSALS}
    /\ pc[p] = "proposing" =>
         \A c \in Cands : Store[c] = Store[job[p].cand] => proposals[c] \subseteq draft[p][c]

DraftInv == LockInv /\ DraftCurrent

\* A step of p that writes no proposals and takes p elsewhere than into a
\* submission leaves every draft as good as it was.
LEMMA OutsideSubmissions ==
  ASSUME DraftCurrent, NEW p \in Procs,
         UNCHANGED proposals,
         \A q \in Procs \ {p} : pc'[q] = pc[q] /\ job'[q] = job[q] /\ draft'[q] = draft[q],
         pc'[p] \notin {"propose", "proposing", "proposed"}
  PROVE  DraftCurrent'
BY DEF DraftCurrent

\* Every action but the ones of a submission and the start of a call is such a step.
LEMMA QuietForProposals ==
  ASSUME TypeInv, NEW p \in Procs,
         Build(p) \/ Approve(p) \/ Mutate(p) \/ Edit(p) \/ Hook(p) \/ Timeout(p) \/ Crash(p)
  PROVE  /\ UNCHANGED proposals
         /\ \A q \in Procs \ {p} : pc'[q] = pc[q] /\ job'[q] = job[q] /\ draft'[q] = draft[q]
         /\ pc'[p] \notin {"propose", "proposing", "proposed"}
<1> USE DEF TypeInv, TypeOK, LocalTypes, Goto, Return
<1>1. CASE Build(p)
  <2>1. CASE BuildLock(p) \/ BuildReadState(p) \/ BuildUnlockState(p)
    BY <2>1 DEF BuildLock, BuildReadState, BuildUnlockState, documents, locals
  <2>2. CASE BuildThenReturn(p)
    BY <2>2 DEF BuildThenReturn, Publish
  <2>3. CASE BuildThenApprove(p)
    BY <2>3 DEF BuildThenApprove, Publish
  <2>4. CASE BuildThenNoise(p)
    BY <2>4 DEF BuildThenNoise, Publish
  <2>5. QED
    BY <1>1, <2>1, <2>2, <2>3, <2>4 DEF Build
<1>2. CASE Approve(p)
  <2>1. CASE ApproveLockState(p) \/ ApproveUnlockTarget(p)
    BY <2>1 DEF ApproveLockState, ApproveUnlockTarget, documents, locals
  <2>2. CASE ApproveLockTarget(p)
    BY <2>2 DEF ApproveLockTarget
  <2>3. CASE ApproveAppend(p) \/ ApproveRecord(p)
    BY <2>3 DEF ApproveAppend, ApproveRecord, locals
  <2>4. CASE ApproveWriteFails(p)
    BY <2>4 DEF ApproveWriteFails
  <2>5. QED
    BY <1>2, <2>1, <2>2, <2>3, <2>4 DEF Approve
<1>3. CASE Mutate(p)
  <2>1. CASE MutateLock(p) \/ MutateWrite(p) \/ MutateFails(p)
    BY <2>1 DEF MutateLock, MutateWrite, MutateFails, documents, locals
  <2>2. CASE UnlockStateThenReturn(p) \/ UnlockStateThenBuild(p)
    BY <2>2 DEF UnlockStateThenReturn, UnlockStateThenBuild, documents
  <2>3. QED
    BY <1>3, <2>1, <2>2 DEF Mutate
<1>4. CASE Edit(p)
  BY <1>4 DEF Edit, EditRead, EditWrite, documents
<1>5. CASE Hook(p)
  <2>1. CASE HookReadPersonal(p) \/ HookLock(p) \/ HookDefault(p)
    BY <2>1 DEF HookReadPersonal, HookLock, HookDefault, documents, locals
  <2>2. CASE HookPublish(p) \/ HookKilled(p)
    BY <2>2 DEF HookPublish, HookKilled, documents
  <2>3. QED
    BY <1>5, <2>1, <2>2 DEF Hook
<1>6. CASE Timeout(p) \/ Crash(p)
  BY <1>6 DEF Timeout, Crash, documents
<1>7. QED
  BY <1>1, <1>2, <1>3, <1>4, <1>5, <1>6

\* Two submissions are never inside the same proposals document.
LEMMA OneSubmissionPerDocument ==
  ASSUME LockInv, NEW p \in Procs, NEW q \in Procs, p # q,
         InProposalLock(p), InProposalLock(q)
  PROVE  Store[job[p].cand] # Store[job[q].cand]
<1>1. Store[job[p].cand] \in Stores /\ Store[job[q].cand] \in Stores
  BY ConstantsAssumption DEF LockInv, TypeInv, InProposalLock, CallMatchesPosition, WellFormed
<1>2. /\ proposalLock[Store[job[p].cand]] = p
      /\ proposalLock[Store[job[q].cand]] = q
  BY <1>1 DEF LockInv, LocksMatchPosition, ProposalLockHeld
<1>3. QED
  BY <1>2

\* What a submission writes: the agents recorded before, and perhaps its own.
LEMMA MergedGrows ==
  ASSUME TypeInv, NEW k \in CallType, NEW c \in Cands
  PROVE  proposals[c] \subseteq Merged(k)[c]
BY DEF Merged

\* Every step keeps the drafts up to date and loses no proposal.
LEMMA DraftStep ==
  ASSUME DraftInv, Next
  PROVE  /\ DraftCurrent'
         /\ \A c \in Cands : proposals[c] \subseteq proposals'[c]
<1> DEFINE Good == /\ DraftCurrent'
                   /\ \A c \in Cands : proposals[c] \subseteq proposals'[c]
<1> USE DEF DraftInv, LockInv, TypeInv, TypeOK
<1>1. ASSUME NEW p \in Procs, Start(p) PROVE Good
  <2>1. PICK k \in Calls : /\ job' = [job EXCEPT ![p] = k]
                           /\ Goto(p, FirstLabel(k.kind))
    BY <1>1 DEF Start
  <2>2. k.kind \in Kinds /\ (k.kind = "propose" => Store[k.cand] \in {k.proj, PERSONAL_PROPOSALS})
    BY CallsWellFormed, CallTypes, CallsAssumption DEF WellFormed
  <2>3. /\ FirstLabel(k.kind) \in {"propose", "build", "mutate", "edit", "hook"}
        /\ FirstLabel(k.kind) = "propose" => k.kind = "propose"
    BY <2>2 DEF FirstLabel, Kinds
  <2>4. /\ \A q \in Procs \ {p} : pc'[q] = pc[q] /\ job'[q] = job[q] /\ draft'[q] = draft[q]
        /\ pc'[p] = FirstLabel(k.kind) /\ job'[p] = k
        /\ UNCHANGED proposals
    BY <1>1, <2>1 DEF Start, Goto, LocalTypes, documents
  <2>5. QED
    BY <2>2, <2>3, <2>4 DEF DraftCurrent
<1>2. ASSUME NEW p \in Procs, ProposeLock(p) PROVE Good
  <2>1. job[p] \in CallType
    BY <1>2 DEF ProposeLock, CallMatchesPosition, WellFormed
  <2>2. /\ \A q \in Procs \ {p} : pc'[q] = pc[q] /\ job'[q] = job[q] /\ draft'[q] = draft[q]
        /\ pc[p] = "propose" /\ job'[p] = job[p] /\ draft'[p] = Merged(job[p])
        /\ UNCHANGED proposals
    BY <1>2 DEF ProposeLock, Goto, LocalTypes, documents
  <2>3. \A c \in Cands : proposals[c] \subseteq draft'[p][c]
    BY <2>1, <2>2, MergedGrows
  <2>4. QED
    BY <2>2, <2>3 DEF DraftCurrent
<1>3. ASSUME NEW p \in Procs, ProposeWrite(p) PROVE Good
  <2>1. /\ \A q \in Procs \ {p} : pc'[q] = pc[q] /\ job'[q] = job[q] /\ draft'[q] = draft[q]
        /\ pc[p] = "proposing" /\ pc'[p] = "proposed" /\ job'[p] = job[p]
    BY <1>3 DEF ProposeWrite, Goto, LocalTypes
  <2>2. \A c \in Cands : /\ Store[c] = Store[job[p].cand] => proposals'[c] = draft[p][c]
                         /\ Store[c] # Store[job[p].cand] => proposals'[c] = proposals[c]
    BY <1>3 DEF ProposeWrite
  <2>3. \A c \in Cands : proposals[c] \subseteq proposals'[c]
    BY <2>1, <2>2 DEF DraftCurrent
  <2>4. \A q \in Procs \ {p} : pc[q] = "proposing" => Store[job[q].cand] # Store[job[p].cand]
    BY <2>1, OneSubmissionPerDocument DEF InProposalLock
  <2>5. \A q \in Procs \ {p} : pc[q] = "proposing" =>
          \A c \in Cands : Store[c] = Store[job[q].cand] => proposals'[c] \subseteq draft[q][c]
    BY <2>2, <2>4 DEF DraftCurrent
  <2>6. QED
    BY <2>1, <2>3, <2>5 DEF DraftCurrent
<1>4. ASSUME NEW p \in Procs, ProposeUnlock(p) PROVE Good
  BY <1>4, OutsideSubmissions DEF ProposeUnlock, Goto, LocalTypes, documents, locals
<1>5. ASSUME NEW p \in Procs,
             Build(p) \/ Approve(p) \/ Mutate(p) \/ Edit(p) \/ Hook(p) \/ Timeout(p) \/ Crash(p)
      PROVE  Good
  BY <1>5, QuietForProposals, OutsideSubmissions
<1>6. QED
  BY <1>1, <1>2, <1>3, <1>4, <1>5 DEF Next, Step, Propose

\* A step or a stutter keeps the drafts up to date.
LEMMA DraftInvStep == DraftInv /\ [Next]_vars => DraftInv'
<1>1. ASSUME DraftInv, Next PROVE DraftInv'
  BY <1>1, LockInvStep, DraftStep DEF DraftInv
<1>2. ASSUME DraftInv, UNCHANGED vars PROVE DraftInv'
  <2>1. LockInv'
    BY <1>2, LockInvStep DEF DraftInv
  <2>2. UNCHANGED <<proposals, pc, job, draft>>
    BY <1>2 DEF vars, documents, locals
  <2>3. QED
    BY <1>2, <2>1, <2>2 DEF DraftInv, DraftCurrent
<1>3. QED
  BY <1>1, <1>2

\* At the start nobody submits anything.
LEMMA InitDrafts == Init => DraftInv
BY InitTypeInv, InitLocks DEF Init, DraftInv, LockInv, DraftCurrent

\* A proposal, and the agents recorded as its sources, are never lost to a
\* concurrent submission into the same document.
THEOREM ProposalsAreKept == Spec => ProposalsGrow
<1>1. DraftInv /\ [Next]_vars => [\A c \in Cands : proposals[c] \subseteq proposals'[c]]_vars
  BY DraftStep
<1>2. QED
  BY <1>1, InitDrafts, DraftInvStep, PTL DEF Spec, ProposalsGrow

-----------------------------------------------------------------------------
\* The queue settles.

\* What the queue of a project should show, and whether v shows w of c: as it
\* is, or a personal candidate not at all.
Now(j) == WithStatus(Items(j), decisions[j])

Shows(v, w, c) == v[c] = w[c] \/ (Store[c] = PERSONAL_PROPOSALS /\ v[c] = "absent")

\* A call that will build the queue of j from what the files hold then, one
\* that is building it, and the calls that hold a view they will publish.
WillBuild(p, j) ==
  /\ job[p].proj = j
  /\ \/ pc[p] \in {"proposed", "build"}
     \/ /\ pc[p] \in {"unlock_target", "unlock_state"}
        /\ stage[p] # "failed" /\ job[p].kind # "remind"

Builds(p, j) == pc[p] \in {"read_state", "unlock_read", "publish"} /\ job[p].proj = j

HoldsView(p) == pc[p] \in {"unlock_read", "publish", "hook_publish"}

Awaited(j) == \E p \in Procs : WillBuild(p, j)

\* Whatever is out of date, in the queue or in a view about to be published,
\* some call will still put right.
QueueCurrent ==
  ~aborted =>
    /\ \A j \in Projects : \/ Awaited(j)
                           \/ \E p \in Procs : Builds(p, j)
                           \/ \A c \in Cands : Shows(queue[j], Now(j), c)
    /\ \A p \in Procs, c \in Cands :
         /\ pc[p] = "read_state" =>
              Awaited(job[p].proj) \/ Shows(view[p], Items(job[p].proj), c)
         /\ HoldsView(p) =>
              Awaited(job[p].proj) \/ Shows(view[p], Now(job[p].proj), c)

\* A hook has read personal proposals only, and they are still proposed; a call
\* that decides has not failed yet.
Prepared ==
  \A p \in Procs :
    /\ pc[p] = "hook_lock" =>
         \A c \in Cands :
           \/ view[p][c] = "absent"
           \/ view[p][c] = "pending" /\ Store[c] = PERSONAL_PROPOSALS /\ proposals[c] # {}
    /\ pc[p] \in {"approve", "approve_target", "append", "record", "mutate", "mutating"} =>
         stage[p] # "failed"

QueueInv == DecisionInv /\ DraftInv /\ Prepared /\ QueueCurrent

\* What a step of p leaves as it is: what every other call is doing.
Others(p) ==
  \A q \in Procs \ {p} : /\ pc'[q] = pc[q] /\ job'[q] = job[q]
                         /\ stage'[q] = stage[q] /\ view'[q] = view[q]

\* Each step of p changes the local variables of p only.
LEMMA OthersAsTheyWere ==
  ASSUME TypeInv, NEW p \in Procs, Start(p) \/ Step(p) \/ Crash(p)
  PROVE  Others(p)
<1> USE DEF TypeInv, TypeOK, LocalTypes, Goto, Return, Others
<1>1. CASE Start(p)
  BY <1>1 DEF Start
<1>2. CASE Build(p)
  <2>1. CASE BuildLock(p) \/ BuildReadState(p) \/ BuildUnlockState(p)
    BY <2>1 DEF BuildLock, BuildReadState, BuildUnlockState, locals
  <2>2. CASE BuildThenReturn(p)
    BY <2>2 DEF BuildThenReturn
  <2>3. CASE BuildThenApprove(p)
    BY <2>3 DEF BuildThenApprove
  <2>4. CASE BuildThenNoise(p)
    BY <2>4 DEF BuildThenNoise
  <2>5. QED
    BY <1>2, <2>1, <2>2, <2>3, <2>4 DEF Build
<1>3. CASE Propose(p)
  BY <1>3 DEF Propose, ProposeLock, ProposeWrite, ProposeUnlock, locals
<1>4. CASE Approve(p)
  <2>1. CASE ApproveLockState(p) \/ ApproveUnlockTarget(p)
    BY <2>1 DEF ApproveLockState, ApproveUnlockTarget, locals
  <2>2. CASE ApproveLockTarget(p)
    BY <2>2 DEF ApproveLockTarget
  <2>3. CASE ApproveAppend(p) \/ ApproveRecord(p)
    BY <2>3 DEF ApproveAppend, ApproveRecord, locals
  <2>4. CASE ApproveWriteFails(p)
    BY <2>4 DEF ApproveWriteFails
  <2>5. QED
    BY <1>4, <2>1, <2>2, <2>3, <2>4 DEF Approve
<1>5. CASE Mutate(p)
  <2>1. CASE MutateLock(p) \/ MutateWrite(p) \/ MutateFails(p)
    BY <2>1 DEF MutateLock, MutateWrite, MutateFails, locals
  <2>2. CASE UnlockStateThenReturn(p) \/ UnlockStateThenBuild(p)
    BY <2>2 DEF UnlockStateThenReturn, UnlockStateThenBuild
  <2>3. QED
    BY <1>5, <2>1, <2>2 DEF Mutate
<1>6. CASE Edit(p)
  BY <1>6 DEF Edit, EditRead, EditWrite
<1>7. CASE Hook(p)
  <2>1. CASE HookReadPersonal(p) \/ HookLock(p) \/ HookDefault(p)
    BY <2>1 DEF HookReadPersonal, HookLock, HookDefault, locals
  <2>2. CASE HookPublish(p) \/ HookKilled(p)
    BY <2>2 DEF HookPublish, HookKilled
  <2>3. QED
    BY <1>7, <2>1, <2>2 DEF Hook
<1>8. CASE Timeout(p) \/ Crash(p)
  BY <1>8 DEF Timeout, Crash
<1>9. QED
  BY <1>1, <1>2, <1>3, <1>4, <1>5, <1>6, <1>7, <1>8 DEF Step

\* A step of p after which p is not about to decide and no hook about to take
\* the queue lock keeps what is prepared, since proposals only grow.
LEMMA QuietForPrepared ==
  ASSUME Prepared, NEW p \in Procs, Others(p),
         \A c \in Cands : proposals[c] \subseteq proposals'[c],
         pc'[p] = "hook_lock" =>
           \A c \in Cands : \/ view'[p][c] = "absent"
                            \/ /\ view'[p][c] = "pending" /\ Store[c] = PERSONAL_PROPOSALS
                               /\ proposals'[c] # {},
         pc'[p] \in {"approve", "approve_target", "append", "record", "mutate", "mutating"} =>
           stage'[p] # "failed"
  PROVE  Prepared'
<1>1. \A c \in Cands : proposals[c] # {} => proposals'[c] # {}
  OBVIOUS
<1>2. QED
  BY <1>1 DEF Prepared, Others

\* Every step keeps what is prepared.
LEMMA PreparedStep ==
  ASSUME DraftInv, Prepared, Next
  PROVE  Prepared'
<1>1. PICK p \in Procs : Start(p) \/ Step(p) \/ Crash(p)
  BY DEF Next
<1>2. Others(p)
  BY <1>1, OthersAsTheyWere DEF DraftInv, LockInv
<1>3. \A c \in Cands : proposals[c] \subseteq proposals'[c]
  BY DraftStep
<1> DEFINE Deciding == {"approve", "approve_target", "append", "record", "mutate", "mutating"}
<1> USE DEF DraftInv, LockInv, TypeInv, TypeOK, LocalTypes, Goto, Return
<1>4. pc'[p] = "hook_lock" =>
        \A c \in Cands : \/ view'[p][c] = "absent"
                         \/ /\ view'[p][c] = "pending" /\ Store[c] = PERSONAL_PROPOSALS
                            /\ proposals'[c] # {}
  <2>1. CASE Start(p)
    <3>1. PICK k \in Calls : pc'[p] = FirstLabel(k.kind)
      BY <2>1 DEF Start
    <3>2. k.kind \in Kinds
      BY CallsWellFormed, CallTypes DEF WellFormed
    <3>3. QED
      BY <3>1, <3>2 DEF FirstLabel, Kinds
  <2>2. CASE Build(p)
    BY <2>2 DEF Build, BuildLock, BuildReadState, BuildUnlockState, BuildThenReturn,
       BuildThenApprove, BuildThenNoise
  <2>3. CASE Propose(p) \/ Approve(p)
    BY <2>3 DEF Propose, ProposeLock, ProposeWrite, ProposeUnlock, Approve,
       ApproveLockState, ApproveLockTarget, ApproveAppend, ApproveRecord,
       ApproveWriteFails, ApproveUnlockTarget
  <2>4. CASE Mutate(p) \/ Edit(p)
    BY <2>4 DEF Mutate, MutateLock, MutateWrite, MutateFails, UnlockStateThenReturn,
       UnlockStateThenBuild, Edit, EditRead, EditWrite
  <2>5. CASE HookReadPersonal(p)
    BY <2>5 DEF HookReadPersonal, documents
  <2>6. CASE HookLock(p) \/ HookDefault(p) \/ HookPublish(p) \/ HookKilled(p)
    BY <2>6 DEF HookLock, HookDefault, HookPublish, HookKilled
  <2>7. CASE Timeout(p) \/ Crash(p)
    BY <2>7 DEF Timeout, Crash
  <2>8. QED
    BY <1>1, <2>1, <2>2, <2>3, <2>4, <2>5, <2>6, <2>7 DEF Step, Hook
<1>5. pc'[p] \in Deciding => stage'[p] # "failed"
  <2>1. CASE Start(p)
    BY <2>1 DEF Start
  <2>2. CASE BuildLock(p) \/ BuildReadState(p) \/ BuildUnlockState(p) \/ BuildThenReturn(p)
    BY <2>2 DEF BuildLock, BuildReadState, BuildUnlockState, BuildThenReturn
  <2>3. CASE BuildThenApprove(p)
    BY <2>3 DEF BuildThenApprove
  <2>4. CASE BuildThenNoise(p)
    BY <2>4 DEF BuildThenNoise
  <2>5. CASE Propose(p)
    BY <2>5 DEF Propose, ProposeLock, ProposeWrite, ProposeUnlock
  <2>6. CASE Approve(p)
    BY <2>6 DEF Prepared, Approve, ApproveLockState, ApproveLockTarget, ApproveAppend,
       ApproveRecord, ApproveWriteFails, ApproveUnlockTarget, locals
  <2>7. CASE Mutate(p) \/ Edit(p)
    BY <2>7 DEF Prepared, Mutate, MutateLock, MutateWrite, MutateFails,
       UnlockStateThenReturn, UnlockStateThenBuild, Edit, EditRead, EditWrite
  <2>8. CASE Hook(p)
    BY <2>8 DEF Hook, HookReadPersonal, HookLock, HookDefault, HookPublish, HookKilled
  <2>9. CASE Timeout(p) \/ Crash(p)
    BY <2>9 DEF Timeout, Crash
  <2>10. QED
    BY <1>1, <2>1, <2>2, <2>3, <2>4, <2>5, <2>6, <2>7, <2>8, <2>9 DEF Step, Build
<1> HIDE DEF DraftInv, LockInv, TypeInv, TypeOK, LocalTypes, Goto, Return
<1>6. QED
  BY <1>2, <1>3, <1>4, <1>5, QuietForPrepared

\* A call that has not returned belongs to a project.
LEMMA CallHasProject ==
  ASSUME TypeInv, NEW p \in Procs, pc[p] # "idle"
  PROVE  job[p] \in CallType /\ job[p].proj \in Projects
BY CallTypes DEF TypeInv, CallMatchesPosition, WellFormed

\* Whoever waits for p to build goes on waiting while p has it to do.
LEMMA StillAwaited ==
  ASSUME NEW p \in Procs, Others(p), NEW j, WillBuild(p, j) => WillBuild(p, j)'
  PROVE  Awaited(j) => Awaited(j)'
BY DEF Awaited, WillBuild, Others

\* What is shown stays shown when proposals and decisions stay.
LEMMA SameShown ==
  ASSUME UNCHANGED <<proposals, decisions>>
  PROVE  \A j : Items(j)' = Items(j) /\ Now(j)' = Now(j)
BY DEF Items, Now, WithStatus, Visible

\* A step of p outside the builds that writes no file a queue is built from,
\* nor the queue, and that forgets no build p has to do.
LEMMA QuietForQueue ==
  ASSUME TypeInv, QueueCurrent, NEW p \in Procs, Others(p),
         UNCHANGED <<proposals, decisions, queue>>, aborted => aborted',
         pc[p] \notin {"read_state", "unlock_read", "publish"},
         pc'[p] \notin {"read_state", "unlock_read", "publish", "hook_publish"},
         \A j \in Projects : WillBuild(p, j) => WillBuild(p, j)'
  PROVE  QueueCurrent'
<1> SUFFICES ASSUME ~aborted'
             PROVE  QueueCurrent'
  BY DEF QueueCurrent
<1>1. ~aborted
  OBVIOUS
<1>2. \A j \in Projects : Awaited(j) => Awaited(j)'
  BY StillAwaited
<1>3. \A j : Items(j)' = Items(j) /\ Now(j)' = Now(j)
  BY SameShown
<1>4. \A q \in Procs : \A j : Builds(q, j) => Builds(q, j)'
  BY DEF Builds, Others
<1>5. \A j \in Projects : \/ Awaited(j)'
                          \/ \E q \in Procs : Builds(q, j)'
                          \/ \A c \in Cands : Shows(queue[j], Now(j), c)'
  <2>1. TAKE j \in Projects
  <2>2. \A c \in Cands : Shows(queue[j], Now(j), c) => Shows(queue[j], Now(j), c)'
    BY <1>3 DEF Shows
  <2>3. QED
    BY <1>1, <1>2, <1>4, <2>2 DEF QueueCurrent
<1>6. ASSUME NEW q \in Procs, NEW c \in Cands
      PROVE  /\ pc'[q] = "read_state" =>
                  Awaited(job[q].proj)' \/ Shows(view[q], Items(job[q].proj), c)'
             /\ HoldsView(q)' =>
                  Awaited(job[q].proj)' \/ Shows(view[q], Now(job[q].proj), c)'
  <2>1. CASE q = p
    BY <2>1 DEF HoldsView
  <2>2. CASE q # p
    <3>1. /\ pc'[q] = pc[q] /\ job'[q] = job[q] /\ view'[q] = view[q]
      BY <2>2 DEF Others
    <3>2. CASE pc[q] = "idle"
      BY <3>1, <3>2 DEF HoldsView
    <3>3. CASE pc[q] # "idle"
      <4>1. job[q].proj \in Projects
        BY <3>3, CallHasProject
      <4>2. Awaited(job[q].proj) => Awaited(job[q].proj)'
        BY <1>2, <3>1, <4>1, StillAwaited DEF Awaited, WillBuild
      <4>3. /\ Items(job[q].proj)' = Items(job[q].proj)
            /\ Now(job[q].proj)' = Now(job[q].proj)
        BY <1>3, <3>1 DEF Items, Now, WithStatus, Visible
      <4>4. /\ Shows(view[q], Items(job[q].proj), c) => Shows(view[q], Items(job[q].proj), c)'
            /\ Shows(view[q], Now(job[q].proj), c) => Shows(view[q], Now(job[q].proj), c)'
        BY <3>1, <4>3 DEF Shows
      <4>5. QED
        BY <1>1, <3>1, <4>2, <4>4 DEF QueueCurrent, HoldsView
    <3>4. QED
      BY <3>2, <3>3
  <2>3. QED
    BY <2>1, <2>2
<1>7. QED
  BY <1>5, <1>6 DEF QueueCurrent

\* Most actions are quiet for the queue.
LEMMA QuietActions ==
  ASSUME DecisionInv, NEW p \in Procs,
         \/ Start(p) \/ ProposeLock(p) \/ ProposeUnlock(p)
         \/ ApproveLockState(p) \/ ApproveLockTarget(p) \/ ApproveAppend(p)
         \/ ApproveWriteFails(p) \/ ApproveUnlockTarget(p)
         \/ MutateLock(p) \/ MutateFails(p)
         \/ UnlockStateThenReturn(p) \/ UnlockStateThenBuild(p)
         \/ Edit(p) \/ HookReadPersonal(p) \/ HookKilled(p)
  PROVE  /\ UNCHANGED <<proposals, decisions, queue>> /\ (aborted => aborted')
         /\ pc[p] \notin {"read_state", "unlock_read", "publish"}
         /\ pc'[p] \notin {"read_state", "unlock_read", "publish", "hook_publish"}
         /\ \A j \in Projects : WillBuild(p, j) => WillBuild(p, j)'
<1> USE DEF DecisionInv, LockInv, TypeInv, TypeOK, LocalTypes, Goto, Return, WillBuild
<1>1. CASE Start(p)
  <2>1. PICK k \in Calls : pc'[p] = FirstLabel(k.kind)
    BY <1>1 DEF Start
  <2>2. k.kind \in Kinds
    BY CallsWellFormed, CallTypes DEF WellFormed
  <2>3. pc'[p] \in {"propose", "build", "mutate", "edit", "hook"}
    BY <2>1, <2>2 DEF FirstLabel, Kinds
  <2>4. QED
    BY <1>1, <2>3 DEF Start, documents, faults
<1>2. CASE ProposeLock(p) \/ ProposeUnlock(p)
  BY <1>2 DEF ProposeLock, ProposeUnlock, documents, locals, faults
<1>3. CASE ApproveLockState(p) \/ ApproveAppend(p)
  BY <1>3 DEF ApproveLockState, ApproveAppend, documents, locals, faults
<1>4. CASE ApproveLockTarget(p)
  BY <1>4 DEF ApproveLockTarget, faults
<1>5. CASE ApproveWriteFails(p)
  BY <1>5 DEF ApproveWriteFails
<1>6. CASE ApproveUnlockTarget(p)
  BY <1>6 DEF ApproveUnlockTarget, documents, locals, faults
<1>7. CASE MutateLock(p) \/ MutateFails(p)
  BY <1>7 DEF MutateLock, MutateFails, documents, faults
<1>8. CASE UnlockStateThenReturn(p)
  BY <1>8 DEF UnlockStateThenReturn, documents, faults
<1>9. CASE UnlockStateThenBuild(p)
  BY <1>9 DEF UnlockStateThenBuild, documents, faults
<1>10. CASE Edit(p)
  BY <1>10 DEF Edit, EditRead, EditWrite, documents, faults
<1>11. CASE HookReadPersonal(p)
  BY <1>11 DEF HookReadPersonal, documents, faults
<1>12. CASE HookKilled(p)
  BY <1>12 DEF HookKilled, documents, faults
<1>13. QED
  BY <1>1, <1>2, <1>3, <1>4, <1>5, <1>6, <1>7, <1>8, <1>9, <1>10, <1>11, <1>12

\* A call that holds the queue lock of a project is the only one inside it.
LEMMA OneBuildPerQueue ==
  ASSUME LockInv, NEW p \in Procs, NEW q \in Procs, p # q, InQueueLock(p), InQueueLock(q)
  PROVE  job[p].proj # job[q].proj
<1>1. job[p].proj \in Projects /\ job[q].proj \in Projects
  BY CallHasProject DEF LockInv, InQueueLock
<1>2. queueLock[job[p].proj] = p /\ queueLock[job[q].proj] = q
  BY <1>1 DEF LockInv, LocksMatchPosition, QueueLockHeld
<1>3. QED
  BY <1>2

\* Nobody is inside a queue lock that is free.
LEMMA NoBuildInFreeQueue ==
  ASSUME LockInv, NEW q \in Procs, InQueueLock(q)
  PROVE  job[q].proj \in Projects /\ queueLock[job[q].proj] # Free
<1>1. job[q].proj \in Projects
  BY CallHasProject DEF LockInv, InQueueLock
<1>2. queueLock[job[q].proj] = q
  BY <1>1 DEF LockInv, LocksMatchPosition, QueueLockHeld
<1>3. QED
  BY <1>1, <1>2, NamesAssumption

\* The view of a call that neither p nor the files concern is as good as before,
\* unless it waited for a build of p.
LEMMA OthersView ==
  ASSUME TypeInv, QueueCurrent, ~aborted, NEW p \in Procs, Others(p),
         UNCHANGED <<proposals, decisions>>,
         NEW q \in Procs \ {p}, NEW c \in Cands,
         pc[q] # "idle" => (WillBuild(p, job[q].proj) => WillBuild(p, job[q].proj)')
  PROVE  /\ pc'[q] = "read_state" =>
              Awaited(job[q].proj)' \/ Shows(view[q], Items(job[q].proj), c)'
         /\ HoldsView(q)' =>
              Awaited(job[q].proj)' \/ Shows(view[q], Now(job[q].proj), c)'
<1>1. /\ pc'[q] = pc[q] /\ job'[q] = job[q] /\ view'[q] = view[q]
  BY DEF Others
<1>2. CASE pc[q] = "idle"
  BY <1>1, <1>2 DEF HoldsView
<1>3. CASE pc[q] # "idle"
  <2>1. Awaited(job[q].proj) => Awaited(job[q].proj)'
    BY <1>1, <1>3, StillAwaited DEF Awaited, WillBuild
  <2>2. /\ Items(job[q].proj)' = Items(job[q].proj)
        /\ Now(job[q].proj)' = Now(job[q].proj)
    BY <1>1 DEF Items, Now, WithStatus, Visible
  <2>3. /\ Shows(view[q], Items(job[q].proj), c) => Shows(view[q], Items(job[q].proj), c)'
        /\ Shows(view[q], Now(job[q].proj), c) => Shows(view[q], Now(job[q].proj), c)'
    BY <1>1, <2>2 DEF Shows
  <2>4. QED
    BY <1>1, <2>1, <2>3 DEF QueueCurrent, HoldsView
<1>4. QED
  BY <1>2, <1>3

\* The lock of the queue is taken and the proposals are read: the view shows
\* them all.
LEMMA BuildLockQueue ==
  ASSUME LockInv, QueueCurrent, NEW p \in Procs, BuildLock(p)
  PROVE  QueueCurrent'
<1> USE DEF LockInv
<1> SUFFICES ASSUME ~aborted'
             PROVE  QueueCurrent'
  BY DEF QueueCurrent
<1> DEFINE j0 == job[p].proj
<1>1. /\ pc[p] = "build" /\ queueLock[j0] = Free
      /\ UNCHANGED <<proposals, decisions, queue, aborted, job>>
      /\ pc'[p] = "read_state" /\ view'[p] = Items(j0)
  BY DEF BuildLock, Goto, documents, faults, TypeInv, TypeOK, LocalTypes
<1>2. Others(p)
  BY OthersAsTheyWere DEF Step, Build
<1>3. \A j : j # j0 => ~WillBuild(p, j)
  BY DEF WillBuild
<1>4. ASSUME NEW j \in Projects
      PROVE  \/ Awaited(j)'
             \/ \E q \in Procs : Builds(q, j)'
             \/ \A c \in Cands : Shows(queue[j], Now(j), c)'
  <2>1. CASE j = j0
    BY <1>1, <2>1 DEF Builds
  <2>2. CASE j # j0
    <3>1. Awaited(j) => Awaited(j)'
      BY <1>2, <1>3, <2>2, StillAwaited
    <3>2. \A q \in Procs : Builds(q, j) => Builds(q, j)'
      BY <1>1, <1>2 DEF Builds, Others
    <3>3. \A c \in Cands : Shows(queue[j], Now(j), c) => Shows(queue[j], Now(j), c)'
      BY <1>1, SameShown DEF Shows
    <3>4. QED
      BY <1>1, <3>1, <3>2, <3>3 DEF QueueCurrent
  <2>3. QED
    BY <2>1, <2>2
<1>5. ASSUME NEW q \in Procs, NEW c \in Cands
      PROVE  /\ pc'[q] = "read_state" =>
                  Awaited(job[q].proj)' \/ Shows(view[q], Items(job[q].proj), c)'
             /\ HoldsView(q)' =>
                  Awaited(job[q].proj)' \/ Shows(view[q], Now(job[q].proj), c)'
  <2>1. CASE q = p
    <3>1. Items(job[p].proj)' = Items(j0)
      BY <1>1 DEF Items, Visible
    <3>2. QED
      BY <1>1, <2>1, <3>1 DEF Shows, HoldsView
  <2>2. CASE q # p
    <3>1. CASE InQueueLock(q)
      <4>1. job[q].proj # j0
        BY <1>1, <3>1, NoBuildInFreeQueue
      <4>2. QED
        BY <1>1, <1>2, <1>3, <2>2, <4>1, OthersView
    <3>2. CASE ~InQueueLock(q)
      BY <1>2, <2>2, <3>2 DEF InQueueLock, HoldsView, Others
    <3>3. QED
      BY <3>1, <3>2
  <2>3. QED
    BY <2>1, <2>2
<1>6. QED
  BY <1>4, <1>5 DEF QueueCurrent

\* The decisions are read into the view, and the state lock is released: what
\* the view showed of the proposals it shows of the decisions.
LEMMA BuildReadsQueue ==
  ASSUME LockInv, QueueCurrent, NEW p \in Procs, BuildReadState(p) \/ BuildUnlockState(p)
  PROVE  QueueCurrent'
<1> USE DEF LockInv
<1> SUFFICES ASSUME ~aborted'
             PROVE  QueueCurrent'
  BY DEF QueueCurrent
<1> DEFINE j0 == job[p].proj
<1>1. /\ pc[p] \in {"read_state", "unlock_read"}
      /\ UNCHANGED <<proposals, decisions, queue, aborted, job>>
      /\ pc'[p] \in {"unlock_read", "publish"}
      /\ pc[p] = "read_state" => view'[p] = WithStatus(view[p], decisions[j0])
      /\ pc[p] = "unlock_read" => view'[p] = view[p]
  BY DEF BuildReadState, BuildUnlockState, Goto, documents, locals, faults,
     TypeInv, TypeOK, LocalTypes
<1>2. Others(p)
  BY OthersAsTheyWere DEF Step, Build
<1>3. \A j : ~WillBuild(p, j)
  BY <1>1 DEF WillBuild
<1>4. \A j : Awaited(j) => Awaited(j)'
  BY <1>2, <1>3, StillAwaited
<1>5. ASSUME NEW j \in Projects
      PROVE  \/ Awaited(j)'
             \/ \E q \in Procs : Builds(q, j)'
             \/ \A c \in Cands : Shows(queue[j], Now(j), c)'
  <2>1. \A q \in Procs : Builds(q, j) => Builds(q, j)'
    BY <1>1, <1>2 DEF Builds, Others
  <2>2. \A c \in Cands : Shows(queue[j], Now(j), c) => Shows(queue[j], Now(j), c)'
    BY <1>1, SameShown DEF Shows
  <2>3. QED
    BY <1>1, <1>4, <2>1, <2>2 DEF QueueCurrent
<1>6. ASSUME NEW q \in Procs, NEW c \in Cands
      PROVE  /\ pc'[q] = "read_state" =>
                  Awaited(job[q].proj)' \/ Shows(view[q], Items(job[q].proj), c)'
             /\ HoldsView(q)' =>
                  Awaited(job[q].proj)' \/ Shows(view[q], Now(job[q].proj), c)'
  <2>1. CASE q = p
    <3>1. Now(job[p].proj)' = Now(j0)
      BY <1>1 DEF Now, Items, WithStatus, Visible
    <3>2. Awaited(j0) => Awaited(job[p].proj)'
      BY <1>1, <1>4 DEF Awaited, WillBuild
    <3>3. CASE pc[p] = "read_state"
      <4>1. Awaited(j0) \/ Shows(view[p], Items(j0), c)
        BY <1>1, <3>3 DEF QueueCurrent
      <4>2. Shows(view[p], Items(j0), c) => Shows(view'[p], Now(j0), c)
        BY <1>1, <3>3 DEF Shows, Now, WithStatus
      <4>3. QED
        BY <1>1, <2>1, <3>1, <3>2, <4>1, <4>2 DEF Shows
    <3>4. CASE pc[p] = "unlock_read"
      <4>1. Awaited(j0) \/ Shows(view[p], Now(j0), c)
        BY <1>1, <3>4 DEF QueueCurrent, HoldsView
      <4>2. QED
        BY <1>1, <2>1, <3>1, <3>2, <3>4, <4>1 DEF Shows
    <3>5. QED
      BY <1>1, <3>3, <3>4
  <2>2. CASE q # p
    BY <1>1, <1>2, <1>3, <2>2, OthersView
  <2>3. QED
    BY <2>1, <2>2
<1>7. QED
  BY <1>5, <1>6 DEF QueueCurrent

\* The queue is written: it is as good as the view was.
LEMMA PublishQueue ==
  ASSUME LockInv, QueueCurrent, NEW p \in Procs,
         BuildThenReturn(p) \/ BuildThenApprove(p) \/ BuildThenNoise(p) \/ HookPublish(p)
  PROVE  QueueCurrent'
<1> USE DEF LockInv
<1> SUFFICES ASSUME ~aborted'
             PROVE  QueueCurrent'
  BY DEF QueueCurrent
<1> DEFINE j0 == job[p].proj
<1>1. /\ pc[p] \in {"publish", "hook_publish"}
      /\ UNCHANGED <<proposals, decisions, aborted>>
      /\ queue' = [queue EXCEPT ![j0] = view[p]]
      /\ pc'[p] \in {"idle", "approve", "build", "mutate"}
  BY DEF BuildThenReturn, BuildThenApprove, BuildThenNoise, HookPublish, Publish,
     Return, Goto, faults, TypeInv, TypeOK, LocalTypes
<1>2. Others(p)
  BY OthersAsTheyWere DEF Step, Build, Hook
<1>3. \A j : ~WillBuild(p, j)
  BY <1>1 DEF WillBuild
<1>4. \A j : Awaited(j) => Awaited(j)'
  BY <1>2, <1>3, StillAwaited
<1>5. ASSUME NEW j \in Projects
      PROVE  \/ Awaited(j)'
             \/ \E q \in Procs : Builds(q, j)'
             \/ \A c \in Cands : Shows(queue[j], Now(j), c)'
  <2>1. CASE j = j0
    <3>1. Awaited(j0) \/ \A c \in Cands : Shows(view[p], Now(j0), c)
      BY <1>1 DEF QueueCurrent, HoldsView
    <3>2. queue'[j] = view[p]
      BY <1>1, <2>1 DEF TypeInv, TypeOK, FileTypes
    <3>3. \A c \in Cands : Shows(view[p], Now(j), c) => Shows(queue[j], Now(j), c)'
      BY <1>1, <3>2, SameShown DEF Shows
    <3>4. QED
      BY <1>4, <2>1, <3>1, <3>3
  <2>2. CASE j # j0
    <3>1. queue'[j] = queue[j]
      BY <1>1, <2>2 DEF TypeInv, TypeOK, FileTypes
    <3>2. \A q \in Procs : Builds(q, j) => Builds(q, j)'
      BY <1>2, <2>2 DEF Builds, Others
    <3>3. \A c \in Cands : Shows(queue[j], Now(j), c) => Shows(queue[j], Now(j), c)'
      BY <1>1, <3>1, SameShown DEF Shows
    <3>4. QED
      BY <1>1, <1>4, <3>2, <3>3 DEF QueueCurrent
  <2>3. QED
    BY <2>1, <2>2
<1>6. ASSUME NEW q \in Procs, NEW c \in Cands
      PROVE  /\ pc'[q] = "read_state" =>
                  Awaited(job[q].proj)' \/ Shows(view[q], Items(job[q].proj), c)'
             /\ HoldsView(q)' =>
                  Awaited(job[q].proj)' \/ Shows(view[q], Now(job[q].proj), c)'
  <2>1. CASE q = p
    BY <1>1, <2>1 DEF HoldsView
  <2>2. CASE q # p
    BY <1>1, <1>2, <1>3, <2>2, OthersView
  <2>3. QED
    BY <2>1, <2>2
<1>7. QED
  BY <1>5, <1>6 DEF QueueCurrent

\* A hook takes the queue lock and reads the project's proposals and state:
\* its view is what the queue should show, but for personal proposals that came
\* after it read those.
LEMMA HookLockQueue ==
  ASSUME DecisionInv, Prepared, QueueCurrent, NEW p \in Procs, HookLock(p)
  PROVE  QueueCurrent'
<1> USE DEF DecisionInv, LockInv
<1> SUFFICES ASSUME ~aborted'
             PROVE  QueueCurrent'
  BY DEF QueueCurrent
<1> DEFINE j0 == job[p].proj
<1>1. /\ pc[p] = "hook_lock" /\ queueLock[j0] = Free
      /\ UNCHANGED <<proposals, decisions, queue, aborted, job>>
      /\ pc'[p] \in {"hook_publish", "hook_default"}
      /\ view'[p] = WithStatus([c \in Cands |-> IF Store[c] = j0 THEN Items(j0)[c]
                                                                 ELSE view[p][c]],
                               decisions[j0])
  BY DEF HookLock, Goto, documents, faults, TypeInv, TypeOK, LocalTypes
<1>2. Others(p)
  BY OthersAsTheyWere DEF Step, Hook
<1>3. \A j : ~WillBuild(p, j)
  BY <1>1 DEF WillBuild
<1>4. \A j : Awaited(j) => Awaited(j)'
  BY <1>2, <1>3, StillAwaited
<1>5. ASSUME NEW j \in Projects
      PROVE  \/ Awaited(j)'
             \/ \E q \in Procs : Builds(q, j)'
             \/ \A c \in Cands : Shows(queue[j], Now(j), c)'
  <2>1. \A q \in Procs : Builds(q, j) => Builds(q, j)'
    BY <1>1, <1>2 DEF Builds, Others
  <2>2. \A c \in Cands : Shows(queue[j], Now(j), c) => Shows(queue[j], Now(j), c)'
    BY <1>1, SameShown DEF Shows
  <2>3. QED
    BY <1>1, <1>4, <2>1, <2>2 DEF QueueCurrent
<1>6. ASSUME NEW q \in Procs, NEW c \in Cands
      PROVE  /\ pc'[q] = "read_state" =>
                  Awaited(job[q].proj)' \/ Shows(view[q], Items(job[q].proj), c)'
             /\ HoldsView(q)' =>
                  Awaited(job[q].proj)' \/ Shows(view[q], Now(job[q].proj), c)'
  <2>1. CASE q = p
    <3>1. Now(job[p].proj)' = Now(j0)
      BY <1>1 DEF Now, Items, WithStatus, Visible
    <3>2. Shows(view'[p], Now(j0), c)
      <4>1. CASE Store[c] = j0
        BY <1>1, <4>1 DEF WithStatus, Now, Shows
      <4>2. CASE Store[c] # j0 /\ view[p][c] = "absent"
        <5>1. view'[p][c] = "absent"
          BY <1>1, <4>2 DEF WithStatus
        <5>2. Store[c] # PERSONAL_PROPOSALS => Now(j0)[c] = "absent"
          BY <4>2 DEF Now, WithStatus, Items, Visible
        <5>3. QED
          BY <5>1, <5>2 DEF Shows
      <4>3. CASE Store[c] # j0 /\ view[p][c] # "absent"
        <5>1. Store[c] = PERSONAL_PROPOSALS /\ view[p][c] = "pending" /\ proposals[c] # {}
          BY <1>1, <4>3 DEF Prepared
        <5>2. view'[p][c] = decisions[j0][c].status
          BY <1>1, <4>3, <5>1 DEF WithStatus
        <5>3. Now(j0)[c] = decisions[j0][c].status
          BY <5>1 DEF Now, WithStatus, Items, Visible
        <5>4. QED
          BY <5>2, <5>3 DEF Shows
      <4>4. QED
        BY <4>1, <4>2, <4>3
    <3>3. QED
      BY <1>1, <2>1, <3>1, <3>2 DEF Shows
  <2>2. CASE q # p
    BY <1>1, <1>2, <1>3, <2>2, OthersView
  <2>3. QED
    BY <2>1, <2>2
<1>7. QED
  BY <1>5, <1>6 DEF QueueCurrent

\* A change of the files that p makes, and will build a queue for: what concerns
\* its own project is awaited, and in other projects what is shown stays shown.
LEMMA ChangeForQueue ==
  ASSUME TypeInv, QueueCurrent, NEW p \in Procs, Others(p),
         UNCHANGED <<queue, aborted, job>>,
         pc[p] \notin {"read_state", "unlock_read", "publish", "hook_publish"},
         pc'[p] \notin {"read_state", "unlock_read", "publish", "hook_publish"},
         WillBuild(p, job[p].proj)',
         \A j \in Projects, c \in Cands : j # job[p].proj =>
           /\ \A v : Shows(v, Items(j), c) => Shows(v, Items(j)', c)
           /\ \A v : Shows(v, Now(j), c) => Shows(v, Now(j)', c)
  PROVE  QueueCurrent'
<1> SUFFICES ASSUME ~aborted'
             PROVE  QueueCurrent'
  BY DEF QueueCurrent
<1> DEFINE j0 == job[p].proj
<1>1. \A j : j # j0 => (Awaited(j) => Awaited(j)')
  BY StillAwaited DEF WillBuild
<1>2. Awaited(j0)'
  BY DEF Awaited, WillBuild
<1>3. ASSUME NEW j \in Projects
      PROVE  \/ Awaited(j)'
             \/ \E q \in Procs : Builds(q, j)'
             \/ \A c \in Cands : Shows(queue[j], Now(j), c)'
  <2>1. CASE j = j0
    BY <1>2, <2>1 DEF Awaited, WillBuild
  <2>2. CASE j # j0
    <3>1. \A q \in Procs : Builds(q, j) => Builds(q, j)'
      BY DEF Builds, Others
    <3>2. \A c \in Cands : Shows(queue[j], Now(j), c) => Shows(queue[j], Now(j), c)'
      BY <2>2 DEF Shows
    <3>3. QED
      BY <1>1, <2>2, <3>1, <3>2 DEF QueueCurrent
  <2>3. QED
    BY <2>1, <2>2
<1>4. ASSUME NEW q \in Procs, NEW c \in Cands
      PROVE  /\ pc'[q] = "read_state" =>
                  Awaited(job[q].proj)' \/ Shows(view[q], Items(job[q].proj), c)'
             /\ HoldsView(q)' =>
                  Awaited(job[q].proj)' \/ Shows(view[q], Now(job[q].proj), c)'
  <2>1. CASE q = p
    BY <2>1 DEF HoldsView
  <2>2. CASE q # p /\ job[q].proj = j0
    BY <1>2, <2>2 DEF Awaited, WillBuild
  <2>3. CASE q # p /\ job[q].proj # j0
    <3>1. pc'[q] = pc[q] /\ view'[q] = view[q]
      BY <2>3 DEF Others
    <3>2. CASE pc[q] = "idle"
      BY <3>1, <3>2 DEF HoldsView
    <3>3. CASE pc[q] # "idle"
      <4>1. job[q].proj \in Projects
        BY <3>3, CallHasProject
      <4>2. Awaited(job[q].proj) => Awaited(job[q].proj)'
        BY <1>1, <2>3 DEF Awaited, WillBuild
      <4>3. /\ Shows(view[q], Items(job[q].proj), c) => Shows(view[q], Items(job[q].proj), c)'
            /\ Shows(view[q], Now(job[q].proj), c) => Shows(view[q], Now(job[q].proj), c)'
        BY <2>3, <3>1, <4>1 DEF Shows
      <4>4. QED
        BY <3>1, <4>2, <4>3 DEF QueueCurrent, HoldsView
    <3>4. QED
      BY <3>2, <3>3
  <2>4. QED
    BY <2>1, <2>2, <2>3
<1>5. QED
  BY <1>3, <1>4 DEF QueueCurrent

\* A submission: its own project waits for the queue it will build; other
\* projects may lack the personal candidate, but do not show it wrongly.
LEMMA ProposeWriteQueue ==
  ASSUME DraftInv, QueueCurrent, Next, NEW p \in Procs, ProposeWrite(p)
  PROVE  QueueCurrent'
<1> USE DEF DraftInv, LockInv
<1>1. /\ pc[p] = "proposing" /\ pc'[p] = "proposed"
      /\ UNCHANGED <<decisions, queue, aborted, job>>
      /\ \A c \in Cands : Store[c] # Store[job[p].cand] => proposals'[c] = proposals[c]
  BY DEF ProposeWrite, Goto, faults, TypeInv, TypeOK, LocalTypes
<1>2. Others(p)
  BY OthersAsTheyWere DEF Step, Propose
<1>3. Store[job[p].cand] \in {job[p].proj, PERSONAL_PROPOSALS}
  BY <1>1 DEF DraftCurrent
<1>4. ASSUME NEW j \in Projects, NEW c \in Cands, j # job[p].proj
      PROVE  /\ \A v : Shows(v, Items(j), c) => Shows(v, Items(j)', c)
             /\ \A v : Shows(v, Now(j), c) => Shows(v, Now(j)', c)
  <2>1. CASE ~Visible(c, j) \/ proposals'[c] = proposals[c]
    <3>1. Items(j)'[c] = Items(j)[c] /\ Now(j)'[c] = Now(j)[c]
      BY <1>1, <2>1 DEF Items, Now, WithStatus, Visible
    <3>2. QED
      BY <3>1 DEF Shows
  <2>2. CASE Visible(c, j) /\ proposals'[c] # proposals[c]
    <3>1. Store[c] = PERSONAL_PROPOSALS
      BY <1>1, <1>3, <1>4, <2>2, NamesAssumption DEF Visible
    <3>2. proposals[c] \subseteq proposals'[c]
      BY DraftStep
    <3>3. CASE proposals[c] = {}
      BY <3>1, <3>3 DEF Shows, Items, Now, WithStatus
    <3>4. CASE proposals[c] # {}
      <4>1. proposals'[c] # {}
        BY <3>2, <3>4
      <4>2. Items(j)'[c] = Items(j)[c] /\ Now(j)'[c] = Now(j)[c]
        BY <1>1, <3>4, <4>1 DEF Items, Now, WithStatus, Visible
      <4>3. QED
        BY <4>2 DEF Shows
    <3>5. QED
      BY <3>3, <3>4
  <2>3. QED
    BY <2>1, <2>2
<1>5. WillBuild(p, job[p].proj)'
  BY <1>1 DEF WillBuild
<1>6. QED
  BY <1>1, <1>2, <1>4, <1>5, ChangeForQueue

\* A decision: the project waits for the queue the call will build, and the
\* decisions of other projects stay.
LEMMA DecideQueue ==
  ASSUME DecisionInv, Prepared, QueueCurrent, NEW p \in Procs,
         ApproveRecord(p) \/ MutateWrite(p)
  PROVE  QueueCurrent'
<1> USE DEF DecisionInv, LockInv
<1>1. /\ pc[p] \in {"record", "mutating"} /\ pc'[p] \in {"unlock_target", "unlock_state"}
      /\ UNCHANGED <<proposals, queue, aborted, job, stage>>
  BY DEF ApproveRecord, MutateWrite, Goto, faults, locals, TypeInv, TypeOK, LocalTypes
<1>2. Others(p)
  BY OthersAsTheyWere DEF Step, Approve, Mutate
<1>3. job[p].proj \in Projects
  BY <1>1, CallHasProject
<1>4. CASE UNCHANGED decisions
  <2>1. \A j \in Projects : ~WillBuild(p, j)
    BY <1>1 DEF WillBuild
  <2>2. QED
    BY <1>1, <1>2, <1>4, <2>1, QuietForQueue
<1>5. CASE decisions' # decisions
  <2>1. \A j \in Projects : j # job[p].proj => decisions'[j] = decisions[j]
    BY <1>3 DEF ApproveRecord, MutateWrite, TypeInv, TypeOK, FileTypes
  <2>2. job[p].kind # "remind"
    <3>1. CASE ApproveRecord(p)
      BY <3>1 DEF ApproveRecord, TypeInv, CallMatchesPosition
    <3>2. CASE MutateWrite(p) /\ job[p].kind = "remind"
      <4>1. state[p] = decisions[job[p].proj]
        BY <3>2 DEF MutateWrite, SnapshotCurrent
      <4>2. QED
        BY <1>3, <1>5, <3>2, <4>1 DEF MutateWrite, TypeInv, TypeOK, FileTypes
    <3>3. QED
      BY <3>1, <3>2
  <2>3. WillBuild(p, job[p].proj)'
    BY <1>1, <2>2 DEF WillBuild, Prepared
  <2>4. ASSUME NEW j \in Projects, NEW c \in Cands, j # job[p].proj
        PROVE  /\ \A v : Shows(v, Items(j), c) => Shows(v, Items(j)', c)
               /\ \A v : Shows(v, Now(j), c) => Shows(v, Now(j)', c)
    <3>1. Items(j)' = Items(j) /\ Now(j)' = Now(j)
      BY <1>1, <2>1, <2>4 DEF Items, Now, WithStatus, Visible
    <3>2. QED
      BY <3>1 DEF Shows
  <2>5. QED
    BY <1>1, <1>2, <2>3, <2>4, ChangeForQueue
<1>6. QED
  BY <1>4, <1>5

\* Every step keeps the queues as current as the running calls can make them.
LEMMA QueueStep ==
  ASSUME QueueInv, Next
  PROVE  QueueCurrent'
<1> USE DEF QueueInv, DecisionInv, LockInv
<1>1. PICK p \in Procs : Start(p) \/ Step(p) \/ Crash(p)
  BY DEF Next
<1>2. Others(p)
  BY <1>1, OthersAsTheyWere
<1>3. CASE \/ Start(p) \/ ProposeLock(p) \/ ProposeUnlock(p)
           \/ ApproveLockState(p) \/ ApproveLockTarget(p) \/ ApproveAppend(p)
           \/ ApproveWriteFails(p) \/ ApproveUnlockTarget(p)
           \/ MutateLock(p) \/ MutateFails(p)
           \/ UnlockStateThenReturn(p) \/ UnlockStateThenBuild(p)
           \/ Edit(p) \/ HookReadPersonal(p) \/ HookKilled(p)
  BY <1>2, <1>3, QuietActions, QuietForQueue
<1>4. CASE Build(p)
  BY <1>4, BuildLockQueue, BuildReadsQueue, PublishQueue DEF Build
<1>5. CASE ProposeWrite(p)
  BY <1>5, ProposeWriteQueue
<1>6. CASE ApproveRecord(p) \/ MutateWrite(p)
  BY <1>6, DecideQueue
<1>7. CASE HookLock(p)
  BY <1>7, HookLockQueue
<1>8. CASE HookDefault(p)
  BY <1>8 DEF HookDefault, SnapshotCurrent
<1>9. CASE HookPublish(p)
  BY <1>9, PublishQueue
<1>10. CASE Timeout(p) \/ Crash(p)
  BY <1>10 DEF Timeout, Crash, QueueCurrent
<1>11. QED
  BY <1>1, <1>3, <1>4, <1>5, <1>6, <1>7, <1>8, <1>9, <1>10
  DEF Step, Propose, Approve, Mutate, Hook

\* A step or a stutter keeps the queues current.
LEMMA QueueInvStep == QueueInv /\ [Next]_vars => QueueInv'
<1>1. ASSUME QueueInv, Next PROVE QueueInv'
  BY <1>1, DecisionInvStep, DraftInvStep, PreparedStep, QueueStep DEF QueueInv
<1>2. ASSUME QueueInv, UNCHANGED vars PROVE QueueInv'
  <2>1. DecisionInv' /\ DraftInv'
    BY <1>2, DecisionInvStep, DraftInvStep DEF QueueInv
  <2>2. UNCHANGED <<proposals, decisions, queue, pc, job, stage, view, aborted>>
    BY <1>2 DEF vars, documents, locals, faults
  <2>3. Prepared'
    BY <1>2, <2>2 DEF QueueInv, Prepared
  <2>4. QueueCurrent'
    BY <1>2, <2>2 DEF QueueInv, QueueCurrent, Awaited, WillBuild, Builds, HoldsView,
       Shows, Now, Items, WithStatus, Visible
  <2>5. QED
    BY <2>1, <2>3, <2>4 DEF QueueInv
<1>3. QED
  BY <1>1, <1>2

\* At the start the queue shows what is proposed, and nothing is decided.
LEMMA InitQueue == Init => Prepared /\ QueueCurrent
<1> SUFFICES ASSUME Init PROVE Prepared /\ QueueCurrent
  OBVIOUS
<1>1. \A j \in Projects : queue[j] = Items(j)
  BY DEF Init, Items, Visible
<1>2. \A j \in Projects, c \in Cands : Now(j)[c] = Items(j)[c]
  BY DEF Init, Now, WithStatus, Items, NoDecisions, Undecided
<1>3. \A j \in Projects, c \in Cands : Shows(queue[j], Now(j), c)
  BY <1>1, <1>2 DEF Shows
<1>4. \A p \in Procs : pc[p] = "idle"
  BY DEF Init
<1>5. QED
  BY <1>3, <1>4 DEF Prepared, QueueCurrent, HoldsView

\* When nothing runs and no call was cut short, every queue shows the decisions
\* as they are; only a personal candidate may be missing from it.  Every project
\* has a state file before its first hook, as for DecisionsAreFinal.
THEOREM QueuesSettle ==
  ASSUME FreshProjects = {}
  PROVE  Spec => []QueueSettled
<1>1. Init => QueueInv
  <2>1. Init => SnapshotCurrent
    BY DEF Init, SnapshotCurrent
  <2>2. QED
    BY <2>1, InitTypeInv, InitLocks, InitDrafts, InitQueue
    DEF QueueInv, DecisionInv, LockInv
<1>2. QueueInv => QueueSettled
  BY DEF QueueInv, QueueCurrent, QueueSettled, Awaited, WillBuild, Builds, Shows, Now
<1>3. QED
  BY <1>1, <1>2, QueueInvStep, PTL DEF Spec

=============================================================================
