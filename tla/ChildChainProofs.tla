-------------------------- MODULE ChildChainProofs --------------------------
(***************************************************************************)
(* Proofs about ChildChain, for every set of tasks, every kind and number  *)
(* of faults and every number of moves.  One lemma for each action says    *)
(* that it keeps the invariant, and one theorem that the chain implements  *)
(* ChainLog.                                                               *)
(***************************************************************************)
EXTENDS ChildChain, TLAPS

USE ChainAssumption
USE DEF fileVars, queueVars, gitVars, laterVars, boundVars, RecordState, Closing,
        QueueLockFree, Completed, Open

-----------------------------------------------------------------------------
\* The invariant

\* An empty chain satisfies every part of the invariant.
LEMMA InitHolds == ASSUME Init PROVE ChainInv
  BY DEF Init, ChainInv, TypeOK, LinearHistory, CompletedIsArchived, CompletedWorkStays,
     ParentsCompleted, StagesHold, BasesHold

-----------------------------------------------------------------------------
\* Planning: the new tip continues the completed task that was the tip.

\* A planned child becomes the tip of the chain.
LEMMA PlanChildHolds == ASSUME ChainInv, NEW t \in Task, NEW p \in Task \cup {Root}, PlanChild(t, p) PROVE ChainInv'
  BY DEF ChainInv, TypeOK, LinearHistory, CompletedIsArchived, CompletedWorkStays,
     ParentsCompleted, StagesHold, BasesHold, PlanChild, Plannable

\* A crash between intake and record leaves the chain as it was.
LEMMA PlanCrashesHolds == ASSUME ChainInv, NEW t \in Task, NEW p \in Task \cup {Root}, PlanCrashes(t, p) PROVE ChainInv'
  BY DEF ChainInv, TypeOK, LinearHistory, CompletedIsArchived, CompletedWorkStays,
     ParentsCompleted, StagesHold, BasesHold, PlanCrashes, Plannable, Fault

-----------------------------------------------------------------------------
\* Queue and activation: the base of an activation is the whole branch.

\* Publishing moves an intake only.
LEMMA PublishHolds == ASSUME ChainInv, NEW t \in Task, Publish(t) PROVE ChainInv'
  BY DEF ChainInv, TypeOK, LinearHistory, CompletedIsArchived, CompletedWorkStays,
     ParentsCompleted, StagesHold, BasesHold, Publish

\* A branch conflict moves an intake only.
LEMMA ReturnToOpenHolds == ASSUME ChainInv, NEW t \in Task, ReturnToOpen(t) PROVE ChainInv'
  BY DEF ChainInv, TypeOK, LinearHistory, CompletedIsArchived, CompletedWorkStays,
     ParentsCompleted, StagesHold, BasesHold, ReturnToOpen

\* The only workspace on the branch starts from all completed work.
LEMMA ActivateHolds == ASSUME ChainInv, NEW t \in Task, Activate(t) PROVE ChainInv'
  BY DEF ChainInv, TypeOK, LinearHistory, CompletedIsArchived, CompletedWorkStays,
     ParentsCompleted, StagesHold, BasesHold, Activate, BranchFree

-----------------------------------------------------------------------------
\* The pipeline and its closeout: each stage adds to what StagesHold says of the next.

\* A pipeline that fails changes neither chain nor branch.
LEMMA AgentFailsHolds == ASSUME ChainInv, NEW t \in Task, AgentFails(t) PROVE ChainInv'
  BY DEF ChainInv, TypeOK, LinearHistory, CompletedIsArchived, CompletedWorkStays,
     ParentsCompleted, StagesHold, BasesHold, AgentFails, At, Fault, Ends

\* A closeout begins under the queue lock with the task on the branch.
LEMMA CloseBeginHolds == ASSUME ChainInv, NEW t \in Task, CloseBegin(t) PROVE ChainInv'
  BY DEF ChainInv, TypeOK, LinearHistory, CompletedIsArchived, CompletedWorkStays,
     ParentsCompleted, StagesHold, BasesHold, CloseBegin, At, Closable, InChain

\* A refused closeout changes neither chain nor branch.
LEMMA CloseRefusedHolds == ASSUME ChainInv, NEW t \in Task, CloseRefused(t) PROVE ChainInv'
  BY DEF ChainInv, TypeOK, LinearHistory, CompletedIsArchived, CompletedWorkStays,
     ParentsCompleted, StagesHold, BasesHold, CloseRefused, Ends, At

\* A closeout that throws leaves the chain as it was.
LEMMA CloseThrowsHolds == ASSUME ChainInv, NEW t \in Task, CloseThrows(t) PROVE ChainInv'
  BY DEF ChainInv, TypeOK, LinearHistory, CompletedIsArchived, CompletedWorkStays,
     ParentsCompleted, StagesHold, BasesHold, CloseThrows, At, Fault, Ends

\* The archive record precedes all that depends on it.
LEMMA CloseFileHolds == ASSUME ChainInv, NEW t \in Task, CloseFile(t) PROVE ChainInv'
  BY DEF ChainInv, TypeOK, LinearHistory, CompletedIsArchived, CompletedWorkStays,
     ParentsCompleted, StagesHold, BasesHold, CloseFile, At, Goes

\* The sentinel says what the archive has done.
LEMMA CloseStampHolds == ASSUME ChainInv, NEW t \in Task, CloseStamp(t) PROVE ChainInv'
  BY DEF ChainInv, TypeOK, LinearHistory, CompletedIsArchived, CompletedWorkStays,
     ParentsCompleted, StagesHold, BasesHold, CloseStamp, At, Goes

\* The intake goes after the archive record.
LEMMA CloseRemoveHolds == ASSUME ChainInv, NEW t \in Task, CloseRemove(t) PROVE ChainInv'
  BY DEF ChainInv, TypeOK, LinearHistory, CompletedIsArchived, CompletedWorkStays,
     ParentsCompleted, StagesHold, BasesHold, CloseRemove, At, Goes, RemoveIntake

\* The workspace is disposed of before the chain advances.
LEMMA CloseUnmarkHolds == ASSUME ChainInv, NEW t \in Task, CloseUnmark(t) PROVE ChainInv'
  BY DEF ChainInv, TypeOK, LinearHistory, CompletedIsArchived, CompletedWorkStays,
     ParentsCompleted, StagesHold, BasesHold, CloseUnmark, At, Goes, Keep

\* The chain advances to an archived task that is on the branch.
LEMMA CloseAdvanceHolds == ASSUME ChainInv, NEW t \in Task, CloseAdvance(t) PROVE ChainInv'
  BY DEF ChainInv, TypeOK, LinearHistory, CompletedIsArchived, CompletedWorkStays,
     ParentsCompleted, StagesHold, BasesHold, CloseAdvance, At, Goes, Ends, Advanceable

\* The queue lock is released.
LEMMA CloseEndHolds == ASSUME ChainInv, NEW t \in Task, CloseEnd(t) PROVE ChainInv'
  BY DEF ChainInv, TypeOK, LinearHistory, CompletedIsArchived, CompletedWorkStays,
     ParentsCompleted, StagesHold, BasesHold, CloseEnd, At

\* A process that dies in any stage leaves the chain as it was.
LEMMA DiesHolds == ASSUME ChainInv, NEW t \in Task, Dies(t) PROVE ChainInv'
  BY DEF ChainInv, TypeOK, LinearHistory, CompletedIsArchived, CompletedWorkStays,
     ParentsCompleted, StagesHold, BasesHold, Dies, Fault, Ends

\* A resumed closeout gives back the slot and leaves the chain alone.
LEMMA ResumeHolds == ASSUME ChainInv, NEW t \in Task, Resume(t) PROVE ChainInv'
  BY DEF ChainInv, TypeOK, LinearHistory, CompletedIsArchived, CompletedWorkStays,
     ParentsCompleted, StagesHold, BasesHold, Resume, Keep, RemoveIntake

-----------------------------------------------------------------------------
\* Failure: BasesHold is what keeps the completed work on the branch.

\* The rollback goes to a base that holds all completed work.
LEMMA FailHolds == ASSUME ChainInv, NEW t \in Task, Fail(t) PROVE ChainInv'
  BY DEF ChainInv, TypeOK, LinearHistory, CompletedIsArchived, CompletedWorkStays,
     ParentsCompleted, StagesHold, BasesHold, Fail, Keep, ToError

\* A task that somebody else disposed of is left alone.
LEMMA FailAlreadyTerminalHolds == ASSUME ChainInv, NEW t \in Task, FailAlreadyTerminal(t) PROVE ChainInv'
  BY DEF ChainInv, TypeOK, LinearHistory, CompletedIsArchived, CompletedWorkStays,
     ParentsCompleted, StagesHold, BasesHold, FailAlreadyTerminal

\* Without a rollback the branch keeps what it has.
LEMMA FailWithoutRollbackHolds == ASSUME ChainInv, NEW t \in Task, FailWithoutRollback(t) PROVE ChainInv'
  BY DEF ChainInv, TypeOK, LinearHistory, CompletedIsArchived, CompletedWorkStays,
     ParentsCompleted, StagesHold, BasesHold, FailWithoutRollback, Fault, ToError

\* Only a tip that is not completed is marked.
LEMMA MarkFailedHolds == ASSUME ChainInv, NEW t \in Task, MarkFailed(t) PROVE ChainInv'
  BY DEF ChainInv, TypeOK, LinearHistory, CompletedIsArchived, CompletedWorkStays,
     ParentsCompleted, StagesHold, BasesHold, MarkFailed

\* The main process forgets what it was going to do.
LEMMA MainStopsHolds == ASSUME ChainInv, MainStops PROVE ChainInv'
  BY DEF ChainInv, TypeOK, LinearHistory, CompletedIsArchived, CompletedWorkStays,
     ParentsCompleted, StagesHold, BasesHold, MainStops, Fault

\* A task without process is going to be failed.
LEMMA RecoverHolds == ASSUME ChainInv, NEW t \in Task, Recover(t) PROVE ChainInv'
  BY DEF ChainInv, TypeOK, LinearHistory, CompletedIsArchived, CompletedWorkStays,
     ParentsCompleted, StagesHold, BasesHold, Recover

-----------------------------------------------------------------------------
\* The operator: ParentsCompleted is what a deletion falls back on.

\* A reopened tip is planned again.
LEMMA MoveToOpenHolds == ASSUME ChainInv, NEW t \in Task, MoveToOpen(t) PROVE ChainInv'
  BY DEF ChainInv, TypeOK, LinearHistory, CompletedIsArchived, CompletedWorkStays,
     ParentsCompleted, StagesHold, BasesHold, MoveToOpen, Moved, Reopenable

\* The retry is not in the chain.
LEMMA RequeueHolds == ASSUME ChainInv, NEW t \in Task, NEW r \in Task, Requeue(t, r) PROVE ChainInv'
  BY DEF ChainInv, TypeOK, LinearHistory, CompletedIsArchived, CompletedWorkStays,
     ParentsCompleted, StagesHold, BasesHold, Requeue, Moved

\* The chain falls back to the completed parent.
LEMMA DeleteOpenOrErrorHolds == ASSUME ChainInv, NEW t \in Task, DeleteOpenOrError(t) PROVE ChainInv'
  BY DEF ChainInv, TypeOK, LinearHistory, CompletedIsArchived, CompletedWorkStays,
     ParentsCompleted, StagesHold, BasesHold, DeleteOpenOrError, Delete, Deletable

\* The check of a deletion changes nothing.
LEMMA DeletePendingCheckHolds == ASSUME ChainInv, NEW t \in Task, DeletePendingCheck(t) PROVE ChainInv'
  BY DEF ChainInv, TypeOK, LinearHistory, CompletedIsArchived, CompletedWorkStays,
     ParentsCompleted, StagesHold, BasesHold, DeletePendingCheck

\* The deletion of a pending task falls back to the completed parent.
LEMMA DeletePendingHolds == ASSUME ChainInv, NEW t \in Task, DeletePending(t) PROVE ChainInv'
  BY DEF ChainInv, TypeOK, LinearHistory, CompletedIsArchived, CompletedWorkStays,
     ParentsCompleted, StagesHold, BasesHold, DeletePending, Delete, Deletable

\* A discarded workspace takes its base along.
LEMMA DiscardHolds == ASSUME ChainInv, NEW t \in Task, Discard(t) PROVE ChainInv'
  BY DEF ChainInv, TypeOK, LinearHistory, CompletedIsArchived, CompletedWorkStays,
     ParentsCompleted, StagesHold, BasesHold, Discard, Keep

-----------------------------------------------------------------------------
\* The invariant as a theorem

\* Every step, and every stuttering step, keeps the invariant.
LEMMA StepHolds == ASSUME ChainInv, [Next]_vars PROVE ChainInv'
<1>1. CASE UNCHANGED vars
  BY <1>1 DEF ChainInv, TypeOK, LinearHistory, CompletedIsArchived, CompletedWorkStays,
     ParentsCompleted, StagesHold, BasesHold, vars
<1>2. CASE MainStops BY <1>2, MainStopsHolds
<1>3. ASSUME NEW t \in Task, ReturnToOpen(t) \/ Activate(t) \/ Resume(t) PROVE ChainInv'
  BY <1>3, ReturnToOpenHolds, ActivateHolds, ResumeHolds
<1>4. ASSUME NEW t \in Task, Closeout(t) PROVE ChainInv'
  BY <1>4, CloseBeginHolds, CloseRefusedHolds, CloseThrowsHolds, CloseFileHolds,
     CloseStampHolds, CloseRemoveHolds, CloseUnmarkHolds, CloseAdvanceHolds,
     CloseEndHolds DEF Closeout
<1>5. ASSUME NEW t \in Task, Failure(t) PROVE ChainInv'
  BY <1>5, AgentFailsHolds, DiesHolds, FailHolds, FailAlreadyTerminalHolds,
     FailWithoutRollbackHolds, MarkFailedHolds, RecoverHolds DEF Failure
<1>6. ASSUME NEW t \in Task, Operator(t) PROVE ChainInv'
  BY <1>6, PublishHolds, MoveToOpenHolds, DeleteOpenOrErrorHolds,
     DeletePendingCheckHolds, DeletePendingHolds, DiscardHolds, RequeueHolds,
     PlanChildHolds, PlanCrashesHolds DEF Operator
<1> QED BY <1>1, <1>2, <1>3, <1>4, <1>5, <1>6 DEF Next

\* The chain file is a line of completed tasks with at most one open tip, completed
\* tasks are archived and on the branch, and no rollback takes them off.
THEOREM ChainInvariance == Spec => []ChainInv
<1>1. Init => ChainInv BY InitHolds
<1>2. ChainInv /\ [Next]_vars => ChainInv' BY StepHolds
<1> QED BY <1>1, <1>2, PTL DEF Spec

\* The rollback of a failed task, whatever failed, was retried or deleted before, keeps
\* the commits of completed tasks on the branch (worktreeBranchOwnership, errorItems).
THEOREM CompletedWorkInvariance == Spec => []CompletedWorkStays
<1>1. ChainInv => CompletedWorkStays BY DEF ChainInv
<1> QED BY <1>1, ChainInvariance, PTL

\* A sentinel is stamped after the archive, so that whatever removes an intake without
\* the chain's record (the closeout, or its resumption) has the archive behind it.
StampedIsArchived == sentinel \subseteq archived

\* An intake leaves the directories only by a deletion, which takes the record of the
\* tip with it, by a requeue, or behind the archive.
LEMMA ReachStep ==
  ASSUME ChainInv, StampedIsArchived, TipIsReachable, [Next]_vars
  PROVE  (StampedIsArchived /\ TipIsReachable)'
<1> USE DEF ChainInv, TypeOK, LinearHistory, ParentsCompleted, StampedIsArchived, TipIsReachable
<1>1. CASE UNCHANGED vars BY <1>1 DEF vars
<1>2. CASE MainStops BY <1>2 DEF MainStops
<1>3. ASSUME NEW t \in Task, ReturnToOpen(t) \/ Activate(t) \/ Resume(t)
      PROVE  (StampedIsArchived /\ TipIsReachable)'
  BY <1>3 DEF ReturnToOpen, Activate, Resume, RemoveIntake, Keep
<1>4. ASSUME NEW t \in Task, Closeout(t) PROVE (StampedIsArchived /\ TipIsReachable)'
  <2>1. CASE CloseBegin(t) \/ CloseRefused(t) \/ CloseThrows(t) \/ CloseFile(t)
    BY <2>1 DEF CloseBegin, CloseRefused, CloseThrows, CloseFile, Ends, Goes
  <2>2. CASE CloseStamp(t) BY <2>2 DEF CloseStamp, StagesHold, At, Goes
  <2>3. CASE CloseRemove(t) BY <2>3 DEF CloseRemove, RemoveIntake, StagesHold, At, Goes
  <2>4. CASE CloseUnmark(t) \/ CloseEnd(t) BY <2>4 DEF CloseUnmark, CloseEnd, Keep, Goes
  <2>5. CASE CloseAdvance(t) BY <2>5 DEF CloseAdvance, Advanceable, Ends, Goes
  <2> QED BY <1>4, <2>1, <2>2, <2>3, <2>4, <2>5 DEF Closeout
<1>5. ASSUME NEW t \in Task, Failure(t) PROVE (StampedIsArchived /\ TipIsReachable)'
  BY <1>5 DEF Failure, AgentFails, Dies, Fail, FailAlreadyTerminal, FailWithoutRollback,
     MarkFailed, Recover, ToError, Ends
<1>6. ASSUME NEW t \in Task, Operator(t) PROVE (StampedIsArchived /\ TipIsReachable)'
  <2>1. CASE Publish(t) \/ MoveToOpen(t) \/ DeletePendingCheck(t) \/ Discard(t)
    BY <2>1 DEF Publish, MoveToOpen, Reopenable, DeletePendingCheck, Discard
  <2>2. CASE DeleteOpenOrError(t) BY <2>2 DEF DeleteOpenOrError, Deletable, Delete
  <2>3. CASE DeletePending(t) BY <2>3 DEF DeletePending, Deletable, Delete
  <2>4. CASE \E r \in Task : Requeue(t, r) BY <2>4 DEF Requeue
  <2>5. CASE \E p \in Task \cup {Root} : PlanChild(t, p) \/ PlanCrashes(t, p)
    BY <2>5 DEF PlanChild, PlanCrashes
  <2> QED BY <1>6, <2>1, <2>2, <2>3, <2>4, <2>5 DEF Operator
<1> QED BY <1>1, <1>2, <1>3, <1>4, <1>5, <1>6 DEF Next

\* No crash, deletion or retry leaves an open tip without an intake (childTaskChainDeletion,
\* resumeCloseout), but for the two cases the property names.
THEOREM TipStaysReachable == Spec => []TipIsReachable
<1>1. Init => StampedIsArchived /\ TipIsReachable
  BY DEF Init, StampedIsArchived, TipIsReachable
<1>2. ChainInv /\ StampedIsArchived /\ TipIsReachable /\ [Next]_vars
        => (StampedIsArchived /\ TipIsReachable)'
  BY ReachStep
<1> QED BY <1>1, <1>2, ChainInvariance, PTL DEF Spec

-----------------------------------------------------------------------------
\* The refinement

\* What the mapping of ImplementsChainLog looks at.
chainVars == <<Completed, IF Open THEN parent[tip] ELSE tip, IF Open THEN tip ELSE NoTask>>

\* An empty chain is an empty log.
LEMMA InitRefines == ASSUME Init PROVE Log!Init
  BY DEF Init, Log!Init

\* An action that leaves the file alone, except for parents of other tasks, stutters.
LEMMA FileUnchanged ==
  ASSUME ChainInv, UNCHANGED <<tip, record>>, tip # Root => parent'[tip] = parent[tip]
  PROVE  UNCHANGED chainVars
  BY DEF chainVars

\* Planning a child is the Plan of the log: the completed tip is what it continues.
LEMMA PlanRefines ==
  ASSUME ChainInv, NEW t \in Task, NEW p \in Task \cup {Root}, PlanChild(t, p)
  PROVE  Log!Plan(t)
  BY DEF ChainInv, TypeOK, LinearHistory, ParentsCompleted, PlanChild, Plannable, Log!Plan

\* The advance of a closeout completes the open task or repeats a completion.
LEMMA AdvanceRefines ==
  ASSUME ChainInv, NEW t \in Task, CloseAdvance(t)
  PROVE  Log!Complete \/ UNCHANGED chainVars
  BY DEF ChainInv, TypeOK, LinearHistory, ParentsCompleted, CloseAdvance, Advanceable, Ends,
     Goes, At, Log!Complete, chainVars

\* A deletion withdraws the open task, or removes a task the chain does not know.
LEMMA DeleteRefines ==
  ASSUME ChainInv, NEW t \in Task, Delete(t), Deletable(t)
  PROVE  Log!Withdraw \/ UNCHANGED chainVars
  BY DEF ChainInv, TypeOK, LinearHistory, ParentsCompleted, Delete, Deletable, Log!Withdraw,
     chainVars

\* Failed and planned are the same to the log: the task is open.
LEMMA RecordRefines ==
  ASSUME ChainInv, NEW t \in Task, MarkFailed(t) \/ MoveToOpen(t)
  PROVE  UNCHANGED chainVars
  BY DEF ChainInv, TypeOK, LinearHistory, MarkFailed, MoveToOpen, Reopenable, chainVars

\* Every step of the chain is a step of the log or changes nothing it shows.
LEMMA StepRefines == ASSUME ChainInv, [Next]_vars PROVE [Log!Next]_chainVars
<1> DEFINE Shown == Log!Next \/ UNCHANGED chainVars
<1>1. CASE UNCHANGED vars
  BY <1>1, FileUnchanged DEF vars
<1>2. CASE MainStops
  BY <1>2, FileUnchanged DEF MainStops
<1>3. ASSUME NEW t \in Task, ReturnToOpen(t) \/ Activate(t) \/ Resume(t) PROVE Shown
  BY <1>3, FileUnchanged DEF ReturnToOpen, Activate, Resume
<1>4. ASSUME NEW t \in Task, Closeout(t) PROVE Shown
  <2>1. CASE CloseAdvance(t)
    BY <2>1, AdvanceRefines DEF Log!Next
  <2>2. CASE CloseBegin(t) \/ CloseRefused(t) \/ CloseThrows(t) \/ CloseFile(t)
    BY <2>2, FileUnchanged DEF CloseBegin, CloseRefused, CloseThrows, CloseFile
  <2>3. CASE CloseStamp(t) \/ CloseRemove(t) \/ CloseUnmark(t) \/ CloseEnd(t)
    BY <2>3, FileUnchanged DEF CloseStamp, CloseRemove, CloseUnmark, CloseEnd
  <2> QED BY <1>4, <2>1, <2>2, <2>3 DEF Closeout
<1>5. ASSUME NEW t \in Task, Failure(t) PROVE Shown
  <2>1. CASE MarkFailed(t)
    BY <2>1, RecordRefines
  <2>2. CASE Fail(t) \/ FailWithoutRollback(t)
    BY <2>2, FileUnchanged DEF Fail, FailWithoutRollback, ToError
  <2>3. CASE AgentFails(t) \/ Dies(t) \/ FailAlreadyTerminal(t) \/ Recover(t)
    BY <2>3, FileUnchanged DEF AgentFails, Dies, FailAlreadyTerminal, Recover
  <2> QED BY <1>5, <2>1, <2>2, <2>3 DEF Failure
<1>6. ASSUME NEW t \in Task, Operator(t) PROVE Shown
  <2>1. CASE MoveToOpen(t)
    BY <2>1, RecordRefines
  <2>2. CASE DeleteOpenOrError(t)
    BY <2>2, DeleteRefines DEF DeleteOpenOrError, Log!Next
  <2>3. CASE DeletePending(t)
    BY <2>3, DeleteRefines, FileUnchanged DEF DeletePending, Log!Next
  <2>4. CASE Publish(t) \/ DeletePendingCheck(t) \/ Discard(t)
    BY <2>4, FileUnchanged DEF Publish, DeletePendingCheck, Discard
  <2>5. ASSUME NEW r \in Task, Requeue(t, r) PROVE Shown
    <3>1. tip # r
      BY <2>5 DEF Requeue, ChainInv, LinearHistory, ParentsCompleted, TypeOK
    <3> QED BY <2>5, <3>1, FileUnchanged DEF Requeue, ChainInv, TypeOK
  <2>6. ASSUME NEW p \in Task \cup {Root}, PlanChild(t, p) PROVE Shown
    BY <2>6, PlanRefines DEF Log!Next
  <2>7. ASSUME NEW p \in Task \cup {Root}, PlanCrashes(t, p) PROVE Shown
    <3>1. tip # t
      BY <2>7 DEF PlanCrashes, ChainInv, LinearHistory, ParentsCompleted, TypeOK
    <3> QED BY <2>7, <3>1, FileUnchanged DEF PlanCrashes, ChainInv, TypeOK
  <2> QED BY <1>6, <2>1, <2>2, <2>3, <2>4, <2>5, <2>6, <2>7 DEF Operator
<1> QED BY <1>1, <1>2, <1>3, <1>4, <1>5, <1>6 DEF Next

\* The chain keeps the promise of ChainLog: completed tasks are never taken back and one
\* task at a time is open on top of the last of them, under every order of closeouts,
\* failures, retries, moves and deletions.
THEOREM ChainRefinement == Spec => ImplementsChainLog
<1>1. Init => Log!Init BY InitRefines
<1>2. ChainInv /\ [Next]_vars => [Log!Next]_chainVars BY StepRefines
<1> QED BY <1>1, <1>2, ChainInvariance, PTL DEF Spec, ImplementsChainLog, Log!Spec, chainVars
=============================================================================
