-------------------------- MODULE AutoMergeProofs --------------------------
(***************************************************************************)
(* Proofs about AutoMerge, for every set of tasks, every number of         *)
(* repositories, every kind and number of faults and every number of       *)
(* moves.  One lemma for each action says that it keeps the invariant.     *)
(***************************************************************************)
EXTENDS AutoMerge, TLAPS

USE MergeAssumption
USE DEF Repo, AllOf, Status, TaskState, FaultKind, gitVars, closeVars, CheckedRepo

-----------------------------------------------------------------------------
\* The invariant

\* Nothing is staged and no closeout is under way.
LEMMA InitHolds == ASSUME Init PROVE MergeInv
  BY DEF Init, MergeInv, TypeOK, OneTaskPerIndex, ArchiveTellsTheTruth, CloserIsActive,
     CheckedIsClean, ForwardHolds, BackwardHolds

\* A closeout that throws: its task fails, whatever it has staged.
LEMMA AbandonHolds ==
  ASSUME MergeInv, closer # NoTask, Abandon, faults' \in 0..MaxFaults,
         UNCHANGED gitVars \/ Reset(at)
  PROVE  MergeInv'
<1>1. \A r \in Repo : index'[r] \subseteq index[r]
  BY DEF MergeInv, TypeOK, Reset
<1>2. TypeOK'
  BY DEF MergeInv, TypeOK, Abandon, Reset
<1>3. OneTaskPerIndex'
  BY <1>1 DEF MergeInv, OneTaskPerIndex
<1>4. ArchiveTellsTheTruth'
  BY <1>1 DEF MergeInv, TypeOK, ArchiveTellsTheTruth, CloserIsActive, Abandon
<1>5. CloserIsActive'
  BY <1>1 DEF MergeInv, TypeOK, CloserIsActive, Abandon
<1>6. CheckedIsClean' /\ ForwardHolds' /\ BackwardHolds'
  BY DEF CheckedIsClean, ForwardHolds, BackwardHolds, Abandon
<1> QED BY <1>2, <1>3, <1>4, <1>5, <1>6 DEF MergeInv

-----------------------------------------------------------------------------
\* Activation and the closeout

\* Activation: an index that holds a patch is not clean, or it is overlooked.
LEMMA ActivateHolds == ASSUME MergeInv, NEW t \in Task, Activate(t) PROVE MergeInv'
<1>1. task[t] = "waiting" /\ closer = NoTask
      /\ UNCHANGED <<index, edits, blocked, status, closeVars, touched, moves>>
  BY DEF Activate
<1>2. faults' \in 0..MaxFaults
  BY DEF Activate, Fault, MergeInv, TypeOK
<1>3. CASE Starts(t) /\ overlooked' = [overlooked EXCEPT ![t] = Dirty]
  <2>1. TypeOK'
    BY <1>1, <1>2, <1>3 DEF MergeInv, TypeOK, Starts, Dirty
  <2>2. \A r \in Repo : t \in index[r] => r \in overlooked'[t]
    BY <1>3 DEF MergeInv, TypeOK, Dirty, Clean
  <2>3. CloserIsActive'
    BY <1>1, <1>3, <2>2 DEF MergeInv, TypeOK, CloserIsActive, Starts
  <2> QED
    BY <1>1, <1>3, <2>1, <2>3 DEF MergeInv, TypeOK, OneTaskPerIndex, ArchiveTellsTheTruth,
       CheckedIsClean, ForwardHolds, BackwardHolds, Starts
<1>4. CASE task' = [task EXCEPT ![t] = "failed"] /\ UNCHANGED <<moved, merged, overlooked>>
  BY <1>1, <1>2, <1>4 DEF MergeInv, TypeOK, OneTaskPerIndex, ArchiveTellsTheTruth,
     CloserIsActive, CheckedIsClean, ForwardHolds, BackwardHolds
<1> QED BY <1>3, <1>4 DEF Activate

\* A closeout begins when nobody has the queue lock.
LEMMA BeginCloseoutHolds == ASSUME MergeInv, NEW t \in Task, BeginCloseout(t) PROVE MergeInv'
  BY DEF MergeInv, TypeOK, OneTaskPerIndex, ArchiveTellsTheTruth, CloserIsActive,
     CheckedIsClean, ForwardHolds, BackwardHolds, BeginCloseout

\* A task that fails leaves what it has staged.
LEMMA ChildExitsHolds == ASSUME MergeInv, NEW t \in Task, ChildExits(t) PROVE MergeInv'
  BY DEF MergeInv, TypeOK, OneTaskPerIndex, ArchiveTellsTheTruth, CloserIsActive,
     CheckedIsClean, ForwardHolds, BackwardHolds, ChildExits

\* What has been checked is clean, or all is skipped.
LEMMA CheckHolds == ASSUME MergeInv, Check PROVE MergeInv'
<1> DEFINE F == {at} \cap (blocked \cup Dirty)
<1>1. F \subseteq Repo /\ (F = {} => Clean(at))
  BY DEF MergeInv, TypeOK, Dirty
<1>2. Checked(F) /\ pc = "check" /\ UNCHANGED <<task, gitVars, overlooked, touched, faults, moves>>
  BY DEF Check
<1> HIDE DEF F
<1>3. CASE at < N /\ at' = at + 1 /\ bad' = bad \cup F /\ UNCHANGED <<closer, pc, started, status>>
  <2>1. TypeOK'
    BY <1>1, <1>2, <1>3 DEF MergeInv, TypeOK
  <2>2. OneTaskPerIndex' /\ ArchiveTellsTheTruth' /\ CloserIsActive'
    BY <1>2, <1>3 DEF MergeInv, OneTaskPerIndex, ArchiveTellsTheTruth, CloserIsActive
  <2>3. CheckedIsClean'
    <3>1. SUFFICES ASSUME NEW r \in Repo, bad' = {}, r < at'
                   PROVE  index[r] = {} /\ (edits[r] # "none" => r \in touched)
      BY <1>2, <1>3 DEF CheckedIsClean
    <3>2. bad = {} /\ F = {} /\ (r < at \/ r = at)
      <4>1. at \in 1..N /\ at' = at + 1
        BY <1>3 DEF MergeInv, TypeOK
      <4>2. bad = {} /\ F = {}
        BY <1>3, <3>1
      <4> QED BY <3>1, <4>1, <4>2
    <3>3. CASE r = at
      BY <1>1, <3>2, <3>3 DEF Clean
    <3>4. CASE r < at
      BY <1>2, <3>2, <3>4 DEF MergeInv, CheckedIsClean
    <3> QED BY <3>2, <3>3, <3>4
  <2>4. ForwardHolds' /\ BackwardHolds'
    BY <1>2, <1>3 DEF ForwardHolds, BackwardHolds
  <2> QED BY <2>1, <2>2, <2>3, <2>4 DEF MergeInv
<1>4. CASE at = N /\ SkipAll
  BY <1>2, <1>4 DEF MergeInv, TypeOK, OneTaskPerIndex, ArchiveTellsTheTruth,
     CloserIsActive, CheckedIsClean, ForwardHolds, BackwardHolds, SkipAll
<1>5. CASE /\ at = N /\ bad \cup F = {} /\ pc' = "apply" /\ at' = 1
           /\ UNCHANGED <<closer, started, bad, status>>
  <2>1. \A r \in Repo : index[r] = {} /\ (edits[r] # "none" => r \in touched)
    BY <1>1, <1>2, <1>5 DEF MergeInv, TypeOK, CheckedIsClean, Clean
  <2>2. bad' = {} /\ started' = {}
    BY <1>2, <1>5 DEF MergeInv, CloserIsActive
  <2>3. TypeOK' /\ OneTaskPerIndex' /\ ArchiveTellsTheTruth' /\ CloserIsActive'
    BY <1>2, <1>5 DEF MergeInv, TypeOK, OneTaskPerIndex, ArchiveTellsTheTruth, CloserIsActive
  <2>4. CheckedIsClean' /\ ForwardHolds' /\ BackwardHolds'
    BY <1>2, <1>5, <2>1, <2>2 DEF CheckedIsClean, ForwardHolds, BackwardHolds
  <2> QED BY <2>3, <2>4 DEF MergeInv
<1> QED BY <1>2, <1>3, <1>4, <1>5 DEF Checked

\* The patch goes into an index that holds nothing else.
LEMMA ApplyHolds == ASSUME MergeInv, Apply PROVE MergeInv'
<1>1. /\ pc = "apply" /\ pc' = "diff" /\ UNCHANGED <<closer, at, bad>>
      /\ UNCHANGED <<task, edits, blocked, merged, moved, status, started, overlooked, touched, faults,
                     moves>>
  BY DEF Apply, Goes
<1>2. CASE index' = index
  BY <1>1, <1>2 DEF MergeInv, TypeOK, OneTaskPerIndex, ArchiveTellsTheTruth,
     CloserIsActive, CheckedIsClean, ForwardHolds, BackwardHolds
<1>3. CASE index' = Patched
  BY <1>1, <1>3 DEF MergeInv, TypeOK, OneTaskPerIndex, ArchiveTellsTheTruth,
     CloserIsActive, CheckedIsClean, ForwardHolds, BackwardHolds, Patched
<1> QED BY <1>2, <1>3 DEF Apply

\* So it does when it leaves conflicts.
LEMMA ApplyFailsHolds == ASSUME MergeInv, ApplyFails PROVE MergeInv'
<1>1. /\ pc = "apply" /\ pc' = "undo" /\ UNCHANGED <<closer, at, bad>>
      /\ UNCHANGED <<task, edits, blocked, merged, moved, status, started, overlooked, touched,
                     moves>>
  BY DEF ApplyFails, Goes
<1>2. faults' \in 0..MaxFaults
  BY DEF MergeInv, TypeOK, ApplyFails, Fault
<1>3. CASE index' = index
  BY <1>1, <1>2, <1>3 DEF MergeInv, TypeOK, OneTaskPerIndex, ArchiveTellsTheTruth,
     CloserIsActive, CheckedIsClean, ForwardHolds, BackwardHolds
<1>4. CASE index' = Patched
  BY <1>1, <1>2, <1>4 DEF MergeInv, TypeOK, OneTaskPerIndex, ArchiveTellsTheTruth,
     CloserIsActive, CheckedIsClean, ForwardHolds, BackwardHolds, Patched
<1> QED BY <1>3, <1>4 DEF ApplyFails

\* What is staged is the patch, or the operator has come.
LEMMA StagedHolds == ASSUME MergeInv, Staged PROVE MergeInv'
  BY DEF MergeInv, TypeOK, OneTaskPerIndex, ArchiveTellsTheTruth, CloserIsActive,
     CheckedIsClean, ForwardHolds, BackwardHolds, Staged, Report, NextRepo

\* A patch that changes nothing is not in the index.
LEMMA StagedNothingHolds == ASSUME MergeInv, StagedNothing PROVE MergeInv'
  BY DEF MergeInv, TypeOK, OneTaskPerIndex, ArchiveTellsTheTruth, CloserIsActive,
     CheckedIsClean, ForwardHolds, BackwardHolds, StagedNothing, Goes

\* A throw leaves what is staged to a task that has failed.
LEMMA DiffFailsHolds == ASSUME MergeInv, DiffFails PROVE MergeInv'
<1>1. closer # NoTask /\ faults' \in 0..MaxFaults
  BY DEF MergeInv, TypeOK, CloserIsActive, DiffFails, Fault
<1>2. Abandon /\ UNCHANGED gitVars
  BY DEF DiffFails
<1> QED BY <1>1, <1>2, AbandonHolds

\* Clearing takes away what the closeout, or the operator since, has put there.
LEMMA ClearHolds == ASSUME MergeInv, Clear PROVE MergeInv'
  BY DEF MergeInv, TypeOK, OneTaskPerIndex, ArchiveTellsTheTruth, CloserIsActive,
     CheckedIsClean, ForwardHolds, BackwardHolds, Clear, Reset, Goes

\* A failure to clear fails the task.
LEMMA ClearFailsHolds == ASSUME MergeInv, ClearFails PROVE MergeInv'
<1>1. closer # NoTask /\ faults' \in 0..MaxFaults
  BY DEF MergeInv, TypeOK, CloserIsActive, ClearFails, ResetFails, Fault
<1>2. Abandon /\ (UNCHANGED gitVars \/ Reset(at))
  BY DEF ClearFails, ResetFails
<1> QED BY <1>1, <1>2, AbandonHolds

\* A cleared repository holds nothing of the task.
LEMMA ClearedHolds == ASSUME MergeInv, Cleared PROVE MergeInv'
<1>1. faults \in 0..MaxFaults /\ closer # NoTask
  BY DEF MergeInv, TypeOK, CloserIsActive, Cleared
<1>2. CASE Abandon
  BY <1>1, <1>2, AbandonHolds DEF Cleared
<1>3. CASE /\ Clean(at) /\ Report(at, "noop") /\ NextRepo
           /\ UNCHANGED <<task, started, overlooked, touched, moves>>
  <2>1. pc = "cleared" /\ UNCHANGED <<gitVars, faults>>
    BY DEF Cleared
  <2>2. TypeOK' /\ OneTaskPerIndex' /\ ArchiveTellsTheTruth' /\ CloserIsActive'
    BY <1>3, <2>1 DEF MergeInv, TypeOK, OneTaskPerIndex, ArchiveTellsTheTruth, CloserIsActive,
       ForwardHolds, Clean, Report, NextRepo
  <2>3. CheckedIsClean' /\ BackwardHolds'
    BY <1>3, <2>1 DEF MergeInv, TypeOK, CheckedIsClean, BackwardHolds, NextRepo
  <2>4. ForwardHolds'
    <3>1. CASE at = N
      BY <1>3, <3>1 DEF ForwardHolds, NextRepo
    <3>2. CASE at < N
      <4>1. pc' = "apply" /\ at' = at + 1 /\ UNCHANGED <<closer, bad, started, touched, index>>
        BY <1>3, <2>1, <3>2 DEF NextRepo
      <4>2. /\ status'[closer][at] = "noop"
            /\ \A r \in Repo \ {at} : status'[closer][r] = status[closer][r]
        BY <1>3, <2>1 DEF MergeInv, TypeOK, CloserIsActive, Report
      <4>3. closer \notin index[at] /\ at \notin started
        BY <1>3, <2>1 DEF MergeInv, TypeOK, ForwardHolds, Clean
      <4>4. /\ bad = {}
            /\ \A r \in started : r \in Repo /\ r < at /\ status[closer][r] = "applied"
                                  /\ (r \notin touched => closer \in index[r])
            /\ \A r \in Repo \ started : r < at => status[closer][r] = "noop" /\ closer \notin index[r]
            /\ \A r \in Repo : r > at => closer \notin index[r]
        BY <2>1 DEF MergeInv, TypeOK, ForwardHolds
      <4>5. at \in Repo
        BY DEF MergeInv, TypeOK
      <4> QED
        BY <4>1, <4>2, <4>3, <4>4, <4>5 DEF ForwardHolds
    <3> QED BY <3>1, <3>2 DEF MergeInv, TypeOK
  <2> QED BY <2>2, <2>3, <2>4 DEF MergeInv
<1> QED BY <1>2, <1>3 DEF Cleared

\* The rollback of one repository.
LEMMA UndoHolds == ASSUME MergeInv, Undo PROVE MergeInv'
  BY DEF MergeInv, TypeOK, OneTaskPerIndex, ArchiveTellsTheTruth, CloserIsActive,
     CheckedIsClean, ForwardHolds, BackwardHolds, Undo, Reset, Goes

\* A failing rollback goes on with the next repository.
LEMMA UndoFailsHolds == ASSUME MergeInv, UndoFails PROVE MergeInv'
<1> DEFINE F == {at}
<1>1. faults' \in 0..MaxFaults /\ closer # NoTask
  BY DEF MergeInv, TypeOK, CloserIsActive, UndoFails, ResetFails, Fault
<1>2. F \subseteq Repo /\ (F = {} => Clean(at))
  BY DEF MergeInv, TypeOK
<1>3. UndoNext(F) /\ pc \in {"undo", "undone"} /\ (UNCHANGED gitVars \/ Reset(at))
  BY DEF UndoFails, ResetFails
<1> HIDE DEF F
<1>4. CASE Abandon
  BY <1>1, <1>3, <1>4, AbandonHolds
<1>5. ASSUME NEW r \in started, at' = r, started' = started \ {r}, pc' = "undo", bad' = bad \cup F,
             UNCHANGED <<task, status, closer, overlooked, touched, moves>>
      PROVE  MergeInv'
  <2>1. CASE UNCHANGED gitVars
    BY <1>1, <1>2, <1>3, <1>5, <2>1 DEF MergeInv, TypeOK, OneTaskPerIndex,
       ArchiveTellsTheTruth, CloserIsActive, CheckedIsClean, ForwardHolds, BackwardHolds,
       Clean
  <2>2. CASE Reset(at)
    BY <1>1, <1>2, <1>3, <1>5, <2>2 DEF MergeInv, TypeOK, OneTaskPerIndex,
       ArchiveTellsTheTruth, CloserIsActive, CheckedIsClean, ForwardHolds, BackwardHolds,
       Clean, Reset
  <2> QED BY <1>3, <2>1, <2>2
<1>6. F # {}
  BY DEF F
<1> QED BY <1>3, <1>4, <1>5, <1>6 DEF UndoNext

\* After the last rollback nothing of the task is left.
LEMMA UndoneHolds == ASSUME MergeInv, Undone PROVE MergeInv'
<1> DEFINE F == {at} \cap Dirty
<1>1. faults' \in 0..MaxFaults /\ closer # NoTask
  BY DEF MergeInv, TypeOK, CloserIsActive, Undone, Fault
<1>2. F \subseteq Repo /\ (F = {} => Clean(at))
  BY DEF MergeInv, TypeOK, Dirty
<1>3. UndoNext(F) /\ pc \in {"undo", "undone"} /\ UNCHANGED gitVars
  BY DEF Undone
<1> HIDE DEF F
<1>4. CASE Abandon
  BY <1>1, <1>3, <1>4, AbandonHolds
<1>5. ASSUME NEW r \in started, at' = r, started' = started \ {r}, pc' = "undo", bad' = bad \cup F,
             UNCHANGED <<task, status, closer, overlooked, touched, moves>>
      PROVE  MergeInv'
  BY <1>1, <1>2, <1>3, <1>5 DEF MergeInv, TypeOK, OneTaskPerIndex, ArchiveTellsTheTruth,
     CloserIsActive, CheckedIsClean, ForwardHolds, BackwardHolds, Clean
<1>6. CASE started = {} /\ bad \cup F = {} /\ SkipAll /\ UNCHANGED <<task, overlooked, touched, moves>>
  BY <1>1, <1>2, <1>3, <1>6 DEF MergeInv, TypeOK, OneTaskPerIndex, ArchiveTellsTheTruth,
     CloserIsActive, CheckedIsClean, ForwardHolds, BackwardHolds, SkipAll, Clean
<1> QED BY <1>3, <1>4, <1>5, <1>6 DEF UndoNext

\* The archive takes over what has been reported.
LEMMA ArchiveHolds == ASSUME MergeInv, Archive PROVE MergeInv'
  BY DEF MergeInv, TypeOK, OneTaskPerIndex, ArchiveTellsTheTruth, CloserIsActive,
     CheckedIsClean, ForwardHolds, BackwardHolds, Archive

\* A failing archive fails the task.
LEMMA ArchiveFailsHolds == ASSUME MergeInv, ArchiveFails PROVE MergeInv'
<1>1. closer # NoTask /\ faults' \in 0..MaxFaults
  BY DEF MergeInv, TypeOK, CloserIsActive, ArchiveFails, Fault
<1>2. Abandon /\ UNCHANGED gitVars
  BY DEF ArchiveFails
<1> QED BY <1>1, <1>2, AbandonHolds

\* A crash leaves what is staged to a task that has failed.
LEMMA CrashHolds == ASSUME MergeInv, Crash PROVE MergeInv'
<1>1. closer # NoTask /\ faults' \in 0..MaxFaults
  BY DEF MergeInv, TypeOK, CloserIsActive, Crash, Fault
<1>2. Abandon /\ UNCHANGED gitVars
  BY DEF Crash
<1> QED BY <1>1, <1>2, AbandonHolds

-----------------------------------------------------------------------------
\* The operator

\* A change by the operator is marked.
LEMMA EditHolds == ASSUME MergeInv, NEW r \in Repo, Edit(r) PROVE MergeInv'
  BY DEF MergeInv, TypeOK, OneTaskPerIndex, ArchiveTellsTheTruth, CloserIsActive,
     CheckedIsClean, ForwardHolds, BackwardHolds, Edit, In, Moves

\* A commit empties the index.
LEMMA CommitHolds == ASSUME MergeInv, NEW r \in Repo, Commit(r) PROVE MergeInv'
  BY DEF MergeInv, TypeOK, OneTaskPerIndex, ArchiveTellsTheTruth, CloserIsActive,
     CheckedIsClean, ForwardHolds, BackwardHolds, Commit, In, Moves, HeadMoves, Clean

\* So does a reset by the operator.
LEMMA DiscardChangesHolds == ASSUME MergeInv, NEW r \in Repo, DiscardChanges(r) PROVE MergeInv'
  BY DEF MergeInv, TypeOK, OneTaskPerIndex, ArchiveTellsTheTruth, CloserIsActive,
     CheckedIsClean, ForwardHolds, BackwardHolds, DiscardChanges, In, Moves, Clean,
     Reset

\* A merge by the operator leaves the index alone.
LEMMA MergeHolds == ASSUME MergeInv, NEW t \in Task, NEW r \in Repo, Merge(t, r) PROVE MergeInv'
  BY DEF MergeInv, TypeOK, OneTaskPerIndex, ArchiveTellsTheTruth, CloserIsActive,
     CheckedIsClean, ForwardHolds, BackwardHolds, Merge, In, Moves, HeadMoves, Clean

\* Other obstacles are not part of the invariant.
LEMMA BlockHolds == ASSUME MergeInv, NEW r \in Repo, Block(r) PROVE MergeInv'
  BY DEF MergeInv, TypeOK, OneTaskPerIndex, ArchiveTellsTheTruth, CloserIsActive,
     CheckedIsClean, ForwardHolds, BackwardHolds, Block, In, Moves

\* A retried task is not active yet.
LEMMA RetryHolds == ASSUME MergeInv, NEW t \in Task, Retry(t) PROVE MergeInv'
  BY DEF MergeInv, TypeOK, OneTaskPerIndex, ArchiveTellsTheTruth, CloserIsActive,
     CheckedIsClean, ForwardHolds, BackwardHolds, Retry, Moves

-----------------------------------------------------------------------------
\* The theorems

\* Every step, and every stuttering step, keeps the invariant.
LEMMA StepHolds == ASSUME MergeInv, [Next]_vars PROVE MergeInv'
<1>1. CASE UNCHANGED vars
  BY <1>1 DEF MergeInv, TypeOK, OneTaskPerIndex, ArchiveTellsTheTruth, CloserIsActive,
     CheckedIsClean, ForwardHolds, BackwardHolds, vars
<1>2. ASSUME NEW t \in Task, Activate(t) \/ BeginCloseout(t) \/ ChildExits(t) PROVE MergeInv'
  BY <1>2, ActivateHolds, BeginCloseoutHolds, ChildExitsHolds
<1>3. CASE Staging
  BY <1>3, CheckHolds, ApplyHolds, ApplyFailsHolds, StagedHolds, StagedNothingHolds,
     ClearHolds, ClearedHolds DEF Staging
<1>4. CASE Undoing \/ Archive
  BY <1>4, UndoHolds, UndoneHolds, ArchiveHolds DEF Undoing
<1>5. CASE Failing
  BY <1>5, DiffFailsHolds, ClearFailsHolds, UndoFailsHolds, ArchiveFailsHolds,
     CrashHolds DEF Failing
<1>6. CASE Operator
  BY <1>6, EditHolds, CommitHolds, DiscardChangesHolds, MergeHolds, BlockHolds,
     RetryHolds DEF Operator
<1> QED BY <1>1, <1>2, <1>3, <1>4, <1>5, <1>6 DEF Next

\* The invariant of the staging: what is in an index, and whose it is, at every step of
\* a closeout.
THEOREM MergeInvariance == Spec => []MergeInv
<1>1. Init => MergeInv BY InitHolds
<1>2. MergeInv /\ [Next]_vars => MergeInv' BY StepHolds
<1> QED BY <1>1, <1>2, PTL DEF Spec

\* No repository ever has the patches of two tasks in its index.
THEOREM OneTask == Spec => []OneTaskPerIndex
<1>1. MergeInv => OneTaskPerIndex BY DEF MergeInv
<1> QED BY <1>1, MergeInvariance, PTL

\* The status in the archive is what the closeout has done.
THEOREM TrueArchive == Spec => []ArchiveTellsTheTruth
<1>1. MergeInv => ArchiveTellsTheTruth BY DEF MergeInv
<1> QED BY <1>1, MergeInvariance, PTL

-----------------------------------------------------------------------------
\* Rollbacks

\* What one step may take away, if it is not the operator's.
TakesOnlyItsOwn ==
  moves' = moves =>
    \A r \in Repo :
      /\ index[r] \ index'[r] \subseteq {closer}
      /\ edits[r] # "none" /\ edits'[r] = "none" => r \in touched

\* A reset happens in a repository that was found clean: what is there is the patch of
\* the closeout, and what the operator has added since.
LEMMA ResetTakesOnlyItsOwn ==
  ASSUME MergeInv, pc \in {"clear", "undo"}, Reset(at)
  PROVE  TakesOnlyItsOwn
  BY DEF MergeInv, TypeOK, CheckedIsClean, Reset, TakesOnlyItsOwn

\* Every other step of TaskSail only adds to an index.
LEMMA OthersAdd ==
  ASSUME MergeInv, Apply \/ ApplyFails
  PROVE  TakesOnlyItsOwn
<1>1. index' = index \/ index' = Patched
  BY DEF Apply, ApplyFails
<1>2. edits' = edits
  BY DEF Apply, ApplyFails
<1>3. ASSUME NEW r \in Repo PROVE index[r] \subseteq index'[r]
  <2>1. CASE index' = index
    BY <2>1
  <2>2. CASE index' = Patched
    BY <2>2 DEF MergeInv, TypeOK, Patched
  <2> QED BY <1>1, <2>1, <2>2
<1> QED BY <1>2, <1>3 DEF TakesOnlyItsOwn

\* A rollback never takes away another task's patch, nor a change of the operator that
\* was there when the repository was checked.
THEOREM RollbackIsOwn == Spec => RollbackTakesOnlyItsOwn
<1>1. ASSUME MergeInv, [Next]_vars PROVE [TakesOnlyItsOwn]_vars
  <2>1. CASE UNCHANGED vars
    BY <2>1
  <2>2. CASE Reset(at) /\ (Clear \/ Undo \/ ClearFails \/ UndoFails)
    BY <1>1, <2>2, ResetTakesOnlyItsOwn DEF Clear, Undo, ClearFails, UndoFails
  <2>3. CASE Apply \/ ApplyFails
    BY <1>1, <2>3, OthersAdd
  <2>4. CASE UNCHANGED <<index, edits>>
    BY <2>4 DEF TakesOnlyItsOwn
  <2>5. CASE Operator
    BY <1>1, <2>5 DEF Operator, Edit, Commit, DiscardChanges, Merge, Block, Retry, In, Moves,
       MergeInv, TypeOK, TakesOnlyItsOwn
  <2>6. CASE \E t \in Task : Activate(t) \/ BeginCloseout(t) \/ ChildExits(t)
    BY <2>4, <2>6 DEF Activate, BeginCloseout, ChildExits
  <2>7. CASE Check \/ Staged \/ StagedNothing \/ Cleared \/ Undone \/ Archive
    BY <2>4, <2>7 DEF Check, Staged, StagedNothing, Cleared, Undone, Archive
  <2>8. CASE Clear \/ Undo \/ Failing
    BY <2>2, <2>4, <2>8 DEF Clear, Undo, Failing, DiffFails, ClearFails, UndoFails,
       ResetFails, ArchiveFails, Crash
  <2> QED BY <1>1, <2>1, <2>3, <2>5, <2>6, <2>7, <2>8 DEF Next, Staging, Undoing
<1> QED BY <1>1, MergeInvariance, PTL DEF Spec, RollbackTakesOnlyItsOwn, TakesOnlyItsOwn
============================================================================
