------------------------- MODULE TaskQueueProofs -------------------------
(***************************************************************************)
(* Proofs about TaskQueue for every set of tasks, cap and mix of faults:   *)
(* the invariant behind the queue lock and the slot count is inductive,    *)
(* and with it that there are never more active tasks than slots, that the *)
(* registry calls completed only what was archived, and that no task is    *)
(* lost.  One lemma per conjunct, one step per action.                     *)
(***************************************************************************)
EXTENDS TaskQueue, FiniteSetTheorems, TLAPS

\* The main thread, the pipeline threads and the exit handlers are different
\* threads; Nobody is none of them.
LEMMA Threads ==
  /\ Main \in Thread /\ Nobody \notin Thread /\ ~IsPipe(Main)
  /\ \A t \in Task : /\ Pipe(t) \in Thread /\ IsPipe(Pipe(t)) /\ Pipe(t)[2] = t
                     /\ Exit(t) \in Thread /\ ~IsPipe(Exit(t)) /\ Exit(t)[2] = t
                     /\ Pipe(t) # Main /\ Exit(t) # Main
  /\ \A t, u \in Task : Pipe(t) # Exit(u)
  /\ \A th \in Thread : IsPipe(th) => \E t \in Task : th = Pipe(t)
BY DEF Main, Nobody, Thread, Pipe, Exit, IsPipe

\* A fault stays within the bound.
LEMMA FaultStep ==
  \A f : TypeOK /\ Fault(f) => faults' \in 0..MaxFaults /\ moves' = moves /\ moved' = moved
BY QueueAssumption DEF TypeOK, Fault

\* So does a move by the operator.
LEMMA MoveStep ==
  \A t \in Task : TypeOK /\ ByOperator(t)
    => moves' \in 0..MaxMoves /\ moved' \subseteq Task /\ faults' = faults
BY QueueAssumption DEF TypeOK, ByOperator

\* A marker more or less changes the number of active tasks by at most one.
LEMMA SlotCount ==
  ASSUME TypeOK
  PROVE  /\ Cardinality(marker) \in Nat
         /\ \A t : /\ Cardinality(marker \ {t}) \in Nat
                   /\ Cardinality(marker \ {t}) <= Cardinality(marker)
         /\ \A t : /\ Cardinality(marker \cup {t}) \in Nat
                   /\ Cardinality(marker \cup {t}) <= Cardinality(marker) + 1
<1>1. IsFiniteSet(marker)
  BY QueueAssumption, FS_Subset DEF TypeOK
<1>2. Cardinality(marker) \in Nat
  BY <1>1, FS_CardinalityType
<1>3. ASSUME NEW t
      PROVE  /\ Cardinality(marker \ {t}) \in Nat
             /\ Cardinality(marker \ {t}) <= Cardinality(marker)
  BY <1>1, <1>2, FS_Subset, FS_CardinalityType, FS_RemoveElement
<1>4. ASSUME NEW t
      PROVE  /\ Cardinality(marker \cup {t}) \in Nat
             /\ Cardinality(marker \cup {t}) <= Cardinality(marker) + 1
  BY <1>1, <1>2, FS_AddElement
<1> QED
  BY <1>2, <1>3, <1>4

\* An exit frees the pipeline thread and may start the exit handler; no other
\* thread moves.
LEMMA HandleStep ==
  ASSUME TypeOK, NEW t \in Task, NEW e, Handle(t, e)
  PROVE  \A th \in Thread :
           \/ pc'[th] = pc[th] /\ arg'[th] = arg[th]
           \/ th = Pipe(t) /\ pc'[th] = "idle" /\ arg'[th] = NoTask
           \/ /\ th = Exit(t) /\ pc[th] = "idle" /\ arg'[th] = t
              /\ pc'[th] \in {"exitResume", "failLock"}
<1>1. CASE ExitSeen(t) /\ e # 0
  BY <1>1, Threads DEF TypeOK, Handle, At
<1>2. CASE ~(ExitSeen(t) /\ e # 0)
  BY <1>2, Threads DEF TypeOK, Handle, Goto, Item
<1> QED
  BY <1>1, <1>2

\* Type correctness.
LEMMA TypeStep == TypeOK /\ OnTask /\ [Next]_vars => TypeOK'
<1> SUFFICES ASSUME TypeOK, OnTask, [Next]_vars PROVE TypeOK'
  OBVIOUS
<1> USE Threads DEF TypeOK, OnTask, LockedAt, FreeAt, Dir, RegState, At, Goto, Item,
             fileVars, processVars, boundVars
<1>1. ASSUME NEW th \in Thread, ActScan(th) PROVE TypeOK'
  <2>1. pc' \in [Thread -> LockedAt \cup FreeAt]
    BY <1>1 DEF ActScan
  <2>2. arg' \in [Thread -> Task \cup {NoTask}]
    BY <1>1 DEF ActScan
  <2>3. UNCHANGED <<fileVars, processVars, boundVars, lock, code, redriven>>
    BY <1>1 DEF ActScan
  <2> QED
    BY <2>1, <2>2, <2>3
<1>2. ASSUME NEW th \in Thread, ActLock(th) PROVE TypeOK'
  BY <1>2 DEF ActLock, Acquire, Finish, Rest
<1>3. ASSUME NEW th \in Thread, ActPick(th) PROVE TypeOK'
  BY <1>3, SMTT(30) DEF ActPick, Release, Finish, Candidates, Rest
<1>4. ASSUME NEW th \in Thread, ActNotReady(th) PROVE TypeOK'
  BY <1>4 DEF ActNotReady, Release, Finish, Ready, Rest
<1>5. ASSUME NEW th \in Thread, ActDirty(th) PROVE TypeOK'
  <2>1. faults' \in 0..MaxFaults /\ UNCHANGED <<moves, moved>>
    BY <1>5, FaultStep DEF ActDirty
  <2> QED
    BY <1>5, <2>1 DEF ActDirty, Release, Finish, Move, Transit, Ready, Rest
<1>6. ASSUME NEW th \in Thread, ActConflict(th) PROVE TypeOK'
  <2>1. faults' \in 0..MaxFaults /\ UNCHANGED <<moves, moved>>
    BY <1>6, FaultStep DEF ActConflict
  <2> QED
    BY <1>6, <2>1 DEF ActConflict, Move, Transit, Ready
<1>7. ASSUME NEW th \in Thread, ActThrow(th) PROVE TypeOK'
  <2>1. workspace' \in [Task -> {"none", "partial", "active", "failed"}]
    BY <1>7 DEF ActThrow
  <2>2. code' \in [Task -> {0, 1, 78}]
    BY <1>7 DEF ActThrow
  <2> QED
    BY <1>7, <2>1, <2>2, FaultStep DEF ActThrow, Release, Finish, Rest
<1>8. ASSUME NEW th \in Thread, ActClaim(th) PROVE TypeOK'
  BY <1>8 DEF ActClaim, Ready
<1>9. ASSUME NEW th \in Thread, ActMark(th) PROVE TypeOK'
  BY <1>9 DEF ActMark
<1>10. ASSUME NEW th \in Thread, ActRegister(th) PROVE TypeOK'
  BY <1>10 DEF ActRegister, Release, Transit
<1>11. ASSUME NEW th \in Thread, ActStart(th) PROVE TypeOK'
  <2> DEFINE t == arg[th]
  <2>1. CASE At(Pipe(t), "idle")
    <3>1. t \in Task /\ Pipe(t) \in Thread
      BY <1>11 DEF ActStart
    <3>2. pc' = [pc EXCEPT ![Pipe(t)] = "boot", ![th] = Rest(th)]
          /\ arg' = [arg EXCEPT ![th] = NoTask, ![Pipe(t)] = t]
      BY <1>11, <2>1 DEF ActStart
    <3>3. /\ pc' \in [Thread -> LockedAt \cup FreeAt]
          /\ arg' \in [Thread -> Task \cup {NoTask}]
      BY <3>1, <3>2 DEF Rest
    <3>4. /\ UNCHANGED <<fileVars, boundVars, lock, up, issued, superseded, discarding>>
          /\ parent' = [parent EXCEPT ![t] = IF IsPipe(th) THEN "none" ELSE "main"]
          /\ code' = [code EXCEPT ![t] = 0]
          /\ disposed' = disposed \ {t} /\ redriven' = redriven \ {th}
      BY <1>11, <2>1 DEF ActStart
    <3> QED
      BY <3>3, <3>4
  <2>2. CASE ~At(Pipe(t), "idle")
    BY <1>11, <2>2, SMTT(30) DEF ActStart, Finish, Rest
  <2> QED
    BY <2>1, <2>2
<1>12. ASSUME NEW th \in Thread, ActStartFails(th) PROVE TypeOK'
  <2>1. faults' \in 0..MaxFaults /\ UNCHANGED <<moves, moved>>
    BY <1>12, FaultStep DEF ActStartFails
  <2> QED
    BY <1>12, <2>1 DEF ActStartFails
<1>13. ASSUME NEW th \in Thread, RollbackWorkspace(th) PROVE TypeOK'
  BY <1>13 DEF RollbackWorkspace, Acquire
<1>14. ASSUME NEW th \in Thread, RollbackMarker(th) PROVE TypeOK'
  <2>1. marker' \subseteq Task /\ reg' \in [Task -> SUBSET RegState]
    BY <1>14 DEF RollbackMarker, Transit
  <2>2. pc' \in [Thread -> LockedAt \cup FreeAt]
    BY <1>14 DEF RollbackMarker, Finish, Rest
  <2>3. arg' \in [Thread -> Task \cup {NoTask}] /\ redriven' \subseteq Thread
    BY <1>14 DEF RollbackMarker, Finish
  <2> QED
    BY <1>14, <2>1, <2>2, <2>3 DEF RollbackMarker, Release
<1>15. ASSUME NEW t \in Task, PipeBoot(t) PROVE TypeOK'
  BY <1>15 DEF PipeBoot
<1>16. ASSUME NEW t \in Task, PipeDone(t) PROVE TypeOK'
  BY <1>16 DEF PipeDone
<1>17. ASSUME NEW t \in Task, PipeFails(t) PROVE TypeOK'
  <2>1. faults' \in 0..MaxFaults /\ UNCHANGED <<moves, moved>>
    BY <1>17, FaultStep DEF PipeFails
  <2> QED
    BY <1>17, <2>1 DEF PipeFails
<1>18. ASSUME NEW t \in Task, PipeExit(t) PROVE TypeOK'
  <2>1. \A th \in Thread : pc'[th] \in LockedAt \cup FreeAt /\ arg'[th] \in Task \cup {NoTask}
    BY <1>18, HandleStep DEF PipeExit
  <2>2. pc' \in [Thread -> LockedAt \cup FreeAt] /\ arg' \in [Thread -> Task \cup {NoTask}]
    BY <1>18, <2>1 DEF PipeExit, Handle
  <2>3. plock' \subseteq Task
    BY <1>18 DEF PipeExit
  <2> QED
    BY <1>18, <2>2, <2>3 DEF PipeExit
<1>19. ASSUME NEW t \in Task, PipeDies(t) PROVE TypeOK'
  <2>1. CASE ExitSeen(t)
    <3>1. pc' = [pc EXCEPT ![Pipe(t)] = "idle", ![Exit(t)] = "failLock"]
          /\ arg' = [arg EXCEPT ![Pipe(t)] = NoTask, ![Exit(t)] = t]
      BY <1>19, <2>1 DEF PipeDies, Handle
    <3> QED
      BY <1>19, <3>1, FaultStep DEF PipeDies
  <2>2. CASE ~ExitSeen(t)
    <3>1. Goto(Pipe(t), "idle") /\ Item(Pipe(t), NoTask)
      BY <1>19, <2>2 DEF PipeDies, Handle
    <3> QED
      BY <1>19, <3>1, FaultStep DEF PipeDies
  <2> QED
    BY <2>1, <2>2
<1>20. ASSUME NEW t \in Task, CloseLock(t) PROVE TypeOK'
  BY <1>20 DEF CloseLock, Acquire, CloseStep
<1>21. ASSUME NEW t \in Task, CloseVerify(t) PROVE TypeOK'
  BY <1>21 DEF CloseVerify, CloseStep
<1>22. ASSUME NEW t \in Task, CloseArchive(t) PROVE TypeOK'
  BY <1>22 DEF CloseArchive, CloseStep
<1>23. ASSUME NEW t \in Task, CloseMerge(t) PROVE TypeOK'
  BY <1>23 DEF CloseMerge, CloseStep
<1>24. ASSUME NEW t \in Task, ClosePending(t) PROVE TypeOK'
  BY <1>24 DEF ClosePending, CloseStep, CompleteItem
<1>25. ASSUME NEW t \in Task, CloseMarker(t) PROVE TypeOK'
  BY <1>25 DEF CloseMarker, CloseStep
<1>26. ASSUME NEW t \in Task, CloseRegister(t) PROVE TypeOK'
  BY <1>26 DEF CloseRegister, Transit, CloseStep
<1>27. ASSUME NEW t \in Task, CloseEnd(t) PROVE TypeOK'
  BY <1>27 DEF CloseEnd, Release, CloseStep
<1>28. ASSUME NEW t \in Task, CloseThrows(t) PROVE TypeOK'
  <2>1. faults' \in 0..MaxFaults /\ UNCHANGED <<moves, moved>>
    BY <1>28, FaultStep DEF CloseThrows
  <2> QED
    BY <1>28, <2>1 DEF CloseThrows
<1>29. ASSUME NEW th \in Thread, FailLock(th) PROVE TypeOK'
  BY <1>29 DEF FailLock, Acquire, Finish, Rest
<1>30. ASSUME NEW th \in Thread, FailRename(th) PROVE TypeOK'
  BY <1>30 DEF FailRename, FailIntake, Move
<1>31. ASSUME NEW th \in Thread, FailRegister(th) PROVE TypeOK'
  BY <1>31 DEF FailRegister, Transit
<1>32. ASSUME NEW th \in Thread, FailMarker(th) PROVE TypeOK'
  BY <1>32 DEF FailMarker, Release, Advance
<1>33. ASSUME NEW th \in Thread, ResLock(th) PROVE TypeOK'
  BY <1>33 DEF ResLock, Acquire, Resumable
<1>34. ASSUME NEW th \in Thread, ResRegister(th) PROVE TypeOK'
  BY <1>34 DEF ResRegister, Transit
<1>35. ASSUME NEW th \in Thread, ResPending(th) PROVE TypeOK'
  BY <1>35 DEF ResPending, CompleteItem
<1>36. ASSUME NEW th \in Thread, ResMarker(th) PROVE TypeOK'
  BY <1>36 DEF ResMarker
<1>37. ASSUME NEW th \in Thread, ResEnd(th) PROVE TypeOK'
  BY <1>37 DEF ResEnd, Release, Advance
<1>38. ASSUME NEW t \in Task, Publish(t) PROVE TypeOK'
  BY <1>38 DEF Publish, MainFree, MainGoes
<1>39. ASSUME NEW t \in Task, MoveToPending(t) PROVE TypeOK'
  BY <1>39 DEF MoveToPending, Move, MainFree, MainGoes
<1>40. ASSUME NEW t \in Task, ReturnToOpen(t) PROVE TypeOK'
  BY <1>40 DEF ReturnToOpen, Move, Transit, MainFree
<1>41. ASSUME NEW t \in Task, NEW u \in Task, Requeue(t, u) PROVE TypeOK'
  BY <1>41, MoveStep, SMTT(30) DEF Requeue, MainFree, MainGoes, RetryIntake
<1>42. ASSUME NEW t \in Task, MoveToOpen(t) PROVE TypeOK'
  BY <1>42, MoveStep DEF MoveToOpen, Move, Transit, MainFree
<1>43. ASSUME NEW t \in Task, Discard(t) PROVE TypeOK'
  BY <1>43 DEF Discard
<1>44. ASSUME NEW t \in Task, RepairMarker(t) PROVE TypeOK'
  BY <1>44 DEF RepairMarker, MainFree
<1>45. ASSUME NEW t \in Task, RecoveryFails(t) PROVE TypeOK'
  BY <1>45 DEF RecoveryFails, MainFree, MainGoes
<1>46. CASE MainStops
  <2>1. faults' \in 0..MaxFaults /\ UNCHANGED <<moves, moved>>
    BY <1>46, FaultStep DEF MainStops
  <2> QED
    BY <1>46, <2>1 DEF MainStops
<1>47. CASE MainStarts
  BY <1>47 DEF MainStarts, RepairedEntry
<1>48. CASE UNCHANGED vars
  BY <1>48 DEF vars
<1>49. ASSUME NEW t \in Task, RecoveryFailsRuntime(t) PROVE TypeOK'
  BY <1>49 DEF RecoveryFailsRuntime, MainFree, MainGoes
<1> QED
  BY <1>1, <1>2, <1>3, <1>4, <1>5, <1>6, <1>7, <1>8, <1>9, <1>10, <1>11, <1>12, <1>13, <1>14,
     <1>15, <1>16, <1>17, <1>18, <1>19, <1>20, <1>21, <1>22, <1>23, <1>24, <1>25, <1>26, <1>27,
     <1>28, <1>29, <1>30, <1>31, <1>32, <1>33, <1>34, <1>35, <1>36, <1>37, <1>38, <1>39, <1>40,
     <1>41, <1>42, <1>43, <1>44, <1>45, <1>46, <1>47, <1>48,
     <1>49 DEF Next, Progress, Operator,
     Failing, Activation, Failure, Resume, Pipeline, Closeout

\* Critical sections and the lock.
LEMMA LockStep == TypeOK /\ OnTask /\ LockDiscipline /\ [Next]_vars => LockDiscipline'
<1> SUFFICES ASSUME TypeOK, OnTask, LockDiscipline, [Next]_vars PROVE LockDiscipline'
  OBVIOUS
<1> USE Threads DEF TypeOK, OnTask, LockDiscipline, LockedAt, At, Goto, MainFree
<1>1. ASSUME NEW th \in Thread, ActScan(th) PROVE LockDiscipline'
  BY <1>1 DEF ActScan
<1>2. ASSUME NEW th \in Thread, ActLock(th) PROVE LockDiscipline'
  BY <1>2 DEF ActLock, Acquire, Finish, Rest
<1>3. ASSUME NEW th \in Thread, ActPick(th) PROVE LockDiscipline'
  BY <1>3 DEF ActPick, Release, Finish, Rest
<1>4. ASSUME NEW th \in Thread, ActNotReady(th) PROVE LockDiscipline'
  BY <1>4 DEF ActNotReady, Release, Finish, Rest
<1>5. ASSUME NEW th \in Thread, ActDirty(th) PROVE LockDiscipline'
  BY <1>5 DEF ActDirty, Release, Finish, Rest
<1>6. ASSUME NEW th \in Thread, ActConflict(th) PROVE LockDiscipline'
  BY <1>6 DEF ActConflict
<1>7. ASSUME NEW th \in Thread, ActThrow(th) PROVE LockDiscipline'
  BY <1>7 DEF ActThrow, Release, Finish, Rest
<1>8. ASSUME NEW th \in Thread, ActClaim(th) PROVE LockDiscipline'
  BY <1>8 DEF ActClaim
<1>9. ASSUME NEW th \in Thread, ActMark(th) PROVE LockDiscipline'
  BY <1>9 DEF ActMark
<1>10. ASSUME NEW th \in Thread, ActRegister(th) PROVE LockDiscipline'
  BY <1>10 DEF ActRegister, Release
<1>11. ASSUME NEW th \in Thread, ActStart(th) PROVE LockDiscipline'
  BY <1>11 DEF ActStart, Rest, Finish
<1>12. ASSUME NEW th \in Thread, ActStartFails(th) PROVE LockDiscipline'
  BY <1>12 DEF ActStartFails
<1>13. ASSUME NEW th \in Thread, RollbackWorkspace(th) PROVE LockDiscipline'
  BY <1>13 DEF RollbackWorkspace, Acquire
<1>14. ASSUME NEW th \in Thread, RollbackMarker(th) PROVE LockDiscipline'
  BY <1>14 DEF RollbackMarker, Release, Finish, Rest
<1>15. ASSUME NEW t \in Task, PipeBoot(t) PROVE LockDiscipline'
  BY <1>15 DEF PipeBoot
<1>16. ASSUME NEW t \in Task, PipeDone(t) PROVE LockDiscipline'
  BY <1>16 DEF PipeDone
<1>17. ASSUME NEW t \in Task, PipeFails(t) PROVE LockDiscipline'
  BY <1>17 DEF PipeFails
<1>18. ASSUME NEW t \in Task, PipeExit(t) PROVE LockDiscipline'
  BY <1>18 DEF PipeExit, Handle, ExitSeen
<1>19. ASSUME NEW t \in Task, PipeDies(t) PROVE LockDiscipline'
  BY <1>19 DEF PipeDies, Handle, ExitSeen
<1>20. ASSUME NEW t \in Task, CloseLock(t) PROVE LockDiscipline'
  BY <1>20 DEF CloseLock, Acquire, CloseStep
<1>21. ASSUME NEW t \in Task, CloseVerify(t) PROVE LockDiscipline'
  BY <1>21 DEF CloseVerify, CloseStep
<1>22. ASSUME NEW t \in Task, CloseArchive(t) PROVE LockDiscipline'
  BY <1>22 DEF CloseArchive, CloseStep
<1>23. ASSUME NEW t \in Task, CloseMerge(t) PROVE LockDiscipline'
  BY <1>23 DEF CloseMerge, CloseStep
<1>24. ASSUME NEW t \in Task, ClosePending(t) PROVE LockDiscipline'
  BY <1>24 DEF ClosePending, CloseStep
<1>25. ASSUME NEW t \in Task, CloseMarker(t) PROVE LockDiscipline'
  BY <1>25 DEF CloseMarker, CloseStep
<1>26. ASSUME NEW t \in Task, CloseRegister(t) PROVE LockDiscipline'
  BY <1>26 DEF CloseRegister, CloseStep
<1>27. ASSUME NEW t \in Task, CloseEnd(t) PROVE LockDiscipline'
  BY <1>27 DEF CloseEnd, Release, CloseStep
<1>28. ASSUME NEW t \in Task, CloseThrows(t) PROVE LockDiscipline'
  BY <1>28 DEF CloseThrows
<1>29. ASSUME NEW th \in Thread, FailLock(th) PROVE LockDiscipline'
  BY <1>29 DEF FailLock, Acquire, Finish, Rest
<1>30. ASSUME NEW th \in Thread, FailRename(th) PROVE LockDiscipline'
  BY <1>30 DEF FailRename
<1>31. ASSUME NEW th \in Thread, FailRegister(th) PROVE LockDiscipline'
  BY <1>31 DEF FailRegister
<1>32. ASSUME NEW th \in Thread, FailMarker(th) PROVE LockDiscipline'
  BY <1>32 DEF FailMarker, Release, Advance
<1>33. ASSUME NEW th \in Thread, ResLock(th) PROVE LockDiscipline'
  BY <1>33 DEF ResLock, Acquire
<1>34. ASSUME NEW th \in Thread, ResRegister(th) PROVE LockDiscipline'
  BY <1>34 DEF ResRegister
<1>35. ASSUME NEW th \in Thread, ResPending(th) PROVE LockDiscipline'
  BY <1>35 DEF ResPending
<1>36. ASSUME NEW th \in Thread, ResMarker(th) PROVE LockDiscipline'
  BY <1>36 DEF ResMarker
<1>37. ASSUME NEW th \in Thread, ResEnd(th) PROVE LockDiscipline'
  BY <1>37 DEF ResEnd, Release, Advance
<1>38. ASSUME NEW t \in Task, Publish(t) PROVE LockDiscipline'
  BY <1>38 DEF Publish, MainGoes
<1>39. ASSUME NEW t \in Task, MoveToPending(t) PROVE LockDiscipline'
  BY <1>39 DEF MoveToPending, MainGoes
<1>40. ASSUME NEW t \in Task, ReturnToOpen(t) PROVE LockDiscipline'
  BY <1>40 DEF ReturnToOpen
<1>41. ASSUME NEW t \in Task, NEW u \in Task, Requeue(t, u) PROVE LockDiscipline'
  BY <1>41 DEF Requeue, MainGoes
<1>42. ASSUME NEW t \in Task, MoveToOpen(t) PROVE LockDiscipline'
  BY <1>42 DEF MoveToOpen
<1>43. ASSUME NEW t \in Task, Discard(t) PROVE LockDiscipline'
  BY <1>43 DEF Discard
<1>44. ASSUME NEW t \in Task, RepairMarker(t) PROVE LockDiscipline'
  BY <1>44 DEF RepairMarker
<1>45. ASSUME NEW t \in Task, RecoveryFails(t) PROVE LockDiscipline'
  BY <1>45 DEF RecoveryFails, MainGoes
<1>46. CASE MainStops
  BY <1>46 DEF MainStops
<1>47. CASE MainStarts
  BY <1>47 DEF MainStarts
<1>48. CASE UNCHANGED vars
  BY <1>48 DEF vars
<1>49. ASSUME NEW t \in Task, RecoveryFailsRuntime(t) PROVE LockDiscipline'
  BY <1>49 DEF RecoveryFailsRuntime, MainGoes
<1> QED
  BY <1>1, <1>2, <1>3, <1>4, <1>5, <1>6, <1>7, <1>8, <1>9, <1>10, <1>11, <1>12, <1>13, <1>14,
     <1>15, <1>16, <1>17, <1>18, <1>19, <1>20, <1>21, <1>22, <1>23, <1>24, <1>25, <1>26, <1>27,
     <1>28, <1>29, <1>30, <1>31, <1>32, <1>33, <1>34, <1>35, <1>36, <1>37, <1>38, <1>39, <1>40,
     <1>41, <1>42, <1>43, <1>44, <1>45, <1>46, <1>47, <1>48,
     <1>49 DEF Next, Progress, Operator,
     Failing, Activation, Failure, Resume, Pipeline, Closeout

\* A thread past its choice of a task has one.
LEMMA OnTaskStep == TypeOK /\ OnTask /\ [Next]_vars => OnTask'
<1> SUFFICES ASSUME TypeOK, OnTask, [Next]_vars PROVE OnTask'
  OBVIOUS
<1> USE Threads, QueueAssumption DEF TypeOK, OnTask, At, Goto, Item, MainFree
<1>1. ASSUME NEW th \in Thread, ActScan(th) PROVE OnTask'
  BY <1>1 DEF ActScan
<1>2. ASSUME NEW th \in Thread, ActLock(th) PROVE OnTask'
  BY <1>2 DEF ActLock, Finish, Rest
<1>3. ASSUME NEW th \in Thread, ActPick(th) PROVE OnTask'
  BY <1>3 DEF ActPick, Finish, Candidates, Rest
<1>4. ASSUME NEW th \in Thread, ActNotReady(th) PROVE OnTask'
  BY <1>4 DEF ActNotReady, Finish, Rest
<1>5. ASSUME NEW th \in Thread, ActDirty(th) PROVE OnTask'
  BY <1>5 DEF ActDirty, Finish, Rest
<1>6. ASSUME NEW th \in Thread, ActConflict(th) PROVE OnTask'
  BY <1>6 DEF ActConflict
<1>7. ASSUME NEW th \in Thread, ActThrow(th) PROVE OnTask'
  BY <1>7 DEF ActThrow, Finish, Rest
<1>8. ASSUME NEW th \in Thread, ActClaim(th) PROVE OnTask'
  BY <1>8 DEF ActClaim
<1>9. ASSUME NEW th \in Thread, ActMark(th) PROVE OnTask'
  BY <1>9 DEF ActMark
<1>10. ASSUME NEW th \in Thread, ActRegister(th) PROVE OnTask'
  BY <1>10 DEF ActRegister
<1>11. ASSUME NEW th \in Thread, ActStart(th) PROVE OnTask'
  <2>1. CASE At(Pipe(arg[th]), "idle")
    <3>1. arg[th] \in Task /\ Pipe(arg[th]) \in Thread /\ pc[th] = "actStart"
      BY <1>11 DEF ActStart
    <3>2. /\ pc' = [pc EXCEPT ![Pipe(arg[th])] = "boot", ![th] = Rest(th)]
          /\ arg' = [arg EXCEPT ![th] = NoTask, ![Pipe(arg[th])] = arg[th]]
      BY <1>11, <2>1 DEF ActStart
    <3> QED
      BY <2>1, <3>1, <3>2 DEF Rest
  <2>2. CASE ~At(Pipe(arg[th]), "idle")
    BY <1>11, <2>2 DEF ActStart, Finish, Rest
  <2> QED
    BY <2>1, <2>2
<1>12. ASSUME NEW th \in Thread, ActStartFails(th) PROVE OnTask'
  BY <1>12 DEF ActStartFails
<1>13. ASSUME NEW th \in Thread, RollbackWorkspace(th) PROVE OnTask'
  BY <1>13 DEF RollbackWorkspace
<1>14. ASSUME NEW th \in Thread, RollbackMarker(th) PROVE OnTask'
  BY <1>14 DEF RollbackMarker, Finish, Rest
<1>15. ASSUME NEW t \in Task, PipeBoot(t) PROVE OnTask'
  BY <1>15 DEF PipeBoot
<1>16. ASSUME NEW t \in Task, PipeDone(t) PROVE OnTask'
  BY <1>16 DEF PipeDone
<1>17. ASSUME NEW t \in Task, PipeFails(t) PROVE OnTask'
  BY <1>17 DEF PipeFails
<1>18. ASSUME NEW t \in Task, PipeExit(t) PROVE OnTask'
  BY <1>18, HandleStep DEF PipeExit
<1>19. ASSUME NEW t \in Task, PipeDies(t) PROVE OnTask'
  BY <1>19, HandleStep DEF PipeDies
<1>20. ASSUME NEW t \in Task, CloseLock(t) PROVE OnTask'
  BY <1>20 DEF CloseLock, CloseStep
<1>21. ASSUME NEW t \in Task, CloseVerify(t) PROVE OnTask'
  BY <1>21 DEF CloseVerify, CloseStep
<1>22. ASSUME NEW t \in Task, CloseArchive(t) PROVE OnTask'
  BY <1>22 DEF CloseArchive, CloseStep
<1>23. ASSUME NEW t \in Task, CloseMerge(t) PROVE OnTask'
  BY <1>23 DEF CloseMerge, CloseStep
<1>24. ASSUME NEW t \in Task, ClosePending(t) PROVE OnTask'
  BY <1>24 DEF ClosePending, CloseStep
<1>25. ASSUME NEW t \in Task, CloseMarker(t) PROVE OnTask'
  BY <1>25 DEF CloseMarker, CloseStep
<1>26. ASSUME NEW t \in Task, CloseRegister(t) PROVE OnTask'
  BY <1>26 DEF CloseRegister, CloseStep
<1>27. ASSUME NEW t \in Task, CloseEnd(t) PROVE OnTask'
  BY <1>27 DEF CloseEnd, CloseStep
<1>28. ASSUME NEW t \in Task, CloseThrows(t) PROVE OnTask'
  BY <1>28 DEF CloseThrows
<1>29. ASSUME NEW th \in Thread, FailLock(th) PROVE OnTask'
  <2>1. CASE Undisposed(arg[th])
    BY <1>29, <2>1 DEF FailLock
  <2>2. CASE ~Undisposed(arg[th])
    BY <1>29, <2>2 DEF FailLock, Finish, Rest
  <2> QED
    BY <2>1, <2>2
<1>30. ASSUME NEW th \in Thread, FailRename(th) PROVE OnTask'
  BY <1>30 DEF FailRename
<1>31. ASSUME NEW th \in Thread, FailRegister(th) PROVE OnTask'
  BY <1>31 DEF FailRegister
<1>32. ASSUME NEW th \in Thread, FailMarker(th) PROVE OnTask'
  BY <1>32 DEF FailMarker, Advance
<1>33. ASSUME NEW th \in Thread, ResLock(th) PROVE OnTask'
  BY <1>33 DEF ResLock
<1>34. ASSUME NEW th \in Thread, ResRegister(th) PROVE OnTask'
  BY <1>34 DEF ResRegister
<1>35. ASSUME NEW th \in Thread, ResPending(th) PROVE OnTask'
  BY <1>35 DEF ResPending
<1>36. ASSUME NEW th \in Thread, ResMarker(th) PROVE OnTask'
  BY <1>36 DEF ResMarker
<1>37. ASSUME NEW th \in Thread, ResEnd(th) PROVE OnTask'
  BY <1>37 DEF ResEnd, Advance
<1>38. ASSUME NEW t \in Task, Publish(t) PROVE OnTask'
  BY <1>38 DEF Publish, MainGoes
<1>39. ASSUME NEW t \in Task, MoveToPending(t) PROVE OnTask'
  BY <1>39 DEF MoveToPending, MainGoes
<1>40. ASSUME NEW t \in Task, ReturnToOpen(t) PROVE OnTask'
  BY <1>40 DEF ReturnToOpen
<1>41. ASSUME NEW t \in Task, NEW u \in Task, Requeue(t, u) PROVE OnTask'
  BY <1>41 DEF Requeue, MainGoes
<1>42. ASSUME NEW t \in Task, MoveToOpen(t) PROVE OnTask'
  BY <1>42 DEF MoveToOpen
<1>43. ASSUME NEW t \in Task, Discard(t) PROVE OnTask'
  BY <1>43 DEF Discard
<1>44. ASSUME NEW t \in Task, RepairMarker(t) PROVE OnTask'
  BY <1>44 DEF RepairMarker
<1>45. ASSUME NEW t \in Task, RecoveryFails(t) PROVE OnTask'
  BY <1>45 DEF RecoveryFails, MainGoes
<1>46. CASE MainStops
  BY <1>46 DEF MainStops
<1>47. CASE MainStarts
  BY <1>47 DEF MainStarts
<1>48. CASE UNCHANGED vars
  BY <1>48 DEF vars
<1>49. ASSUME NEW t \in Task, RecoveryFailsRuntime(t) PROVE OnTask'
  BY <1>49 DEF RecoveryFailsRuntime, MainGoes
<1> QED
  BY <1>1, <1>2, <1>3, <1>4, <1>5, <1>6, <1>7, <1>8, <1>9, <1>10, <1>11, <1>12, <1>13, <1>14,
     <1>15, <1>16, <1>17, <1>18, <1>19, <1>20, <1>21, <1>22, <1>23, <1>24, <1>25, <1>26, <1>27,
     <1>28, <1>29, <1>30, <1>31, <1>32, <1>33, <1>34, <1>35, <1>36, <1>37, <1>38, <1>39, <1>40,
     <1>41, <1>42, <1>43, <1>44, <1>45, <1>46, <1>47, <1>48,
     <1>49 DEF Next, Progress, Operator,
     Failing, Activation, Failure, Resume, Pipeline, Closeout

\* The cap check still holds when the marker is written.
LEMMA RoomStep == TypeOK /\ LockDiscipline /\ RoomForMarker /\ [Next]_vars => RoomForMarker'
<1> SUFFICES ASSUME TypeOK, LockDiscipline, RoomForMarker, [Next]_vars PROVE RoomForMarker'
  OBVIOUS
<1> USE Threads, SlotCount, QueueAssumption DEF TypeOK, LockDiscipline, RoomForMarker, LockedAt,
     At, Goto, MainFree, fileVars
<1>1. ASSUME NEW th \in Thread, ActScan(th) PROVE RoomForMarker'
  BY <1>1 DEF ActScan
<1>2. ASSUME NEW th \in Thread, ActLock(th) PROVE RoomForMarker'
  BY <1>2 DEF ActLock, Finish, HasSlot, Rest
<1>3. ASSUME NEW th \in Thread, ActPick(th) PROVE RoomForMarker'
  BY <1>3 DEF ActPick, Finish, Rest
<1>4. ASSUME NEW th \in Thread, ActNotReady(th) PROVE RoomForMarker'
  BY <1>4 DEF ActNotReady, Finish, Rest
<1>5. ASSUME NEW th \in Thread, ActDirty(th) PROVE RoomForMarker'
  BY <1>5 DEF ActDirty, Finish, Rest
<1>6. ASSUME NEW th \in Thread, ActConflict(th) PROVE RoomForMarker'
  BY <1>6 DEF ActConflict
<1>7. ASSUME NEW th \in Thread, ActThrow(th) PROVE RoomForMarker'
  BY <1>7 DEF ActThrow, Finish, Rest
<1>8. ASSUME NEW th \in Thread, ActClaim(th) PROVE RoomForMarker'
  BY <1>8 DEF ActClaim
<1>9. ASSUME NEW th \in Thread, ActMark(th) PROVE RoomForMarker'
  BY <1>9 DEF ActMark
<1>10. ASSUME NEW th \in Thread, ActRegister(th) PROVE RoomForMarker'
  BY <1>10 DEF ActRegister
<1>11. ASSUME NEW th \in Thread, ActStart(th) PROVE RoomForMarker'
  BY <1>11 DEF ActStart, Rest, Finish
<1>12. ASSUME NEW th \in Thread, ActStartFails(th) PROVE RoomForMarker'
  BY <1>12 DEF ActStartFails
<1>13. ASSUME NEW th \in Thread, RollbackWorkspace(th) PROVE RoomForMarker'
  BY <1>13 DEF RollbackWorkspace
<1>14. ASSUME NEW th \in Thread, RollbackMarker(th) PROVE RoomForMarker'
  BY <1>14 DEF RollbackMarker, Finish, Rest
<1>15. ASSUME NEW t \in Task, PipeBoot(t) PROVE RoomForMarker'
  BY <1>15 DEF PipeBoot
<1>16. ASSUME NEW t \in Task, PipeDone(t) PROVE RoomForMarker'
  BY <1>16 DEF PipeDone
<1>17. ASSUME NEW t \in Task, PipeFails(t) PROVE RoomForMarker'
  BY <1>17 DEF PipeFails
<1>18. ASSUME NEW t \in Task, PipeExit(t) PROVE RoomForMarker'
  BY <1>18, HandleStep DEF PipeExit
<1>19. ASSUME NEW t \in Task, PipeDies(t) PROVE RoomForMarker'
  BY <1>19, HandleStep DEF PipeDies
<1>20. ASSUME NEW t \in Task, CloseLock(t) PROVE RoomForMarker'
  BY <1>20 DEF CloseLock, CloseStep
<1>21. ASSUME NEW t \in Task, CloseVerify(t) PROVE RoomForMarker'
  BY <1>21 DEF CloseVerify, CloseStep
<1>22. ASSUME NEW t \in Task, CloseArchive(t) PROVE RoomForMarker'
  BY <1>22 DEF CloseArchive, CloseStep
<1>23. ASSUME NEW t \in Task, CloseMerge(t) PROVE RoomForMarker'
  BY <1>23 DEF CloseMerge, CloseStep
<1>24. ASSUME NEW t \in Task, ClosePending(t) PROVE RoomForMarker'
  BY <1>24 DEF ClosePending, CloseStep
<1>25. ASSUME NEW t \in Task, CloseMarker(t) PROVE RoomForMarker'
  BY <1>25 DEF CloseMarker, CloseStep
<1>26. ASSUME NEW t \in Task, CloseRegister(t) PROVE RoomForMarker'
  BY <1>26 DEF CloseRegister, CloseStep
<1>27. ASSUME NEW t \in Task, CloseEnd(t) PROVE RoomForMarker'
  BY <1>27 DEF CloseEnd, CloseStep
<1>28. ASSUME NEW t \in Task, CloseThrows(t) PROVE RoomForMarker'
  BY <1>28 DEF CloseThrows
<1>29. ASSUME NEW th \in Thread, FailLock(th) PROVE RoomForMarker'
  BY <1>29 DEF FailLock, Finish, Rest
<1>30. ASSUME NEW th \in Thread, FailRename(th) PROVE RoomForMarker'
  BY <1>30 DEF FailRename
<1>31. ASSUME NEW th \in Thread, FailRegister(th) PROVE RoomForMarker'
  BY <1>31 DEF FailRegister
<1>32. ASSUME NEW th \in Thread, FailMarker(th) PROVE RoomForMarker'
  BY <1>32 DEF FailMarker, Advance
<1>33. ASSUME NEW th \in Thread, ResLock(th) PROVE RoomForMarker'
  BY <1>33 DEF ResLock
<1>34. ASSUME NEW th \in Thread, ResRegister(th) PROVE RoomForMarker'
  BY <1>34 DEF ResRegister
<1>35. ASSUME NEW th \in Thread, ResPending(th) PROVE RoomForMarker'
  BY <1>35 DEF ResPending
<1>36. ASSUME NEW th \in Thread, ResMarker(th) PROVE RoomForMarker'
  BY <1>36 DEF ResMarker
<1>37. ASSUME NEW th \in Thread, ResEnd(th) PROVE RoomForMarker'
  BY <1>37 DEF ResEnd, Advance
<1>38. ASSUME NEW t \in Task, Publish(t) PROVE RoomForMarker'
  BY <1>38 DEF Publish, MainGoes
<1>39. ASSUME NEW t \in Task, MoveToPending(t) PROVE RoomForMarker'
  BY <1>39 DEF MoveToPending, MainGoes
<1>40. ASSUME NEW t \in Task, ReturnToOpen(t) PROVE RoomForMarker'
  BY <1>40 DEF ReturnToOpen
<1>41. ASSUME NEW t \in Task, NEW u \in Task, Requeue(t, u) PROVE RoomForMarker'
  BY <1>41 DEF Requeue, MainGoes
<1>42. ASSUME NEW t \in Task, MoveToOpen(t) PROVE RoomForMarker'
  BY <1>42 DEF MoveToOpen
<1>43. ASSUME NEW t \in Task, Discard(t) PROVE RoomForMarker'
  BY <1>43 DEF Discard
<1>44. ASSUME NEW t \in Task, RepairMarker(t) PROVE RoomForMarker'
  BY <1>44 DEF RepairMarker
<1>45. ASSUME NEW t \in Task, RecoveryFails(t) PROVE RoomForMarker'
  BY <1>45 DEF RecoveryFails, MainGoes
<1>46. CASE MainStops
  BY <1>46 DEF MainStops
<1>47. CASE MainStarts
  BY <1>47 DEF MainStarts
<1>48. CASE UNCHANGED vars
  BY <1>48 DEF vars
<1>49. ASSUME NEW t \in Task, RecoveryFailsRuntime(t) PROVE RoomForMarker'
  BY <1>49 DEF RecoveryFailsRuntime, MainGoes
<1> QED
  BY <1>1, <1>2, <1>3, <1>4, <1>5, <1>6, <1>7, <1>8, <1>9, <1>10, <1>11, <1>12, <1>13, <1>14,
     <1>15, <1>16, <1>17, <1>18, <1>19, <1>20, <1>21, <1>22, <1>23, <1>24, <1>25, <1>26, <1>27,
     <1>28, <1>29, <1>30, <1>31, <1>32, <1>33, <1>34, <1>35, <1>36, <1>37, <1>38, <1>39, <1>40,
     <1>41, <1>42, <1>43, <1>44, <1>45, <1>46, <1>47, <1>48,
     <1>49 DEF Next, Progress, Operator,
     Failing, Activation, Failure, Resume, Pipeline, Closeout

\* Nothing behind the archive step happens without the archive.
LEMMA ArchiveStep ==
  TypeOK /\ OnTask /\ LockDiscipline /\ ArchiveFirst /\ [Next]_vars => ArchiveFirst'
<1> SUFFICES ASSUME TypeOK, OnTask, LockDiscipline, ArchiveFirst, [Next]_vars PROVE ArchiveFirst'
  OBVIOUS
<1> USE Threads DEF TypeOK, OnTask, LockDiscipline, LockedAt, ArchiveFirst, At, Goto, Item,
     MainFree, fileVars
<1>1. ASSUME NEW th \in Thread, ActScan(th) PROVE ArchiveFirst'
  BY <1>1 DEF ActScan, Resumable
<1>2. ASSUME NEW th \in Thread, ActLock(th) PROVE ArchiveFirst'
  BY <1>2 DEF ActLock, Finish, Rest
<1>3. ASSUME NEW th \in Thread, ActPick(th) PROVE ArchiveFirst'
  BY <1>3 DEF ActPick, Finish, Rest
<1>4. ASSUME NEW th \in Thread, ActNotReady(th) PROVE ArchiveFirst'
  BY <1>4 DEF ActNotReady, Finish, Rest
<1>5. ASSUME NEW th \in Thread, ActDirty(th) PROVE ArchiveFirst'
  BY <1>5 DEF ActDirty, Finish, Rest
<1>6. ASSUME NEW th \in Thread, ActConflict(th) PROVE ArchiveFirst'
  BY <1>6 DEF ActConflict
<1>7. ASSUME NEW th \in Thread, ActThrow(th) PROVE ArchiveFirst'
  BY <1>7 DEF ActThrow, Finish, Rest
<1>8. ASSUME NEW th \in Thread, ActClaim(th) PROVE ArchiveFirst'
  BY <1>8 DEF ActClaim
<1>9. ASSUME NEW th \in Thread, ActMark(th) PROVE ArchiveFirst'
  BY <1>9 DEF ActMark
<1>10. ASSUME NEW th \in Thread, ActRegister(th) PROVE ArchiveFirst'
  BY <1>10 DEF ActRegister
<1>11. ASSUME NEW th \in Thread, ActStart(th) PROVE ArchiveFirst'
  BY <1>11, SMTT(30) DEF ActStart, Rest, Finish
<1>12. ASSUME NEW th \in Thread, ActStartFails(th) PROVE ArchiveFirst'
  BY <1>12 DEF ActStartFails
<1>13. ASSUME NEW th \in Thread, RollbackWorkspace(th) PROVE ArchiveFirst'
  BY <1>13 DEF RollbackWorkspace
<1>14. ASSUME NEW th \in Thread, RollbackMarker(th) PROVE ArchiveFirst'
  BY <1>14 DEF RollbackMarker, Finish, Rest
<1>15. ASSUME NEW t \in Task, PipeBoot(t) PROVE ArchiveFirst'
  BY <1>15 DEF PipeBoot
<1>16. ASSUME NEW t \in Task, PipeDone(t) PROVE ArchiveFirst'
  BY <1>16 DEF PipeDone
<1>17. ASSUME NEW t \in Task, PipeFails(t) PROVE ArchiveFirst'
  BY <1>17 DEF PipeFails
<1>18. ASSUME NEW t \in Task, PipeExit(t) PROVE ArchiveFirst'
  BY <1>18, HandleStep DEF PipeExit
<1>19. ASSUME NEW t \in Task, PipeDies(t) PROVE ArchiveFirst'
  BY <1>19, HandleStep DEF PipeDies
<1>20. ASSUME NEW t \in Task, CloseLock(t) PROVE ArchiveFirst'
  BY <1>20 DEF CloseLock, CloseStep
<1>21. ASSUME NEW t \in Task, CloseVerify(t) PROVE ArchiveFirst'
  BY <1>21 DEF CloseVerify, CloseStep
<1>22. ASSUME NEW t \in Task, CloseArchive(t) PROVE ArchiveFirst'
  BY <1>22 DEF CloseArchive, CloseStep
<1>23. ASSUME NEW t \in Task, CloseMerge(t) PROVE ArchiveFirst'
  BY <1>23 DEF CloseMerge, CloseStep
<1>24. ASSUME NEW t \in Task, ClosePending(t) PROVE ArchiveFirst'
  BY <1>24 DEF ClosePending, CloseStep
<1>25. ASSUME NEW t \in Task, CloseMarker(t) PROVE ArchiveFirst'
  BY <1>25 DEF CloseMarker, CloseStep
<1>26. ASSUME NEW t \in Task, CloseRegister(t) PROVE ArchiveFirst'
  BY <1>26 DEF CloseRegister, CloseStep
<1>27. ASSUME NEW t \in Task, CloseEnd(t) PROVE ArchiveFirst'
  BY <1>27 DEF CloseEnd, CloseStep
<1>28. ASSUME NEW t \in Task, CloseThrows(t) PROVE ArchiveFirst'
  BY <1>28 DEF CloseThrows
<1>29. ASSUME NEW th \in Thread, FailLock(th) PROVE ArchiveFirst'
  BY <1>29 DEF FailLock, Finish, Rest
<1>30. ASSUME NEW th \in Thread, FailRename(th) PROVE ArchiveFirst'
  BY <1>30 DEF FailRename
<1>31. ASSUME NEW th \in Thread, FailRegister(th) PROVE ArchiveFirst'
  BY <1>31 DEF FailRegister
<1>32. ASSUME NEW th \in Thread, FailMarker(th) PROVE ArchiveFirst'
  BY <1>32 DEF FailMarker, Advance
<1>33. ASSUME NEW th \in Thread, ResLock(th) PROVE ArchiveFirst'
  BY <1>33 DEF ResLock, Resumable
<1>34. ASSUME NEW th \in Thread, ResRegister(th) PROVE ArchiveFirst'
  BY <1>34 DEF ResRegister
<1>35. ASSUME NEW th \in Thread, ResPending(th) PROVE ArchiveFirst'
  BY <1>35 DEF ResPending
<1>36. ASSUME NEW th \in Thread, ResMarker(th) PROVE ArchiveFirst'
  BY <1>36 DEF ResMarker
<1>37. ASSUME NEW th \in Thread, ResEnd(th) PROVE ArchiveFirst'
  BY <1>37 DEF ResEnd, Advance
<1>38. ASSUME NEW t \in Task, Publish(t) PROVE ArchiveFirst'
  BY <1>38 DEF Publish, MainGoes
<1>39. ASSUME NEW t \in Task, MoveToPending(t) PROVE ArchiveFirst'
  BY <1>39 DEF MoveToPending, MainGoes
<1>40. ASSUME NEW t \in Task, ReturnToOpen(t) PROVE ArchiveFirst'
  BY <1>40 DEF ReturnToOpen
<1>41. ASSUME NEW t \in Task, NEW u \in Task, Requeue(t, u) PROVE ArchiveFirst'
  BY <1>41 DEF Requeue, MainGoes
<1>42. ASSUME NEW t \in Task, MoveToOpen(t) PROVE ArchiveFirst'
  BY <1>42 DEF MoveToOpen
<1>43. ASSUME NEW t \in Task, Discard(t) PROVE ArchiveFirst'
  BY <1>43 DEF Discard
<1>44. ASSUME NEW t \in Task, RepairMarker(t) PROVE ArchiveFirst'
  BY <1>44 DEF RepairMarker
<1>45. ASSUME NEW t \in Task, RecoveryFails(t) PROVE ArchiveFirst'
  BY <1>45 DEF RecoveryFails, MainGoes
<1>46. CASE MainStops
  BY <1>46 DEF MainStops
<1>47. CASE MainStarts
  BY <1>47 DEF MainStarts
<1>48. CASE UNCHANGED vars
  BY <1>48 DEF vars
<1>49. ASSUME NEW t \in Task, RecoveryFailsRuntime(t) PROVE ArchiveFirst'
  BY <1>49 DEF RecoveryFailsRuntime, MainGoes
<1> QED
  BY <1>1, <1>2, <1>3, <1>4, <1>5, <1>6, <1>7, <1>8, <1>9, <1>10, <1>11, <1>12, <1>13, <1>14,
     <1>15, <1>16, <1>17, <1>18, <1>19, <1>20, <1>21, <1>22, <1>23, <1>24, <1>25, <1>26, <1>27,
     <1>28, <1>29, <1>30, <1>31, <1>32, <1>33, <1>34, <1>35, <1>36, <1>37, <1>38, <1>39, <1>40,
     <1>41, <1>42, <1>43, <1>44, <1>45, <1>46, <1>47, <1>48,
     <1>49 DEF Next, Progress, Operator,
     Failing, Activation, Failure, Resume, Pipeline, Closeout

\* Removing a marker keeps the cap.
LEMMA SlotDrop ==
  ASSUME TypeOK, ActiveCap, NEW t, marker' = marker \ {t} PROVE ActiveCap'
<1>1. /\ Cardinality(marker) \in Nat /\ Cardinality(marker') \in Nat
      /\ Cardinality(marker') <= Cardinality(marker)
  BY SlotCount
<1> QED
  BY <1>1, QueueAssumption DEF ActiveCap

\* The cap.
LEMMA CapStep == TypeOK /\ RoomForMarker /\ ActiveCap /\ [Next]_vars => ActiveCap'
<1> SUFFICES ASSUME TypeOK, RoomForMarker, ActiveCap, [Next]_vars PROVE ActiveCap'
  OBVIOUS
<1> USE DEF ActiveCap, fileVars
<1>1. ASSUME NEW th \in Thread, ActMark(th) PROVE ActiveCap'
  <2>1. marker' = marker \cup {arg[th]} /\ Cardinality(marker) < MaxParallel
    BY <1>1 DEF ActMark, RoomForMarker, At
  <2>2. Cardinality(marker) \in Nat /\ Cardinality(marker') \in Nat
        /\ Cardinality(marker') <= Cardinality(marker) + 1
    BY <2>1, SlotCount
  <2> QED
    BY <2>1, <2>2, QueueAssumption
<1>2. ASSUME NEW th \in Thread, RollbackMarker(th) PROVE ActiveCap'
  <2>1. PICK u : marker' = marker \ {u}
    BY <1>2 DEF RollbackMarker
  <2> QED
    BY <2>1, SlotDrop
<1>3. ASSUME NEW t \in Task, CloseMarker(t) PROVE ActiveCap'
  <2>1. PICK u : marker' = marker \ {u}
    BY <1>3 DEF CloseMarker
  <2> QED
    BY <2>1, SlotDrop
<1>4. ASSUME NEW th \in Thread, FailMarker(th) PROVE ActiveCap'
  <2>1. PICK u : marker' = marker \ {u}
    BY <1>4 DEF FailMarker
  <2> QED
    BY <2>1, SlotDrop
<1>5. ASSUME NEW th \in Thread, ResMarker(th) PROVE ActiveCap'
  <2>1. PICK u : marker' = marker \ {u}
    BY <1>5 DEF ResMarker
  <2> QED
    BY <2>1, SlotDrop
<1>6. ASSUME NEW t \in Task, RepairMarker(t) PROVE ActiveCap'
  <2>1. PICK u : marker' = marker \ {u}
    BY <1>6 DEF RepairMarker
  <2> QED
    BY <2>1, SlotDrop
<1>7. ASSUME NEW th \in Thread,
               \/ ActScan(th) \/ ActLock(th) \/ ActPick(th) \/ ActNotReady(th)
               \/ ActDirty(th) \/ ActConflict(th) \/ ActThrow(th) \/ ActClaim(th)
               \/ ActRegister(th) \/ ActStart(th) \/ ActStartFails(th)
               \/ RollbackWorkspace(th)
        PROVE  ActiveCap'
  BY <1>7 DEF ActScan, ActLock, ActPick, ActNotReady, ActDirty, ActConflict, ActThrow, ActClaim,
     ActRegister, ActStart, ActStartFails, RollbackWorkspace
<1>8. ASSUME NEW th \in Thread,
               \/ FailLock(th) \/ FailRename(th) \/ FailRegister(th) \/ ResLock(th)
               \/ ResRegister(th) \/ ResPending(th) \/ ResEnd(th)
        PROVE  ActiveCap'
  BY <1>8 DEF FailLock, FailRename, FailRegister, ResLock, ResRegister, ResPending, ResEnd
<1>9. ASSUME NEW t \in Task,
               \/ PipeBoot(t) \/ PipeDone(t) \/ PipeFails(t) \/ PipeExit(t)
               \/ PipeDies(t) \/ CloseLock(t) \/ CloseVerify(t) \/ CloseArchive(t)
               \/ CloseMerge(t) \/ ClosePending(t) \/ CloseRegister(t) \/ CloseEnd(t)
        PROVE  ActiveCap'
  BY <1>9 DEF PipeBoot, PipeDone, PipeFails, PipeExit, PipeDies, CloseLock, CloseVerify,
     CloseArchive, CloseMerge, ClosePending, CloseRegister, CloseEnd
<1>10. ASSUME NEW t \in Task,
               \/ CloseThrows(t) \/ Publish(t) \/ MoveToPending(t) \/ ReturnToOpen(t)
               \/ MoveToOpen(t) \/ Discard(t) \/ RecoveryFails(t)
               \/ RecoveryFailsRuntime(t)
        PROVE  ActiveCap'
  BY <1>10 DEF CloseThrows, Publish, MoveToPending, ReturnToOpen, MoveToOpen, Discard,
     RecoveryFails, RecoveryFailsRuntime
<1>11. ASSUME NEW t \in Task, NEW u \in Task, Requeue(t, u) PROVE ActiveCap'
  BY <1>11 DEF Requeue
<1>12. CASE MainStops \/ MainStarts
  BY <1>12 DEF MainStops, MainStarts
<1>13. CASE UNCHANGED vars
  BY <1>13 DEF vars
<1> QED
  BY <1>1, <1>2, <1>3, <1>4, <1>5, <1>6, <1>7, <1>8, <1>9, <1>10, <1>11, <1>12, <1>13 DEF Next,
     Progress, Operator, Failing, Activation, Failure, Resume, Pipeline, Closeout

\* Completed entries.
LEMMA CompletedStep ==
  TypeOK /\ ArchiveFirst /\ CompletedIsArchived /\ [Next]_vars => CompletedIsArchived'
<1> SUFFICES ASSUME TypeOK, ArchiveFirst, CompletedIsArchived, [Next]_vars
             PROVE  CompletedIsArchived'
  OBVIOUS
<1> USE DEF TypeOK, CompletedIsArchived, fileVars
<1>1. ASSUME NEW th \in Thread, ActDirty(th) PROVE CompletedIsArchived'
  BY <1>1 DEF ActDirty, Transit
<1>2. ASSUME NEW th \in Thread, ActConflict(th) PROVE CompletedIsArchived'
  BY <1>2 DEF ActConflict, Transit
<1>3. ASSUME NEW th \in Thread, ActRegister(th) PROVE CompletedIsArchived'
  BY <1>3 DEF ActRegister, Transit
<1>4. ASSUME NEW th \in Thread, RollbackMarker(th) PROVE CompletedIsArchived'
  BY <1>4 DEF RollbackMarker, Transit
<1>5. ASSUME NEW t \in Task, CloseArchive(t) PROVE CompletedIsArchived'
  BY <1>5 DEF CloseArchive
<1>6. ASSUME NEW t \in Task, CloseRegister(t) PROVE CompletedIsArchived'
  BY <1>6 DEF CloseRegister, ArchiveFirst, CloseStep, At, Transit
<1>7. ASSUME NEW th \in Thread, FailRegister(th) PROVE CompletedIsArchived'
  BY <1>7 DEF FailRegister, Transit
<1>8. ASSUME NEW th \in Thread, ResRegister(th) PROVE CompletedIsArchived'
  BY <1>8 DEF ResRegister, ArchiveFirst, At, Transit
<1>9. ASSUME NEW t \in Task, Publish(t) PROVE CompletedIsArchived'
  BY <1>9 DEF Publish
<1>10. ASSUME NEW t \in Task, MoveToPending(t) PROVE CompletedIsArchived'
  BY <1>10 DEF MoveToPending
<1>11. ASSUME NEW t \in Task, ReturnToOpen(t) PROVE CompletedIsArchived'
  BY <1>11 DEF ReturnToOpen, Transit
<1>12. ASSUME NEW t \in Task, NEW u \in Task, Requeue(t, u) PROVE CompletedIsArchived'
  BY <1>12 DEF Requeue
<1>13. ASSUME NEW t \in Task, MoveToOpen(t) PROVE CompletedIsArchived'
  BY <1>13 DEF MoveToOpen, Transit
<1>14. CASE MainStarts
  BY <1>14 DEF MainStarts, RepairedEntry
<1>15. ASSUME NEW th \in Thread,
               \/ ActScan(th) \/ ActLock(th) \/ ActPick(th) \/ ActNotReady(th)
               \/ ActThrow(th) \/ ActClaim(th) \/ ActMark(th) \/ ActStart(th)
               \/ ActStartFails(th) \/ RollbackWorkspace(th) \/ FailLock(th)
               \/ FailRename(th)
        PROVE  CompletedIsArchived'
  BY <1>15 DEF ActScan, ActLock, ActPick, ActNotReady, ActThrow, ActClaim, ActMark, ActStart,
     ActStartFails, RollbackWorkspace, FailLock, FailRename
<1>16. ASSUME NEW th \in Thread,
               \/ FailMarker(th) \/ ResLock(th) \/ ResPending(th) \/ ResMarker(th)
               \/ ResEnd(th)
        PROVE  CompletedIsArchived'
  BY <1>16 DEF FailMarker, ResLock, ResPending, ResMarker, ResEnd
<1>17. ASSUME NEW t \in Task,
               \/ PipeBoot(t) \/ PipeDone(t) \/ PipeFails(t) \/ PipeExit(t)
               \/ PipeDies(t) \/ CloseLock(t) \/ CloseVerify(t) \/ CloseMerge(t)
               \/ ClosePending(t) \/ CloseMarker(t) \/ CloseEnd(t) \/ CloseThrows(t)
        PROVE  CompletedIsArchived'
  BY <1>17 DEF PipeBoot, PipeDone, PipeFails, PipeExit, PipeDies, CloseLock, CloseVerify,
     CloseMerge, ClosePending, CloseMarker, CloseEnd, CloseThrows
<1>18. ASSUME NEW t \in Task,
               \/ Discard(t) \/ RepairMarker(t) \/ RecoveryFails(t)
               \/ RecoveryFailsRuntime(t)
        PROVE  CompletedIsArchived'
  BY <1>18 DEF Discard, RepairMarker, RecoveryFails, RecoveryFailsRuntime
<1>19. CASE MainStops
  BY <1>19 DEF MainStops
<1>20. CASE UNCHANGED vars
  BY <1>20 DEF vars
<1> QED
  BY <1>1, <1>2, <1>3, <1>4, <1>5, <1>6, <1>7, <1>8, <1>9, <1>10, <1>11, <1>12, <1>13, <1>14,
     <1>15, <1>16, <1>17, <1>18, <1>19, <1>20 DEF Next, Progress, Operator, Failing, Activation,
     Failure, Resume, Pipeline, Closeout

\* Intake files.
LEMMA NoTaskLostStep ==
  TypeOK /\ OnTask /\ ArchiveFirst /\ NoTaskLost /\ [Next]_vars => NoTaskLost'
<1> SUFFICES ASSUME TypeOK, OnTask, ArchiveFirst, NoTaskLost, [Next]_vars PROVE NoTaskLost'
  OBVIOUS
<1> USE DEF TypeOK, NoTaskLost, fileVars, processVars
<1>1. ASSUME NEW th \in Thread, ActDirty(th) PROVE NoTaskLost'
  BY <1>1 DEF ActDirty, Move
<1>2. ASSUME NEW th \in Thread, ActConflict(th) PROVE NoTaskLost'
  BY <1>2 DEF ActConflict, Move
<1>3. ASSUME NEW t \in Task, CloseArchive(t) PROVE NoTaskLost'
  BY <1>3 DEF CloseArchive
<1>4. ASSUME NEW t \in Task, ClosePending(t) PROVE NoTaskLost'
  BY <1>4 DEF ClosePending, CompleteItem, ArchiveFirst, CloseStep, At
<1>5. ASSUME NEW th \in Thread, FailRename(th) PROVE NoTaskLost'
  BY <1>5 DEF FailRename, FailIntake, Move
<1>6. ASSUME NEW th \in Thread, ResPending(th) PROVE NoTaskLost'
  BY <1>6 DEF ResPending, CompleteItem, ArchiveFirst, At
<1>7. ASSUME NEW t \in Task, Publish(t) PROVE NoTaskLost'
  BY <1>7 DEF Publish
<1>8. ASSUME NEW t \in Task, MoveToPending(t) PROVE NoTaskLost'
  BY <1>8 DEF MoveToPending, Move
<1>9. ASSUME NEW t \in Task, ReturnToOpen(t) PROVE NoTaskLost'
  BY <1>9 DEF ReturnToOpen, Move
<1>10. ASSUME NEW t \in Task, NEW u \in Task, Requeue(t, u) PROVE NoTaskLost'
  BY <1>10 DEF Requeue, RetryIntake
<1>11. ASSUME NEW t \in Task, MoveToOpen(t) PROVE NoTaskLost'
  BY <1>11 DEF MoveToOpen, Move
<1>12. ASSUME NEW th \in Thread,
               \/ ActScan(th) \/ ActLock(th) \/ ActPick(th) \/ ActNotReady(th)
               \/ ActThrow(th) \/ ActClaim(th) \/ ActMark(th) \/ ActRegister(th)
               \/ ActStart(th) \/ ActStartFails(th) \/ RollbackWorkspace(th)
               \/ RollbackMarker(th)
        PROVE  NoTaskLost'
  BY <1>12 DEF ActScan, ActLock, ActPick, ActNotReady, ActThrow, ActClaim, ActMark, ActRegister,
     ActStart, ActStartFails, RollbackWorkspace, RollbackMarker
<1>13. ASSUME NEW th \in Thread,
               \/ FailLock(th) \/ FailRegister(th) \/ FailMarker(th) \/ ResLock(th)
               \/ ResRegister(th) \/ ResMarker(th) \/ ResEnd(th)
        PROVE  NoTaskLost'
  BY <1>13 DEF FailLock, FailRegister, FailMarker, ResLock, ResRegister, ResMarker, ResEnd
<1>14. ASSUME NEW t \in Task,
               \/ PipeBoot(t) \/ PipeDone(t) \/ PipeFails(t) \/ PipeExit(t)
               \/ PipeDies(t) \/ CloseLock(t) \/ CloseVerify(t) \/ CloseMerge(t)
               \/ CloseMarker(t) \/ CloseRegister(t) \/ CloseEnd(t) \/ CloseThrows(t)
        PROVE  NoTaskLost'
  BY <1>14 DEF PipeBoot, PipeDone, PipeFails, PipeExit, PipeDies, CloseLock, CloseVerify,
     CloseMerge, CloseMarker, CloseRegister, CloseEnd, CloseThrows
<1>15. ASSUME NEW t \in Task,
               \/ Discard(t) \/ RepairMarker(t) \/ RecoveryFails(t)
               \/ RecoveryFailsRuntime(t)
        PROVE  NoTaskLost'
  BY <1>15 DEF Discard, RepairMarker, RecoveryFails, RecoveryFailsRuntime
<1>16. CASE MainStops \/ MainStarts
  BY <1>16 DEF MainStops, MainStarts
<1>17. CASE UNCHANGED vars
  BY <1>17 DEF vars
<1> QED
  BY <1>1, <1>2, <1>3, <1>4, <1>5, <1>6, <1>7, <1>8, <1>9, <1>10, <1>11, <1>12, <1>13, <1>14,
     <1>15, <1>16, <1>17 DEF Next, Progress, Operator, Failing, Activation, Failure, Resume,
     Pipeline, Closeout

\* The inductive invariant: what QueueInv says of the lock, the slots and the
\* archive, together with the three properties that rest on it.
IInv == QueueInv /\ ActiveCap /\ CompletedIsArchived /\ NoTaskLost

LEMMA Start == Init => IInv
<1> SUFFICES ASSUME Init PROVE IInv
  OBVIOUS
<1> USE Threads, QueueAssumption DEF Init
<1>1. TypeOK
  BY DEF TypeOK, FreeAt
<1>2. LockDiscipline /\ OnTask /\ RoomForMarker /\ ArchiveFirst
  BY DEF LockDiscipline, LockedAt, OnTask, RoomForMarker, ArchiveFirst
<1>3. ActiveCap
  BY FS_EmptySet DEF ActiveCap
<1>4. CompletedIsArchived /\ NoTaskLost
  BY DEF CompletedIsArchived, NoTaskLost
<1> QED
  BY <1>1, <1>2, <1>3, <1>4 DEF QueueInv, IInv

LEMMA Invariance == Spec => []IInv
<1>1. IInv /\ [Next]_vars => IInv'
  BY TypeStep, LockStep, OnTaskStep, RoomStep, ArchiveStep, CapStep, CompletedStep, NoTaskLostStep
     DEF QueueInv, IInv
<1> QED
  BY Start, <1>1, PTL DEF Spec

\* Every state is well typed, a thread is in a critical section exactly when it
\* holds the queue lock, an activation that has passed the cap check keeps its
\* room, and a closeout that has passed its archive has the record.
THEOREM QueueInvariance == Spec => []QueueInv
BY Invariance, PTL DEF IInv

\* Whichever processes activate tasks, fail, crash or resume, there are never
\* more active markers than max_parallel_tasks.
THEOREM ActiveCapInvariance == Spec => []ActiveCap
BY Invariance, PTL DEF IInv

\* The registry shows completed only for archived tasks.
THEOREM CompletedInvariance == Spec => []CompletedIsArchived
BY Invariance, PTL DEF IInv

\* Across failures, rollbacks, crashes and moves by the operator a submitted task
\* keeps its intake file until it is archived.
THEOREM NoTaskIsLost == Spec => []NoTaskLost
BY Invariance, PTL DEF IInv
==========================================================================
