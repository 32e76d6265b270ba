------------------------ MODULE TaskQueueSlotProofs ------------------------
(***************************************************************************)
(* Proofs about the tasks of TaskQueue the operator has not moved, for     *)
(* every set of tasks, cap, mix of faults and number of moves of other     *)
(* tasks, crashes of pipelines and of the desktop included.  Such a task   *)
(* is activated once, but for rollbacks, and whoever works on it works     *)
(* alone: SlotInv is inductive.  From it follow that a running pipeline    *)
(* owns its slot, that the exit handler does not fail a task its pipeline  *)
(* has disposed of, and that the queue implements TaskLifecycle.           *)
(*                                                                         *)
(* SlotInv is about one task at a time.  Frame says when a step leaves     *)
(* what is known of a task alone, so each action is looked at for the task *)
(* it works on, and for the others only by what it does not touch.         *)
(***************************************************************************)
EXTENDS TaskQueueProofs

\* The threads are different from each other.
LEMMA SlotThreads ==
  /\ Main \in Thread /\ ~IsPipe(Main) /\ Nobody \notin Thread
  /\ \A t \in Task : Pipe(t) \in Thread /\ Exit(t) \in Thread
  /\ \A t \in Task : IsPipe(Pipe(t)) /\ ~IsPipe(Exit(t))
  /\ \A t \in Task : Pipe(t) # Main /\ Exit(t) # Main
  /\ \A t, u \in Task : /\ Pipe(t) # Exit(u)
                        /\ Pipe(t) = Pipe(u) => t = u
                        /\ Exit(t) = Exit(u) => t = u
BY DEF Main, Nobody, Thread, Pipe, Exit, IsPipe

\* What the steps below may use of the other invariants.
Base == TypeOK /\ LockDiscipline /\ OnTask

\* Where a thread works on no task.
RestAt == {"idle", "unlock", "actScan", "actLock", "actPick"}

\* A step leaves the files of t, and what the queue remembers of it.
FilesKept(t) ==
  /\ place'[t] = place[t] /\ sentinel'[t] = sentinel[t] /\ workspace'[t] = workspace[t]
  /\ t \in plock' <=> t \in plock
  /\ t \in evidence' <=> t \in evidence
  /\ "completed" \in reg'[t] => "completed" \in reg[t]
  /\ t \in marker' <=> t \in marker
  /\ t \in issued' <=> t \in issued
  /\ t \in disposed' <=> t \in disposed

\* A step of th does not touch t: th stays, or it goes to work on something else.
\* The pipeline of t does so only from where the task does not count on pipeline.lock.
ThreadKept(t, th) ==
  \/ pc'[th] = pc[th] /\ arg'[th] = arg[th]
  \/ /\ arg'[th] # t \/ pc'[th] \in RestAt
     /\ th = Pipe(t) => pc[th] \notin LocklessAt

\* What is known of a slot stays known in a step that leaves its files and threads.
LEMMA Frame ==
  ASSUME NEW t \in Task, SlotHolds(t), OwnTask, OwnTask', FilesKept(t),
         \A th \in Thread : ThreadKept(t, th)
  PROVE  SlotHolds(t)'
<1> USE SlotThreads DEF SlotHolds, FilesKept, ThreadKept, At, LocklessAt
<1>1. \/ pc'[Pipe(t)] = pc[Pipe(t)]
      \/ /\ pc[Pipe(t)] \notin LocklessAt
         /\ pc'[Pipe(t)] \notin BusyAt \cup {"closeRegister", "closeEnd"}
  BY DEF OwnTask, RestAt, BusyAt
<1>2. \A th \in Thread :
        arg'[th] = t /\ pc'[th] \notin RestAt => arg[th] = t /\ pc'[th] = pc[th]
  OBVIOUS
<1>3. Over(t)' <=> Over(t)
  BY DEF Over
<1>4. Fresh(t) => Fresh(t)'
  <2>1. ASSUME Fresh(t), NEW th \in Thread, arg'[th] = t
        PROVE  pc'[th] \notin FailingAt \cup ResumingAt \cup {"resLock", "exitResume"}
    BY <1>2, <2>1 DEF Fresh, RestAt, FailingAt, ResumingAt
  <2> QED
    BY <1>1, <2>1 DEF Fresh
<1>5. PlaceHolds(t)'
  BY <1>3, <1>4 DEF PlaceHolds
<1>6. StartHolds(t)'
  BY <1>2, <1>4 DEF StartHolds, RestAt, ClaimingAt, StartingAt
<1>7. PipelineHolds(t)'
  BY <1>1 DEF PipelineHolds, BusyAt
<1>8. EndHolds(t)'
  <2>1. At(Pipe(t), "idle") => At(Pipe(t), "idle")'
    BY <1>1
  <2> QED
    BY <1>2, <2>1 DEF EndHolds, RestAt, FailingAt, ResumingAt
<1>9. t \in marker' /\ "completed" \in reg'[t] => Resumable(t)'
  BY DEF Resumable
<1>10. t \in disposed' => pc'[Exit(t)] \notin FailingAt \ {"failLock"}
  BY DEF OwnTask, FailingAt, RestAt
<1> QED
  BY <1>5, <1>6, <1>7, <1>8, <1>9, <1>10

\* The exit of a pipeline moves the pipeline's thread and its exit handler only.
LEMMA ExitStep ==
  ASSUME TypeOK, NEW t \in Task, NEW e, Handle(t, e)
  PROVE  /\ pc'[Pipe(t)] = "idle"
         /\ \A th \in Thread \ {Pipe(t), Exit(t)} : pc'[th] = pc[th] /\ arg'[th] = arg[th]
         /\ \/ pc'[Exit(t)] = pc[Exit(t)] /\ arg'[Exit(t)] = arg[Exit(t)]
            \/ pc'[Exit(t)] \in {"exitResume", "failLock"} /\ arg'[Exit(t)] = t
<1>1. CASE ExitSeen(t) /\ e # 0
  BY <1>1, SlotThreads DEF TypeOK, Handle, At
<1>2. CASE ~(ExitSeen(t) /\ e # 0)
  BY <1>2, SlotThreads DEF TypeOK, Handle, Goto, Item
<1> QED
  BY <1>1, <1>2

\* A pipeline's thread and its exit handler work on their own task.
LEMMA OwnStep == ASSUME TypeOK, OnTask, OwnTask, [Next]_vars PROVE OwnTask'
<1> USE SlotThreads DEF TypeOK, OnTask, OwnTask, BusyAt, FailingAt, At, Goto, Item
<1>1. ASSUME NEW th \in Thread, ActScan(th) PROVE OwnTask'
  BY <1>1 DEF ActScan
<1>2. ASSUME NEW th \in Thread, ActLock(th) PROVE OwnTask'
  BY <1>2 DEF ActLock, Finish, Rest, Acquire
<1>3. ASSUME NEW th \in Thread, ActPick(th) PROVE OwnTask'
  BY <1>3 DEF ActPick, Finish, Rest, Candidates
<1>4. ASSUME NEW th \in Thread, ActNotReady(th) PROVE OwnTask'
  BY <1>4 DEF ActNotReady, Finish, Rest
<1>5. ASSUME NEW th \in Thread, ActDirty(th) PROVE OwnTask'
  BY <1>5 DEF ActDirty, Finish, Rest, Move, Transit, Fault
<1>6. ASSUME NEW th \in Thread, ActConflict(th) PROVE OwnTask'
  BY <1>6 DEF ActConflict, Move, Transit, Fault
<1>7. ASSUME NEW th \in Thread, ActThrow(th) PROVE OwnTask'
  BY <1>7 DEF ActThrow, Finish, Rest, Fault
<1>8. ASSUME NEW th \in Thread, ActClaim(th) PROVE OwnTask'
  BY <1>8 DEF ActClaim
<1>9. ASSUME NEW th \in Thread, ActMark(th) PROVE OwnTask'
  BY <1>9 DEF ActMark
<1>10. ASSUME NEW th \in Thread, ActRegister(th) PROVE OwnTask'
  BY <1>10 DEF ActRegister, Transit
<1>11. ASSUME NEW th \in Thread, ActStart(th) PROVE OwnTask'
  BY <1>11 DEF ActStart, Finish, Rest
<1>12. ASSUME NEW th \in Thread, ActStartFails(th) PROVE OwnTask'
  BY <1>12 DEF ActStartFails, Fault
<1>13. ASSUME NEW th \in Thread, RollbackWorkspace(th) PROVE OwnTask'
  BY <1>13 DEF RollbackWorkspace
<1>14. ASSUME NEW th \in Thread, RollbackMarker(th) PROVE OwnTask'
  BY <1>14 DEF RollbackMarker, Finish, Rest, Transit
<1>15. ASSUME NEW t \in Task, PipeBoot(t) PROVE OwnTask'
  BY <1>15 DEF PipeBoot
<1>16. ASSUME NEW t \in Task, PipeDone(t) PROVE OwnTask'
  BY <1>16 DEF PipeDone
<1>17. ASSUME NEW t \in Task, PipeFails(t) PROVE OwnTask'
  BY <1>17 DEF PipeFails, Fault
<1>18. ASSUME NEW t \in Task, PipeExit(t) PROVE OwnTask'
  BY <1>18, ExitStep DEF PipeExit
<1>19. ASSUME NEW t \in Task, PipeDies(t) PROVE OwnTask'
  BY <1>19, ExitStep DEF PipeDies, Fault
<1>20. ASSUME NEW t \in Task, CloseLock(t) PROVE OwnTask'
  BY <1>20 DEF CloseLock, CloseStep
<1>21. ASSUME NEW t \in Task, CloseVerify(t) PROVE OwnTask'
  BY <1>21 DEF CloseVerify, CloseStep
<1>22. ASSUME NEW t \in Task, CloseArchive(t) PROVE OwnTask'
  BY <1>22 DEF CloseArchive, CloseStep
<1>23. ASSUME NEW t \in Task, CloseMerge(t) PROVE OwnTask'
  BY <1>23 DEF CloseMerge, CloseStep
<1>24. ASSUME NEW t \in Task, ClosePending(t) PROVE OwnTask'
  BY <1>24 DEF ClosePending, CloseStep, CompleteItem
<1>25. ASSUME NEW t \in Task, CloseMarker(t) PROVE OwnTask'
  BY <1>25 DEF CloseMarker, CloseStep
<1>26. ASSUME NEW t \in Task, CloseRegister(t) PROVE OwnTask'
  BY <1>26 DEF CloseRegister, CloseStep, Transit
<1>27. ASSUME NEW t \in Task, CloseEnd(t) PROVE OwnTask'
  BY <1>27 DEF CloseEnd, CloseStep
<1>28. ASSUME NEW t \in Task, CloseThrows(t) PROVE OwnTask'
  BY <1>28 DEF CloseThrows, Fault
<1>29. ASSUME NEW th \in Thread, FailLock(th) PROVE OwnTask'
  BY <1>29 DEF FailLock, Undisposed, Finish, Rest
<1>30. ASSUME NEW th \in Thread, FailRename(th) PROVE OwnTask'
  BY <1>30 DEF FailRename, FailIntake, Move
<1>31. ASSUME NEW th \in Thread, FailRegister(th) PROVE OwnTask'
  BY <1>31 DEF FailRegister, Transit
<1>32. ASSUME NEW th \in Thread, FailMarker(th) PROVE OwnTask'
  BY <1>32 DEF FailMarker, Advance
<1>33. ASSUME NEW th \in Thread, ResLock(th) PROVE OwnTask'
  BY <1>33 DEF ResLock, Resumable
<1>34. ASSUME NEW th \in Thread, ResRegister(th) PROVE OwnTask'
  BY <1>34 DEF ResRegister, Transit
<1>35. ASSUME NEW th \in Thread, ResPending(th) PROVE OwnTask'
  BY <1>35 DEF ResPending, CompleteItem
<1>36. ASSUME NEW th \in Thread, ResMarker(th) PROVE OwnTask'
  BY <1>36 DEF ResMarker
<1>37. ASSUME NEW th \in Thread, ResEnd(th) PROVE OwnTask'
  BY <1>37 DEF ResEnd, Advance
<1>38. ASSUME NEW t \in Task, Publish(t) PROVE OwnTask'
  BY <1>38 DEF Publish, MainFree, MainGoes
<1>39. ASSUME NEW t \in Task, MoveToPending(t) PROVE OwnTask'
  BY <1>39 DEF MoveToPending, MainFree, MainGoes, Move
<1>40. ASSUME NEW t \in Task, ReturnToOpen(t) PROVE OwnTask'
  BY <1>40 DEF ReturnToOpen, MainFree, Move, Transit
<1>41. ASSUME NEW t \in Task, NEW v \in Task, Requeue(t, v) PROVE OwnTask'
  BY <1>41 DEF Requeue, MainFree, MainGoes, RetryIntake, ByOperator
<1>42. ASSUME NEW t \in Task, MoveToOpen(t) PROVE OwnTask'
  BY <1>42 DEF MoveToOpen, MainFree, Move, Transit, ByOperator
<1>43. ASSUME NEW t \in Task, Discard(t) PROVE OwnTask'
  BY <1>43 DEF Discard
<1>44. ASSUME NEW t \in Task, RepairMarker(t) PROVE OwnTask'
  BY <1>44 DEF RepairMarker, MainFree, Stranded
<1>45. ASSUME NEW t \in Task, RecoveryFails(t) PROVE OwnTask'
  BY <1>45 DEF RecoveryFails, MainFree, MainGoes, Starting, Fixable
<1>46. CASE MainStops
  BY <1>46 DEF MainStops, Fault
<1>47. CASE MainStarts
  BY <1>47 DEF MainStarts, RepairedEntry
<1>48. CASE UNCHANGED vars
  BY <1>48 DEF vars
<1>49. ASSUME NEW t \in Task, RecoveryFailsRuntime(t) PROVE OwnTask'
  BY <1>49 DEF RecoveryFailsRuntime, MainFree, MainGoes, Fixable
<1> HIDE DEF OwnTask, TypeOK, OnTask
<1> QED
  BY <1>1, <1>2, <1>3, <1>4, <1>5, <1>6, <1>7, <1>8, <1>9, <1>10, <1>11, <1>12, <1>13, <1>14,
     <1>15, <1>16, <1>17, <1>18, <1>19, <1>20, <1>21, <1>22, <1>23, <1>24, <1>25, <1>26, <1>27,
     <1>28, <1>29, <1>30, <1>31, <1>32, <1>33, <1>34, <1>35, <1>36, <1>37, <1>38, <1>39, <1>40,
     <1>41, <1>42, <1>43, <1>44, <1>45, <1>46, <1>47, <1>48,
     <1>49, Zenon DEF Next, Progress, Operator, Failing, Activation, Failure, Resume, Pipeline,
     Closeout

\* What the operator has ever moved is known, had been submitted, and is never forgotten.
LEMMA MovesStep ==
  ASSUME TypeOK, MovesKnown, UnissuedHold, [Next]_vars
  PROVE  MovesKnown' /\ moved \subseteq moved'
<1> DEFINE Kept == /\ UNCHANGED <<moves, moved, superseded>>
                   /\ discarding' \subseteq discarding /\ issued \subseteq issued'
<1> USE DEF TypeOK, MovesKnown, UnissuedHold
<1>1. ASSUME NEW t \in Task, NEW u \in Task, Requeue(t, u)
      PROVE  MovesKnown' /\ moved \subseteq moved'
  BY <1>1 DEF Requeue, ByOperator
<1>2. ASSUME NEW t \in Task, MoveToOpen(t) PROVE MovesKnown' /\ moved \subseteq moved'
  BY <1>2 DEF MoveToOpen, ByOperator
<1>3. ASSUME Kept PROVE MovesKnown' /\ moved \subseteq moved'
  BY <1>3
<1>4. ASSUME NEW th \in Thread,
             \/ Activation(th) \/ Failure(th) \/ Resume(th)
             \/ ActDirty(th) \/ ActConflict(th) \/ ActThrow(th) \/ ActStartFails(th)
      PROVE  Kept
  BY <1>4 DEF processVars, boundVars, Fault, Activation, ActScan, ActLock, ActPick, ActNotReady,
     ActClaim, ActMark, ActRegister, ActStart, RollbackWorkspace, RollbackMarker, Failure,
     FailLock, FailRename, FailRegister, FailMarker, Resume, ResLock, ResRegister, ResPending,
     ResMarker, ResEnd, ActDirty, ActConflict, ActThrow, ActStartFails
<1>5. ASSUME NEW t \in Task,
             Pipeline(t) \/ PipeFails(t) \/ PipeDies(t) \/ CloseThrows(t)
      PROVE  Kept
  BY <1>5 DEF processVars, boundVars, Fault, Pipeline, PipeBoot, PipeDone, PipeExit, Closeout,
     CloseLock, CloseVerify, CloseArchive, CloseMerge, ClosePending, CloseMarker, CloseRegister,
     CloseEnd, PipeFails, PipeDies, CloseThrows
<1>6. ASSUME NEW t \in Task,
             \/ Discard(t) \/ RepairMarker(t) \/ RecoveryFails(t) \/ RecoveryFailsRuntime(t)
             \/ Publish(t) \/ MoveToPending(t) \/ ReturnToOpen(t)
      PROVE  Kept
  BY <1>6 DEF processVars, boundVars, Discard, RepairMarker, RecoveryFails,
     RecoveryFailsRuntime, Publish, MoveToPending, ReturnToOpen
<1>7. ASSUME MainStops \/ MainStarts \/ UNCHANGED vars
      PROVE  Kept
  BY <1>7 DEF processVars, boundVars, Fault, MainStops, MainStarts, vars
<1> HIDE DEF MovesKnown, Kept, TypeOK, UnissuedHold
<1> QED
  BY <1>1, <1>2, <1>3, <1>4, <1>5, <1>6, <1>7, Zenon DEF Next, Progress, Operator, Failing

\* What is known of the slot of u survives every step of the queue that does not
\* move u by the operator: the thread that works on u keeps it, the others by Frame.
LEMMA SlotStep ==
  ASSUME Base, SlotInv, OwnTask', [Next]_vars, NEW u \in Task \ moved, u \notin moved'
  PROVE  SlotHolds(u)'
<1> USE SlotThreads, QueueAssumption
    DEF Base, TypeOK, LockDiscipline, OnTask, LockedAt, FreeAt, At, Goto, Item, Finish, Rest,
        Acquire, Release, fileVars, processVars, boundVars, FilesKept, ThreadKept, RestAt,
        LocklessAt
<1>a. SlotHolds(u) /\ OwnTask /\ UnissuedHold /\ discarding \subseteq moved
  BY DEF SlotInv, Unmoved, MovesKnown
<1>b. FilesKept(u) /\ (\A th \in Thread : ThreadKept(u, th)) => SlotHolds(u)'
  BY <1>a, Frame
<1>c. ASSUME u \notin marker, ~Over(u), place'[u] = {"pending"},
             UNCHANGED <<marker, sentinel, workspace, disposed, plock, evidence>>,
             "completed" \in reg'[u] => "completed" \in reg[u],
             \/ pc' = [pc EXCEPT ![Main] = "actScan"] /\ UNCHANGED arg
             \/ \E t \in Task \ {u} :
                  pc' = [pc EXCEPT ![Main] = "discard"] /\ arg' = [arg EXCEPT ![Main] = t]
      PROVE  SlotHolds(u)'
  <2>1. Fresh(u)
    BY <1>a, <1>c DEF SlotHolds, PlaceHolds
  <2>2. \A o \in Thread : arg'[o] = u /\ pc'[o] \notin RestAt => arg[o] = u /\ pc'[o] = pc[o]
    BY <1>c
  <2>3. \A o \in Thread \ {Main} : pc'[o] = pc[o] /\ arg'[o] = arg[o]
    BY <1>c
  <2>4. Fresh(u)'
    BY <1>c, <2>1, <2>2, <2>3 DEF Fresh, FailingAt, ResumingAt
  <2>5. PlaceHolds(u)'
    BY <1>c, <2>1, <2>4 DEF PlaceHolds, Fresh
  <2>6. StartHolds(u)'
    BY <1>a, <1>c, <2>2 DEF SlotHolds, StartHolds, ClaimingAt, StartingAt
  <2>7. PipelineHolds(u)'
    BY <2>4 DEF PipelineHolds, BusyAt, Fresh
  <2>8. EndHolds(u)'
    BY <2>4 DEF EndHolds, Fresh, FailingAt, ResumingAt
  <2> QED
    BY <1>c, <2>4, <2>5, <2>6, <2>7, <2>8 DEF SlotHolds, Fresh
<1>1. ASSUME NEW th \in Thread, ActScan(th) PROVE SlotHolds(u)'
  <2>1. CASE arg'[th] = u /\ pc'[th] = "resLock" /\ Resumable(u)
    <3>1. FilesKept(u) /\ ~Fresh(u)
      BY <1>1, <2>1 DEF ActScan, Fresh, Resumable
    <3>2. \A o \in Thread \ {th} : pc'[o] = pc[o] /\ arg'[o] = arg[o]
      BY <1>1, <2>1 DEF ActScan
    <3>3. pc[th] = "actScan"
      BY <1>1 DEF ActScan
    <3>4. PlaceHolds(u)'
      BY <1>1, <1>a, <3>1 DEF ActScan, SlotHolds, PlaceHolds, Over
    <3>5. StartHolds(u)'
      BY <1>a, <2>1, <3>1, <3>2, <3>3, SMTT(30)
         DEF SlotHolds, StartHolds, ClaimingAt, StartingAt, Fresh
    <3>6. PipelineHolds(u)'
      BY <1>a, <2>1, <3>1, <3>2, <3>3 DEF SlotHolds, PipelineHolds, BusyAt
    <3>7. EndHolds(u)'
      BY <1>a, <2>1, <3>1, <3>2, <3>3 DEF SlotHolds, EndHolds, FailingAt, ResumingAt
    <3> QED
      BY <1>1, <1>a, <2>1, <3>1, <3>2, <3>4, <3>5, <3>6, <3>7
         DEF ActScan, SlotHolds, Resumable, FailingAt
  <2>2. CASE ~(arg'[th] = u /\ pc'[th] = "resLock" /\ Resumable(u))
    <3>1. FilesKept(u)
      BY <1>1 DEF ActScan
    <3>2. \A o \in Thread : ThreadKept(u, o)
      BY <1>1, <2>2 DEF ActScan
    <3> QED
      BY <3>1, <3>2, <1>b
  <2> QED
    BY <2>1, <2>2
<1>2. ASSUME NEW th \in Thread, ActLock(th) PROVE SlotHolds(u)'
  <2>1. FilesKept(u)
    BY <1>2 DEF ActLock
  <2>2. \A o \in Thread : ThreadKept(u, o)
    BY <1>2 DEF ActLock
  <2> QED
    BY <2>1, <2>2, <1>b
<1>3. ASSUME NEW th \in Thread, ActPick(th) PROVE SlotHolds(u)'
  <2>1. CASE arg'[th] = u /\ pc'[th] = "actClaim" /\ u \in Candidates(th)
    <3>1. FilesKept(u) /\ UNCHANGED lock
      BY <1>3, <2>1 DEF ActPick
    <3>2. \A o \in Thread \ {th} : pc'[o] = pc[o] /\ arg'[o] = arg[o]
      BY <1>3, <2>1 DEF ActPick
    <3>3. pc[th] = "actPick" /\ lock = th
      BY <1>3 DEF ActPick
    <3>4. u \notin marker /\ place[u] = {"pending"}
      BY <1>a, <2>1 DEF Candidates, SlotHolds, PlaceHolds
    <3>5. Fresh(u)
      BY <1>a, <3>4 DEF SlotHolds, PlaceHolds, Over
    <3>6. Fresh(u)'
      BY <2>1, <3>1, <3>2, <3>3, <3>5 DEF Fresh, FailingAt, ResumingAt
    <3>7. PlaceHolds(u)'
      BY <1>a, <3>1, <3>6 DEF SlotHolds, PlaceHolds, Over
    <3>8. \A o \in Thread \ {th} : arg[o] = u => pc[o] \notin ClaimingAt \cup StartingAt
      BY <1>a, <3>3, <3>4 DEF SlotHolds, StartHolds, ClaimingAt, StartingAt
    <3>9. StartHolds(u)'
      BY <2>1, <3>1, <3>2, <3>4, <3>8 DEF StartHolds, ClaimingAt, StartingAt
    <3>10. PipelineHolds(u)'
      BY <1>a, <2>1, <3>1, <3>2, <3>3 DEF SlotHolds, PipelineHolds, BusyAt
    <3>11. EndHolds(u)'
      BY <1>a, <2>1, <3>1, <3>2, <3>3, <3>5 DEF SlotHolds, EndHolds, Fresh, FailingAt, ResumingAt
    <3> QED
      BY <2>1, <3>1, <3>4, <3>5, <3>7, <3>9, <3>10, <3>11 DEF SlotHolds, Fresh
  <2>2. CASE ~(arg'[th] = u /\ pc'[th] = "actClaim" /\ u \in Candidates(th))
    <3>1. FilesKept(u)
      BY <1>3 DEF ActPick
    <3>2. \A o \in Thread : ThreadKept(u, o)
      BY <1>3, <2>2 DEF ActPick
    <3> QED
      BY <3>1, <3>2, <1>b
  <2> QED
    BY <2>1, <2>2
<1>4. ASSUME NEW th \in Thread, ActNotReady(th) PROVE SlotHolds(u)'
  <2>1. CASE u # arg[th]
    <3>1. FilesKept(u)
      BY <1>4, <2>1 DEF ActNotReady
    <3>2. \A o \in Thread : ThreadKept(u, o)
      BY <1>4, <2>1 DEF ActNotReady
    <3> QED
      BY <3>1, <3>2, <1>b
  <2>2. CASE u = arg[th]
    BY <1>4, <1>a, <2>2, SMTT(60) DEF ActNotReady, SlotHolds, PlaceHolds, StartHolds,
       PipelineHolds, EndHolds, Fresh, Over, Resumable, OwnTask, ClaimingAt, StartingAt, BusyAt,
       FailingAt, ResumingAt
  <2> QED
    BY <2>1, <2>2
<1>5. ASSUME NEW th \in Thread, ActDirty(th) PROVE SlotHolds(u)'
  <2>1. CASE u # arg[th]
    <3>1. FilesKept(u)
      BY <1>5, <2>1 DEF ActDirty, Move, Transit, Fault
    <3>2. \A o \in Thread : ThreadKept(u, o)
      BY <1>5, <2>1 DEF ActDirty, Move, Transit, Fault
    <3> QED
      BY <3>1, <3>2, <1>b
  <2>2. CASE u = arg[th]
    BY <1>5, <1>a, <2>2, SMTT(60) DEF ActDirty, Move, Transit, Fault, SlotHolds, PlaceHolds,
       StartHolds, PipelineHolds, EndHolds, Fresh, Over, Resumable, OwnTask, ClaimingAt,
       StartingAt, BusyAt, FailingAt, ResumingAt
  <2> QED
    BY <2>1, <2>2
<1>6. ASSUME NEW th \in Thread, ActConflict(th) PROVE SlotHolds(u)'
  <2>1. CASE u # arg[th]
    <3>1. FilesKept(u)
      BY <1>6, <2>1 DEF ActConflict, Move, Transit, Fault
    <3>2. \A o \in Thread : ThreadKept(u, o)
      BY <1>6, <2>1 DEF ActConflict, Move, Transit, Fault
    <3> QED
      BY <3>1, <3>2, <1>b
  <2>2. CASE u = arg[th]
    BY <1>6, <1>a, <2>2, SMTT(60) DEF ActConflict, Move, Transit, Fault, SlotHolds, PlaceHolds,
       StartHolds, PipelineHolds, EndHolds, Fresh, Over, Resumable, OwnTask, ClaimingAt,
       StartingAt, BusyAt, FailingAt, ResumingAt
  <2> QED
    BY <2>1, <2>2
<1>7. ASSUME NEW th \in Thread, ActThrow(th) PROVE SlotHolds(u)'
  <2>1. CASE u # arg[th]
    <3>1. FilesKept(u)
      BY <1>7, <2>1 DEF ActThrow, Fault
    <3>2. \A o \in Thread : ThreadKept(u, o)
      BY <1>7, <2>1 DEF ActThrow, Fault
    <3> QED
      BY <3>1, <3>2, <1>b
  <2>2. CASE u = arg[th]
    BY <1>7, <1>a, <2>2, SMTT(60) DEF ActThrow, Fault, SlotHolds, PlaceHolds, StartHolds,
       PipelineHolds, EndHolds, Fresh, Over, Resumable, OwnTask, ClaimingAt, StartingAt, BusyAt,
       FailingAt, ResumingAt
  <2> QED
    BY <2>1, <2>2
<1>8. ASSUME NEW th \in Thread, ActClaim(th) PROVE SlotHolds(u)'
  <2>1. CASE u # arg[th]
    <3>1. FilesKept(u)
      BY <1>8, <2>1 DEF ActClaim
    <3>2. \A o \in Thread : ThreadKept(u, o)
      BY <1>8, <2>1 DEF ActClaim
    <3> QED
      BY <3>1, <3>2, <1>b
  <2>2. CASE u = arg[th]
    BY <1>8, <1>a, <2>2, SMTT(60) DEF ActClaim, SlotHolds, PlaceHolds, StartHolds, PipelineHolds,
       EndHolds, Fresh, Over, Resumable, OwnTask, ClaimingAt, StartingAt, BusyAt, FailingAt,
       ResumingAt
  <2> QED
    BY <2>1, <2>2
<1>9. ASSUME NEW th \in Thread, ActMark(th) PROVE SlotHolds(u)'
  <2>1. CASE u # arg[th]
    <3>1. FilesKept(u)
      BY <1>9, <2>1 DEF ActMark
    <3>2. \A o \in Thread : ThreadKept(u, o)
      BY <1>9, <2>1 DEF ActMark
    <3> QED
      BY <3>1, <3>2, <1>b
  <2>2. CASE u = arg[th]
    BY <1>9, <1>a, <2>2, SMTT(60) DEF ActMark, SlotHolds, PlaceHolds, StartHolds, PipelineHolds,
       EndHolds, Fresh, Over, Resumable, OwnTask, ClaimingAt, StartingAt, BusyAt, FailingAt,
       ResumingAt
  <2> QED
    BY <2>1, <2>2
<1>10. ASSUME NEW th \in Thread, ActRegister(th) PROVE SlotHolds(u)'
  <2>1. CASE u # arg[th]
    <3>1. FilesKept(u)
      BY <1>10, <2>1 DEF ActRegister, Transit
    <3>2. \A o \in Thread : ThreadKept(u, o)
      BY <1>10, <2>1 DEF ActRegister, Transit
    <3> QED
      BY <3>1, <3>2, <1>b
  <2>2. CASE u = arg[th]
    BY <1>10, <1>a, <2>2, SMTT(60) DEF ActRegister, Transit, SlotHolds, PlaceHolds, StartHolds,
       PipelineHolds, EndHolds, Fresh, Over, Resumable, OwnTask, ClaimingAt, StartingAt, BusyAt,
       FailingAt, ResumingAt
  <2> QED
    BY <2>1, <2>2
<1>11. ASSUME NEW th \in Thread, ActStart(th) PROVE SlotHolds(u)'
  <2>1. CASE u # arg[th]
    <3>1. FilesKept(u)
      BY <1>11, <2>1 DEF ActStart
    <3>2. \A o \in Thread : ThreadKept(u, o)
      BY <1>11, <2>1 DEF ActStart
    <3> QED
      BY <3>1, <3>2, <1>b
  <2>2. CASE u = arg[th]
    BY <1>11, <1>a, <2>2, SMTT(60) DEF ActStart, SlotHolds, PlaceHolds, StartHolds, PipelineHolds,
       EndHolds, Fresh, Over, Resumable, OwnTask, ClaimingAt, StartingAt, BusyAt, FailingAt,
       ResumingAt
  <2> QED
    BY <2>1, <2>2
<1>12. ASSUME NEW th \in Thread, ActStartFails(th) PROVE SlotHolds(u)'
  <2>1. CASE u # arg[th]
    <3>1. FilesKept(u)
      BY <1>12, <2>1 DEF ActStartFails, Fault
    <3>2. \A o \in Thread : ThreadKept(u, o)
      BY <1>12, <2>1 DEF ActStartFails, Fault
    <3> QED
      BY <3>1, <3>2, <1>b
  <2>2. CASE u = arg[th]
    BY <1>12, <1>a, <2>2, SMTT(60) DEF ActStartFails, Fault, SlotHolds, PlaceHolds, StartHolds,
       PipelineHolds, EndHolds, Fresh, Over, Resumable, OwnTask, ClaimingAt, StartingAt, BusyAt,
       FailingAt, ResumingAt
  <2> QED
    BY <2>1, <2>2
<1>13. ASSUME NEW th \in Thread, RollbackWorkspace(th) PROVE SlotHolds(u)'
  <2>1. CASE u # arg[th]
    <3>1. FilesKept(u)
      BY <1>13, <2>1 DEF RollbackWorkspace
    <3>2. \A o \in Thread : ThreadKept(u, o)
      BY <1>13, <2>1 DEF RollbackWorkspace
    <3> QED
      BY <3>1, <3>2, <1>b
  <2>2. CASE u = arg[th]
    BY <1>13, <1>a, <2>2, SMTT(60) DEF RollbackWorkspace, SlotHolds, PlaceHolds, StartHolds,
       PipelineHolds, EndHolds, Fresh, Over, Resumable, OwnTask, ClaimingAt, StartingAt, BusyAt,
       FailingAt, ResumingAt
  <2> QED
    BY <2>1, <2>2
<1>14. ASSUME NEW th \in Thread, RollbackMarker(th) PROVE SlotHolds(u)'
  <2>1. CASE u # arg[th]
    <3>1. FilesKept(u)
      BY <1>14, <2>1 DEF RollbackMarker, Transit
    <3>2. \A o \in Thread : ThreadKept(u, o)
      BY <1>14, <2>1 DEF RollbackMarker, Transit
    <3> QED
      BY <3>1, <3>2, <1>b
  <2>2. CASE u = arg[th]
    BY <1>14, <1>a, <2>2, SMTT(60) DEF RollbackMarker, Transit, SlotHolds, PlaceHolds, StartHolds,
       PipelineHolds, EndHolds, Fresh, Over, Resumable, OwnTask, ClaimingAt, StartingAt, BusyAt,
       FailingAt, ResumingAt
  <2> QED
    BY <2>1, <2>2
<1>15. ASSUME NEW t \in Task, PipeBoot(t) PROVE SlotHolds(u)'
  <2>1. CASE u # t
    <3>1. FilesKept(u)
      BY <1>15, <2>1 DEF PipeBoot
    <3>2. \A o \in Thread : ThreadKept(u, o)
      BY <1>15, <1>a, <2>1 DEF PipeBoot, OwnTask, BusyAt, FailingAt
    <3> QED
      BY <3>1, <3>2, <1>b
  <2>2. CASE u = t
    BY <1>15, <1>a, <2>2, SMTT(60) DEF PipeBoot, SlotHolds, PlaceHolds, StartHolds, PipelineHolds,
       EndHolds, Fresh, Over, Resumable, OwnTask, ClaimingAt, StartingAt, BusyAt, FailingAt,
       ResumingAt
  <2> QED
    BY <2>1, <2>2
<1>16. ASSUME NEW t \in Task, PipeDone(t) PROVE SlotHolds(u)'
  <2>1. CASE u # t
    <3>1. FilesKept(u)
      BY <1>16, <2>1 DEF PipeDone
    <3>2. \A o \in Thread : ThreadKept(u, o)
      BY <1>16, <1>a, <2>1 DEF PipeDone, OwnTask, BusyAt, FailingAt
    <3> QED
      BY <3>1, <3>2, <1>b
  <2>2. CASE u = t
    BY <1>16, <1>a, <2>2, SMTT(60) DEF PipeDone, SlotHolds, PlaceHolds, StartHolds, PipelineHolds,
       EndHolds, Fresh, Over, Resumable, OwnTask, ClaimingAt, StartingAt, BusyAt, FailingAt,
       ResumingAt
  <2> QED
    BY <2>1, <2>2
<1>17. ASSUME NEW t \in Task, PipeFails(t) PROVE SlotHolds(u)'
  <2>1. CASE u # t
    <3>1. FilesKept(u)
      BY <1>17, <2>1 DEF PipeFails, Fault
    <3>2. \A o \in Thread : ThreadKept(u, o)
      BY <1>17, <1>a, <2>1 DEF PipeFails, Fault, OwnTask, BusyAt, FailingAt
    <3> QED
      BY <3>1, <3>2, <1>b
  <2>2. CASE u = t
    BY <1>17, <1>a, <2>2, SMTT(60) DEF PipeFails, Fault, SlotHolds, PlaceHolds, StartHolds,
       PipelineHolds, EndHolds, Fresh, Over, Resumable, OwnTask, ClaimingAt, StartingAt, BusyAt,
       FailingAt, ResumingAt
  <2> QED
    BY <2>1, <2>2
<1>18. ASSUME NEW t \in Task, PipeExit(t) PROVE SlotHolds(u)'
  <2>1. CASE u # t
    <3>1. FilesKept(u)
      BY <1>18, <2>1 DEF PipeExit
    <3>2. \A o \in Thread : ThreadKept(u, o)
      BY <1>18, <1>a, <2>1, ExitStep DEF PipeExit, OwnTask, BusyAt, FailingAt
    <3> QED
      BY <3>1, <3>2, <1>b
  <2>2. CASE u = t
    BY <1>18, <1>a, <2>2, ExitStep, SMTT(60) DEF PipeExit, SlotHolds, PlaceHolds, StartHolds,
       PipelineHolds, EndHolds, Fresh, Over, Resumable, OwnTask, ClaimingAt, StartingAt, BusyAt,
       FailingAt, ResumingAt
  <2> QED
    BY <2>1, <2>2
<1>19. ASSUME NEW t \in Task, PipeDies(t) PROVE SlotHolds(u)'
  <2>1. CASE u # t
    <3>1. FilesKept(u)
      BY <1>19, <2>1 DEF PipeDies, Fault
    <3>2. \A o \in Thread : ThreadKept(u, o)
      BY <1>19, <1>a, <2>1, ExitStep DEF PipeDies, Fault, OwnTask, BusyAt, FailingAt
    <3> QED
      BY <3>1, <3>2, <1>b
  <2>2. CASE u = t
    BY <1>19, <1>a, <2>2, ExitStep, SMTT(60) DEF PipeDies, Fault, SlotHolds, PlaceHolds,
       StartHolds, PipelineHolds, EndHolds, Fresh, Over, Resumable, OwnTask, ClaimingAt,
       StartingAt, BusyAt, FailingAt, ResumingAt
  <2> QED
    BY <2>1, <2>2
<1>20. ASSUME NEW t \in Task, CloseLock(t) PROVE SlotHolds(u)'
  <2>1. CASE u # t
    <3>1. FilesKept(u)
      BY <1>20, <2>1 DEF CloseLock, CloseStep
    <3>2. \A o \in Thread : ThreadKept(u, o)
      BY <1>20, <1>a, <2>1 DEF CloseLock, CloseStep, OwnTask, BusyAt, FailingAt
    <3> QED
      BY <3>1, <3>2, <1>b
  <2>2. CASE u = t
    BY <1>20, <1>a, <2>2, SMTT(60) DEF CloseLock, CloseStep, SlotHolds, PlaceHolds, StartHolds,
       PipelineHolds, EndHolds, Fresh, Over, Resumable, OwnTask, ClaimingAt, StartingAt, BusyAt,
       FailingAt, ResumingAt
  <2> QED
    BY <2>1, <2>2
<1>21. ASSUME NEW t \in Task, CloseVerify(t) PROVE SlotHolds(u)'
  <2>1. CASE u # t
    <3>1. FilesKept(u)
      BY <1>21, <2>1 DEF CloseVerify, CloseStep
    <3>2. \A o \in Thread : ThreadKept(u, o)
      BY <1>21, <1>a, <2>1 DEF CloseVerify, CloseStep, OwnTask, BusyAt, FailingAt
    <3> QED
      BY <3>1, <3>2, <1>b
  <2>2. CASE u = t
    BY <1>21, <1>a, <2>2, SMTT(60) DEF CloseVerify, CloseStep, SlotHolds, PlaceHolds, StartHolds,
       PipelineHolds, EndHolds, Fresh, Over, Resumable, OwnTask, ClaimingAt, StartingAt, BusyAt,
       FailingAt, ResumingAt
  <2> QED
    BY <2>1, <2>2
<1>22. ASSUME NEW t \in Task, CloseArchive(t) PROVE SlotHolds(u)'
  <2>1. CASE u # t
    <3>1. FilesKept(u)
      BY <1>22, <2>1 DEF CloseArchive, CloseStep
    <3>2. \A o \in Thread : ThreadKept(u, o)
      BY <1>22, <1>a, <2>1 DEF CloseArchive, CloseStep, OwnTask, BusyAt, FailingAt
    <3> QED
      BY <3>1, <3>2, <1>b
  <2>2. CASE u = t
    BY <1>22, <1>a, <2>2, SMTT(60) DEF CloseArchive, CloseStep, SlotHolds, PlaceHolds, StartHolds,
       PipelineHolds, EndHolds, Fresh, Over, Resumable, OwnTask, ClaimingAt, StartingAt, BusyAt,
       FailingAt, ResumingAt
  <2> QED
    BY <2>1, <2>2
<1>23. ASSUME NEW t \in Task, CloseMerge(t) PROVE SlotHolds(u)'
  <2>1. CASE u # t
    <3>1. FilesKept(u)
      BY <1>23, <2>1 DEF CloseMerge, CloseStep
    <3>2. \A o \in Thread : ThreadKept(u, o)
      BY <1>23, <1>a, <2>1 DEF CloseMerge, CloseStep, OwnTask, BusyAt, FailingAt
    <3> QED
      BY <3>1, <3>2, <1>b
  <2>2. CASE u = t
    BY <1>23, <1>a, <2>2, SMTT(60) DEF CloseMerge, CloseStep, SlotHolds, PlaceHolds, StartHolds,
       PipelineHolds, EndHolds, Fresh, Over, Resumable, OwnTask, ClaimingAt, StartingAt, BusyAt,
       FailingAt, ResumingAt
  <2> QED
    BY <2>1, <2>2
<1>24. ASSUME NEW t \in Task, ClosePending(t) PROVE SlotHolds(u)'
  <2>1. CASE u # t
    <3>1. FilesKept(u)
      BY <1>24, <2>1 DEF ClosePending, CloseStep, CompleteItem
    <3>2. \A o \in Thread : ThreadKept(u, o)
      BY <1>24, <1>a, <2>1 DEF ClosePending, CloseStep, CompleteItem, OwnTask, BusyAt, FailingAt
    <3> QED
      BY <3>1, <3>2, <1>b
  <2>2. CASE u = t
    BY <1>24, <1>a, <2>2, SMTT(60) DEF ClosePending, CloseStep, CompleteItem, SlotHolds,
       PlaceHolds, StartHolds, PipelineHolds, EndHolds, Fresh, Over, Resumable, OwnTask,
       ClaimingAt, StartingAt, BusyAt, FailingAt, ResumingAt
  <2> QED
    BY <2>1, <2>2
<1>25. ASSUME NEW t \in Task, CloseMarker(t) PROVE SlotHolds(u)'
  <2>1. CASE u # t
    <3>1. FilesKept(u)
      BY <1>25, <2>1 DEF CloseMarker, CloseStep
    <3>2. \A o \in Thread : ThreadKept(u, o)
      BY <1>a, <1>25, <2>1 DEF CloseMarker, CloseStep, OwnTask, BusyAt, FailingAt
    <3> QED
      BY <3>1, <3>2, <1>b
  <2>2. CASE u = t
    <3>1. /\ pc[Pipe(u)] = "closeMarker" /\ u \in marker /\ place[u] = {} /\ u \in issued
          /\ lock = Pipe(u)
      BY <1>25, <1>a, <2>2
         DEF CloseMarker, CloseStep, SlotHolds, PipelineHolds, BusyAt, UnissuedHold
    <3>2. /\ marker' = marker \ {u} /\ disposed' = disposed \cup {u}
          /\ UNCHANGED <<place, sentinel, issued, reg, arg, plock, evidence>>
          /\ pc' = [pc EXCEPT ![Pipe(u)] = "closeRegister"]
      BY <1>25, <2>2 DEF CloseMarker, CloseStep
    <3>3. Over(u)'
      BY <3>1, <3>2 DEF Over
    <3>4. PlaceHolds(u)'
      BY <3>1, <3>2, <3>3 DEF PlaceHolds
    <3>5. StartHolds(u)'
      BY <1>a, <3>1, <3>2 DEF SlotHolds, StartHolds, ClaimingAt, StartingAt
    <3>6. PipelineHolds(u)'
      BY <3>2, <3>3 DEF PipelineHolds, BusyAt, Over
    <3>7. EndHolds(u)'
      BY <1>a, <3>1, <3>2 DEF SlotHolds, EndHolds, FailingAt, ResumingAt
    <3> QED
      BY <3>1, <3>2, <3>3, <3>4, <3>5, <3>6, <3>7 DEF SlotHolds, Over, FailingAt
  <2> QED
    BY <2>1, <2>2
<1>26. ASSUME NEW t \in Task, CloseRegister(t) PROVE SlotHolds(u)'
  <2>1. CASE u # t
    <3>1. FilesKept(u)
      BY <1>26, <2>1 DEF CloseRegister, CloseStep, Transit
    <3>2. \A o \in Thread : ThreadKept(u, o)
      BY <1>26, <1>a, <2>1 DEF CloseRegister, CloseStep, Transit, OwnTask, BusyAt, FailingAt
    <3> QED
      BY <3>1, <3>2, <1>b
  <2>2. CASE u = t
    BY <1>26, <1>a, <2>2, SMTT(60) DEF CloseRegister, CloseStep, Transit, SlotHolds, PlaceHolds,
       StartHolds, PipelineHolds, EndHolds, Fresh, Over, Resumable, OwnTask, ClaimingAt,
       StartingAt, BusyAt, FailingAt, ResumingAt
  <2> QED
    BY <2>1, <2>2
<1>27. ASSUME NEW t \in Task, CloseEnd(t) PROVE SlotHolds(u)'
  <2>1. CASE u # t
    <3>1. FilesKept(u)
      BY <1>27, <2>1 DEF CloseEnd, CloseStep
    <3>2. \A o \in Thread : ThreadKept(u, o)
      BY <1>27, <1>a, <2>1 DEF CloseEnd, CloseStep, OwnTask, BusyAt, FailingAt
    <3> QED
      BY <3>1, <3>2, <1>b
  <2>2. CASE u = t
    BY <1>27, <1>a, <2>2, SMTT(60) DEF CloseEnd, CloseStep, SlotHolds, PlaceHolds, StartHolds,
       PipelineHolds, EndHolds, Fresh, Over, Resumable, OwnTask, ClaimingAt, StartingAt, BusyAt,
       FailingAt, ResumingAt
  <2> QED
    BY <2>1, <2>2
<1>28. ASSUME NEW t \in Task, CloseThrows(t) PROVE SlotHolds(u)'
  <2>1. CASE u # t
    <3>1. FilesKept(u)
      BY <1>28, <2>1 DEF CloseThrows, Fault
    <3>2. \A o \in Thread : ThreadKept(u, o)
      BY <1>28, <1>a, <2>1 DEF CloseThrows, Fault, OwnTask, BusyAt, FailingAt
    <3> QED
      BY <3>1, <3>2, <1>b
  <2>2. CASE u = t
    BY <1>28, <1>a, <2>2, SMTT(60) DEF CloseThrows, Fault, SlotHolds, PlaceHolds, StartHolds,
       PipelineHolds, EndHolds, Fresh, Over, Resumable, OwnTask, ClaimingAt, StartingAt, BusyAt,
       FailingAt, ResumingAt
  <2> QED
    BY <2>1, <2>2
<1>29. ASSUME NEW th \in Thread, FailLock(th) PROVE SlotHolds(u)'
  <2>1. CASE u # arg[th]
    <3>1. FilesKept(u)
      BY <1>29, <2>1 DEF FailLock, Undisposed
    <3>2. \A o \in Thread : ThreadKept(u, o)
      BY <1>29, <1>a, <2>1 DEF FailLock, Undisposed, OwnTask, BusyAt, FailingAt
    <3> QED
      BY <3>1, <3>2, <1>b
  <2>2. CASE u = arg[th]
    BY <1>29, <1>a, <2>2, SMTT(60) DEF FailLock, Undisposed, SlotHolds, PlaceHolds, StartHolds,
       PipelineHolds, EndHolds, Fresh, Over, Resumable, OwnTask, ClaimingAt, StartingAt, BusyAt,
       FailingAt, ResumingAt
  <2> QED
    BY <2>1, <2>2
<1>30. ASSUME NEW th \in Thread, FailRename(th) PROVE SlotHolds(u)'
  <2>1. CASE u # arg[th]
    <3>1. FilesKept(u)
      BY <1>30, <2>1 DEF FailRename, FailIntake, Move
    <3>2. \A o \in Thread : ThreadKept(u, o)
      BY <1>30, <1>a, <2>1 DEF FailRename, FailIntake, Move, OwnTask, BusyAt, FailingAt
    <3> QED
      BY <3>1, <3>2, <1>b
  <2>2. CASE u = arg[th]
    BY <1>30, <1>a, <2>2, SMTT(60) DEF FailRename, FailIntake, Move, SlotHolds, PlaceHolds,
       StartHolds, PipelineHolds, EndHolds, Fresh, Over, Resumable, OwnTask, ClaimingAt,
       StartingAt, BusyAt, FailingAt, ResumingAt
  <2> QED
    BY <2>1, <2>2
<1>31. ASSUME NEW th \in Thread, FailRegister(th) PROVE SlotHolds(u)'
  <2>1. CASE u # arg[th]
    <3>1. FilesKept(u)
      BY <1>31, <2>1 DEF FailRegister, Transit
    <3>2. \A o \in Thread : ThreadKept(u, o)
      BY <1>31, <1>a, <2>1 DEF FailRegister, Transit, OwnTask, BusyAt, FailingAt
    <3> QED
      BY <3>1, <3>2, <1>b
  <2>2. CASE u = arg[th]
    BY <1>31, <1>a, <2>2, SMTT(60) DEF FailRegister, Transit, SlotHolds, PlaceHolds, StartHolds,
       PipelineHolds, EndHolds, Fresh, Over, Resumable, OwnTask, ClaimingAt, StartingAt, BusyAt,
       FailingAt, ResumingAt
  <2> QED
    BY <2>1, <2>2
<1>32. ASSUME NEW th \in Thread, FailMarker(th) PROVE SlotHolds(u)'
  <2>1. CASE u # arg[th]
    <3>1. FilesKept(u)
      BY <1>32, <1>a, <2>1 DEF FailMarker, OwnTask, FailingAt
    <3>2. \A o \in Thread : ThreadKept(u, o)
      BY <1>32, <1>a, <2>1 DEF FailMarker, Advance, OwnTask, BusyAt, FailingAt
    <3> QED
      BY <3>1, <3>2, <1>b
  <2>2. CASE u = arg[th]
    <3>1. pc[th] = "failMarker" /\ u \in marker /\ place[u] = {"error"} /\ u \in issued /\ lock = th
      BY <1>32, <1>a, <2>2 DEF FailMarker, SlotHolds, EndHolds, FailingAt, UnissuedHold
    <3>2. /\ marker' = marker \ {u} /\ disposed' \in {disposed, disposed \cup {u}}
          /\ UNCHANGED <<place, sentinel, workspace, issued, reg, arg, plock, evidence>>
          /\ pc' = [pc EXCEPT ![th] = "actScan"]
      BY <1>32, <2>2 DEF FailMarker, Advance
    <3>3. Over(u)'
      BY <3>1, <3>2 DEF Over
    <3>4. PlaceHolds(u)'
      BY <3>1, <3>2, <3>3 DEF PlaceHolds
    <3>5. StartHolds(u)'
      <4>1. \A o \in Thread : arg[o] = u => pc[o] \notin ClaimingAt \cup StartingAt
        BY <1>a, <3>1 DEF SlotHolds, StartHolds
      <4>2. \A o \in Thread : arg'[o] = u => pc'[o] \notin ClaimingAt \cup StartingAt
        BY <3>2, <4>1 DEF ClaimingAt, StartingAt
      <4> QED
        BY <4>2 DEF StartHolds, ClaimingAt, StartingAt
    <3>6. th # Pipe(u) => pc[Pipe(u)] = "idle"
      BY <1>a, <2>2, <3>1 DEF SlotHolds, EndHolds, FailingAt
    <3>7. PipelineHolds(u)'
      BY <3>1, <3>2, <3>6 DEF PipelineHolds, BusyAt
    <3>8. EndHolds(u)'
      BY <1>a, <3>1, <3>2 DEF SlotHolds, EndHolds, FailingAt, ResumingAt
    <3> QED
      BY <3>1, <3>2, <3>3, <3>4, <3>5, <3>7, <3>8 DEF SlotHolds, Over, FailingAt
  <2> QED
    BY <2>1, <2>2
<1>33. ASSUME NEW th \in Thread, ResLock(th) PROVE SlotHolds(u)'
  <2>1. CASE u # arg[th]
    <3>1. FilesKept(u)
      BY <1>33, <2>1 DEF ResLock, Resumable
    <3>2. \A o \in Thread : ThreadKept(u, o)
      BY <1>33, <2>1 DEF ResLock, Resumable
    <3> QED
      BY <3>1, <3>2, <1>b
  <2>2. CASE u = arg[th]
    BY <1>33, <1>a, <2>2, SMTT(60) DEF ResLock, Resumable, SlotHolds, PlaceHolds, StartHolds,
       PipelineHolds, EndHolds, Fresh, Over, Resumable, OwnTask, ClaimingAt, StartingAt, BusyAt,
       FailingAt, ResumingAt
  <2> QED
    BY <2>1, <2>2
<1>34. ASSUME NEW th \in Thread, ResRegister(th) PROVE SlotHolds(u)'
  <2>1. CASE u # arg[th]
    <3>1. FilesKept(u)
      BY <1>34, <2>1 DEF ResRegister, Transit
    <3>2. \A o \in Thread : ThreadKept(u, o)
      BY <1>34, <2>1 DEF ResRegister, Transit
    <3> QED
      BY <3>1, <3>2, <1>b
  <2>2. CASE u = arg[th]
    BY <1>34, <1>a, <2>2, SMTT(60) DEF ResRegister, Transit, SlotHolds, PlaceHolds, StartHolds,
       PipelineHolds, EndHolds, Fresh, Over, Resumable, OwnTask, ClaimingAt, StartingAt, BusyAt,
       FailingAt, ResumingAt
  <2> QED
    BY <2>1, <2>2
<1>35. ASSUME NEW th \in Thread, ResPending(th) PROVE SlotHolds(u)'
  <2>1. CASE u # arg[th]
    <3>1. FilesKept(u)
      BY <1>35, <2>1 DEF ResPending, CompleteItem
    <3>2. \A o \in Thread : ThreadKept(u, o)
      BY <1>35, <2>1 DEF ResPending, CompleteItem
    <3> QED
      BY <3>1, <3>2, <1>b
  <2>2. CASE u = arg[th]
    BY <1>35, <1>a, <2>2, SMTT(60) DEF ResPending, CompleteItem, SlotHolds, PlaceHolds,
       StartHolds, PipelineHolds, EndHolds, Fresh, Over, Resumable, OwnTask, ClaimingAt,
       StartingAt, BusyAt, FailingAt, ResumingAt
  <2> QED
    BY <2>1, <2>2
<1>36. ASSUME NEW th \in Thread, ResMarker(th) PROVE SlotHolds(u)'
  <2>1. CASE u # arg[th]
    <3>1. FilesKept(u)
      BY <1>36, <2>1 DEF ResMarker
    <3>2. \A o \in Thread : ThreadKept(u, o)
      BY <1>36, <2>1 DEF ResMarker
    <3> QED
      BY <3>1, <3>2, <1>b
  <2>2. CASE u = arg[th]
    <3>1. pc[th] = "resMarker" /\ "pending" \notin place[u] /\ sentinel[u] = "archived" /\ lock = th
      BY <1>36, <1>a, <2>2 DEF ResMarker, SlotHolds, EndHolds, ResumingAt
    <3>2. /\ marker' = marker \ {u}
          /\ UNCHANGED <<place, sentinel, issued, disposed, reg, arg, plock, evidence>>
          /\ pc' = [pc EXCEPT ![th] = "resEnd"]
      BY <1>36, <2>2 DEF ResMarker
    <3>3. Over(u)'
      <4>1. CASE u \in marker
        <5>1. u \in issued /\ place[u] \subseteq {"error"}
          BY <1>a, <3>1, <4>1 DEF SlotHolds, PlaceHolds, UnissuedHold
        <5> QED
          BY <3>2, <5>1 DEF Over
      <4>2. CASE u \notin marker
        <5>1. Over(u)
          BY <1>a, <3>1, <4>2 DEF SlotHolds, PlaceHolds, Fresh
        <5> QED
          BY <3>2, <5>1 DEF Over
      <4> QED
        BY <4>1, <4>2
    <3>5. PlaceHolds(u)'
      BY <1>a, <3>2, <3>3 DEF SlotHolds, PlaceHolds
    <3>6. StartHolds(u)'
      BY <1>a, <3>1, <3>2 DEF SlotHolds, StartHolds, ClaimingAt, StartingAt
    <3>7. PipelineHolds(u)'
      BY <1>a, <3>1, <3>2 DEF SlotHolds, PipelineHolds, BusyAt
    <3>8. EndHolds(u)'
      BY <1>a, <3>1, <3>2, <2>2 DEF SlotHolds, EndHolds, FailingAt, ResumingAt
    <3>9. u \in disposed' => pc'[Exit(u)] \notin FailingAt \ {"failLock"}
      BY <1>a, <3>2 DEF SlotHolds, FailingAt
    <3> QED
      BY <3>2, <3>5, <3>6, <3>7, <3>8, <3>9 DEF SlotHolds
  <2> QED
    BY <2>1, <2>2
<1>37. ASSUME NEW th \in Thread, ResEnd(th) PROVE SlotHolds(u)'
  <2>1. CASE u # arg[th]
    <3>1. FilesKept(u)
      BY <1>37, <2>1 DEF ResEnd, Advance
    <3>2. \A o \in Thread : ThreadKept(u, o)
      BY <1>37, <2>1 DEF ResEnd, Advance
    <3> QED
      BY <3>1, <3>2, <1>b
  <2>2. CASE u = arg[th]
    BY <1>37, <1>a, <2>2, SMTT(60) DEF ResEnd, Advance, SlotHolds, PlaceHolds, StartHolds,
       PipelineHolds, EndHolds, Fresh, Over, Resumable, OwnTask, ClaimingAt, StartingAt, BusyAt,
       FailingAt, ResumingAt
  <2> QED
    BY <2>1, <2>2
<1>38. ASSUME NEW t \in Task, Publish(t) PROVE SlotHolds(u)'
  <2>1. CASE u # t /\ "dropbox" \notin place[u]
    <3>1. FilesKept(u)
      BY <1>38, <2>1 DEF Publish
    <3>2. \A o \in Thread : ThreadKept(u, o)
      BY <1>38 DEF Publish, MainFree, MainGoes
    <3> QED
      BY <3>1, <3>2, <1>b
  <2>2. CASE u = t \/ "dropbox" \in place[u]
    <3>1. u \notin marker /\ ~Over(u) /\ place'[u] = {"pending"}
      <4>1. CASE u = t
        BY <1>38, <1>a, <4>1 DEF Publish, UnissuedHold, Over
      <4>2. CASE u # t /\ "dropbox" \in place[u]
        <5>1. u \notin marker /\ place[u] = {"dropbox"}
          BY <1>a, <4>2 DEF SlotHolds, PlaceHolds
        <5> QED
          BY <1>38, <4>2, <5>1 DEF Publish, Over
      <4> QED
        BY <2>2, <4>1, <4>2
    <3>2. /\ UNCHANGED <<marker, sentinel, workspace, disposed, plock, evidence, arg>>
          /\ pc' = [pc EXCEPT ![Main] = "actScan"]
          /\ "completed" \in reg'[u] => "completed" \in reg[u]
      BY <1>38 DEF Publish, MainGoes
    <3> QED
      BY <1>c, <3>1, <3>2
  <2> QED
    BY <2>1, <2>2
<1>39. ASSUME NEW t \in Task, MoveToPending(t) PROVE SlotHolds(u)'
  <2>1. CASE u # t
    <3>1. FilesKept(u)
      BY <1>39, <2>1 DEF MoveToPending, MainFree, MainGoes, Move
    <3>2. \A o \in Thread : ThreadKept(u, o)
      BY <1>39, <1>a, <2>1 DEF MoveToPending, MainFree, MainGoes, Move, OwnTask, BusyAt, FailingAt
    <3> QED
      BY <3>1, <3>2, <1>b
  <2>2. CASE u = t
    BY <1>39, <1>a, <2>2, SMTT(60) DEF MoveToPending, MainFree, MainGoes, Move, SlotHolds,
       PlaceHolds, StartHolds, PipelineHolds, EndHolds, Fresh, Over, Resumable, OwnTask,
       ClaimingAt, StartingAt, BusyAt, FailingAt, ResumingAt
  <2> QED
    BY <2>1, <2>2
<1>40. ASSUME NEW t \in Task, ReturnToOpen(t) PROVE SlotHolds(u)'
  <2>1. CASE u # t
    <3>1. FilesKept(u)
      BY <1>40, <2>1 DEF ReturnToOpen, MainFree, Move, Transit
    <3>2. \A o \in Thread : ThreadKept(u, o)
      BY <1>40, <1>a, <2>1 DEF ReturnToOpen, MainFree, Move, Transit, OwnTask, BusyAt, FailingAt
    <3> QED
      BY <3>1, <3>2, <1>b
  <2>2. CASE u = t
    BY <1>40, <1>a, <2>2, SMTT(60) DEF ReturnToOpen, MainFree, Move, Transit, SlotHolds,
       PlaceHolds, StartHolds, PipelineHolds, EndHolds, Fresh, Over, Resumable, OwnTask,
       ClaimingAt, StartingAt, BusyAt, FailingAt, ResumingAt
  <2> QED
    BY <2>1, <2>2
<1>41. ASSUME NEW t \in Task, NEW v \in Task, Requeue(t, v) PROVE SlotHolds(u)'
  <2>1. u # t
    BY <1>41 DEF Requeue, ByOperator
  <2>2. CASE u # v
    <3>1. FilesKept(u)
      BY <1>41, <2>1, <2>2 DEF Requeue, RetryIntake
    <3>2. \A o \in Thread : ThreadKept(u, o)
      BY <1>41, <2>1 DEF Requeue, MainFree, MainGoes
    <3> QED
      BY <3>1, <3>2, <1>b
  <2>3. CASE u = v
    <3>1. u \notin marker /\ ~Over(u) /\ place'[u] = {"pending"}
      BY <1>41, <1>a, <2>3 DEF Requeue, RetryIntake, UnissuedHold, Over
    <3>2. /\ UNCHANGED <<marker, sentinel, workspace, disposed, plock, evidence>>
          /\ pc' = [pc EXCEPT ![Main] = "discard"]
          /\ arg' = [arg EXCEPT ![Main] = t]
          /\ "completed" \in reg'[u] => "completed" \in reg[u]
      BY <1>41, <2>1 DEF Requeue, MainGoes
    <3> QED
      BY <1>c, <2>1, <3>1, <3>2
  <2> QED
    BY <2>2, <2>3
<1>42. ASSUME NEW t \in Task, MoveToOpen(t) PROVE SlotHolds(u)'
  <2>1. CASE u # t
    <3>1. FilesKept(u)
      BY <1>42, <2>1 DEF MoveToOpen, MainFree, Move, Transit, ByOperator
    <3>2. \A o \in Thread : ThreadKept(u, o)
      BY <1>42, <1>a, <2>1 DEF MoveToOpen, MainFree, Move, Transit, ByOperator, OwnTask, BusyAt,
         FailingAt
    <3> QED
      BY <3>1, <3>2, <1>b
  <2>2. CASE u = t
    BY <1>42, <1>a, <2>2, SMTT(60) DEF MoveToOpen, MainFree, Move, Transit, ByOperator, SlotHolds,
       PlaceHolds, StartHolds, PipelineHolds, EndHolds, Fresh, Over, Resumable, OwnTask,
       ClaimingAt, StartingAt, BusyAt, FailingAt, ResumingAt
  <2> QED
    BY <2>1, <2>2
<1>43. ASSUME NEW t \in Task, Discard(t) PROVE SlotHolds(u)'
  <2>1. u # t
    BY <1>43, <1>a DEF Discard
  <2>2. FilesKept(u)
    BY <1>43, <2>1 DEF Discard
  <2>3. \A o \in Thread : ThreadKept(u, o)
    BY <1>43 DEF Discard
  <2> QED
    BY <2>2, <2>3, <1>b
<1>44. ASSUME NEW t \in Task, RepairMarker(t) PROVE SlotHolds(u)'
  <2>1. CASE u # t
    <3>1. FilesKept(u)
      BY <1>44, <2>1 DEF RepairMarker
    <3>2. \A o \in Thread : ThreadKept(u, o)
      BY <1>44 DEF RepairMarker
    <3> QED
      BY <3>1, <3>2, <1>b
  <2>2. CASE u = t
    <3>1. /\ u \in marker /\ u \in issued /\ "pending" \notin place[u] /\ workspace[u] # "active"
          /\ lock = Nobody
      BY <1>44, <1>a, <2>2 DEF RepairMarker, MainFree, Stranded, UnissuedHold
    <3>2. /\ marker' = marker \ {u}
          /\ UNCHANGED <<place, sentinel, workspace, issued, disposed, reg, pc, arg, plock,
                         evidence>>
      BY <1>44, <2>2 DEF RepairMarker
    <3>3. Over(u)'
      BY <1>a, <3>1, <3>2 DEF SlotHolds, PlaceHolds, Over
    <3>4. PlaceHolds(u)'
      BY <1>a, <3>2, <3>3 DEF SlotHolds, PlaceHolds
    <3>5. StartHolds(u)'
      BY <1>a, <3>1, <3>2 DEF SlotHolds, StartHolds, ClaimingAt, StartingAt
    <3>6. PipelineHolds(u)'
      BY <1>a, <3>1, <3>2 DEF SlotHolds, PipelineHolds, BusyAt
    <3>7. EndHolds(u)'
      BY <1>a, <3>1, <3>2 DEF SlotHolds, EndHolds, FailingAt, ResumingAt
    <3>8. u \in disposed' => pc'[Exit(u)] \notin FailingAt \ {"failLock"}
      BY <1>a, <3>2 DEF SlotHolds
    <3> QED
      BY <3>2, <3>4, <3>5, <3>6, <3>7, <3>8 DEF SlotHolds
  <2> QED
    BY <2>1, <2>2
<1>45. ASSUME NEW t \in Task, RecoveryFails(t) PROVE SlotHolds(u)'
  <2>1. CASE u # t
    <3>1. FilesKept(u)
      BY <1>45, <2>1 DEF RecoveryFails, MainFree, MainGoes, Starting, Fixable
    <3>2. \A o \in Thread : ThreadKept(u, o)
      BY <1>45, <1>a, <2>1 DEF RecoveryFails, MainFree, MainGoes, Starting, Fixable, OwnTask,
         BusyAt, FailingAt
    <3> QED
      BY <3>1, <3>2, <1>b
  <2>2. CASE u = t
    BY <1>45, <1>a, <2>2, SMTT(60) DEF RecoveryFails, MainFree, MainGoes, Starting, Fixable,
       SlotHolds, PlaceHolds, StartHolds, PipelineHolds, EndHolds, Fresh, Over, Resumable,
       OwnTask, ClaimingAt, StartingAt, BusyAt, FailingAt, ResumingAt
  <2> QED
    BY <2>1, <2>2
<1>46. CASE MainStops
  <2>1. FilesKept(u)
    BY <1>46 DEF MainStops, Fault
  <2>2. \A o \in Thread : ThreadKept(u, o)
    BY <1>46 DEF MainStops, Fault
  <2> QED
    BY <2>1, <2>2, <1>b
<1>47. CASE MainStarts
  <2>1. FilesKept(u)
    BY <1>47 DEF MainStarts, RepairedEntry
  <2>2. \A o \in Thread : ThreadKept(u, o)
    BY <1>47 DEF MainStarts, RepairedEntry
  <2> QED
    BY <2>1, <2>2, <1>b
<1>48. CASE UNCHANGED vars
  <2>1. FilesKept(u)
    BY <1>48 DEF vars
  <2>2. \A o \in Thread : ThreadKept(u, o)
    BY <1>48 DEF vars
  <2> QED
    BY <2>1, <2>2, <1>b
<1>49. ASSUME NEW t \in Task, RecoveryFailsRuntime(t) PROVE SlotHolds(u)'
  <2>1. CASE u # t
    <3>1. FilesKept(u)
      BY <1>49, <2>1 DEF RecoveryFailsRuntime, MainFree, MainGoes, Fixable
    <3>2. \A o \in Thread : ThreadKept(u, o)
      BY <1>49, <1>a, <2>1 DEF RecoveryFailsRuntime, MainFree, MainGoes, Fixable, OwnTask,
         BusyAt, FailingAt
    <3> QED
      BY <3>1, <3>2, <1>b
  <2>2. CASE u = t
    BY <1>49, <1>a, <2>2, SMTT(60) DEF RecoveryFailsRuntime, MainFree, MainGoes, Fixable,
       SlotHolds, PlaceHolds, StartHolds, PipelineHolds, EndHolds, Fresh, Over, Resumable,
       OwnTask, ClaimingAt, StartingAt, BusyAt, FailingAt, ResumingAt
  <2> QED
    BY <2>1, <2>2
<1> HIDE DEF Base, TypeOK, LockDiscipline, OnTask
<1> QED
  BY <1>1, <1>2, <1>3, <1>4, <1>5, <1>6, <1>7, <1>8, <1>9, <1>10, <1>11, <1>12, <1>13, <1>14,
     <1>15, <1>16, <1>17, <1>18, <1>19, <1>20, <1>21, <1>22, <1>23, <1>24, <1>25, <1>26, <1>27,
     <1>28, <1>29, <1>30, <1>31, <1>32, <1>33, <1>34, <1>35, <1>36, <1>37, <1>38, <1>39, <1>40,
     <1>41, <1>42, <1>43, <1>44, <1>45, <1>46, <1>47, <1>48,
     <1>49, Zenon DEF Next, Progress, Operator, Failing, Activation, Failure, Resume, Pipeline,
     Closeout

\* A task id that was never submitted has no files.
LEMMA UnissuedStep == ASSUME Base, SlotInv, [Next]_vars PROVE UnissuedHold'
<1> USE SlotThreads DEF Base, TypeOK, OnTask, At, fileVars, processVars
<1>a. UnissuedHold /\ MovesKnown /\ \A t \in Task \ moved : SlotHolds(t)
  BY DEF SlotInv, Unmoved
<1>b. ASSUME NEW t \in issued, issued \subseteq issued', marker' \subseteq marker \cup {t},
             archived' \subseteq archived \cup {t}, \A u \in Task \ {t} : place'[u] = place[u]
      PROVE  UnissuedHold'
  BY <1>a, <1>b DEF UnissuedHold
<1>c. ASSUME issued \subseteq issued', marker' \subseteq marker, archived' = archived,
             \A u \in Task : place'[u] \subseteq place[u]
      PROVE  UnissuedHold'
  BY <1>a, <1>c DEF UnissuedHold
<1>d. ASSUME NEW t \in Task, place[t] # {} \/ t \in marker PROVE t \in issued
  BY <1>a, <1>d DEF UnissuedHold
<1>e. ASSUME NEW th \in Thread, pc[th] \in ClaimingAt PROVE arg[th] \in Task /\ arg[th] \in issued
  <2>1. arg[th] \in Task
    BY <1>e DEF ClaimingAt
  <2>2. CASE arg[th] \in moved
    BY <1>a, <2>1, <2>2 DEF MovesKnown
  <2>3. CASE arg[th] \notin moved
    <3>1. place[arg[th]] = {"pending"}
      BY <1>a, <1>e, <2>1, <2>3 DEF SlotHolds, StartHolds
    <3> QED
      BY <1>d, <2>1, <3>1
  <2> QED
    BY <2>1, <2>2, <2>3
<1>1. ASSUME NEW th \in Thread, ActDirty(th) \/ ActConflict(th) \/ ActMark(th)
      PROVE  UnissuedHold'
  <2>1. arg[th] \in Task /\ arg[th] \in issued
    BY <1>1, <1>e DEF ActDirty, ActConflict, ActMark, ClaimingAt
  <2>2. ActDirty(th) => UnissuedHold'
    BY <1>b, <2>1 DEF ActDirty, Move
  <2>3. ActConflict(th) => UnissuedHold'
    BY <1>b, <2>1 DEF ActConflict, Move
  <2>4. ActMark(th) => UnissuedHold'
    BY <1>b, <2>1 DEF ActMark
  <2> QED
    BY <1>1, <2>2, <2>3, <2>4
<1>2. ASSUME NEW th \in Thread, FailRename(th) PROVE UnissuedHold'
  <2>1. arg[th] \in Task /\ pc[th] = "failRename"
    BY <1>2 DEF FailRename
  <2>2. CASE arg[th] \in moved
    BY <1>2, <1>a, <1>b, <2>1, <2>2 DEF FailRename, FailIntake, Move, MovesKnown
  <2>3. CASE arg[th] \notin moved
    <3>1. arg[th] \in issued
      BY <1>a, <1>d, <2>1, <2>3 DEF SlotHolds, EndHolds, FailingAt
    <3> QED
      BY <1>2, <1>b, <3>1 DEF FailRename, FailIntake, Move
  <2> QED
    BY <2>2, <2>3
<1>3. ASSUME NEW t \in Task, CloseArchive(t) PROVE UnissuedHold'
  <2>1. CASE t \in moved
    BY <1>3, <1>a, <1>b, <2>1 DEF CloseArchive, MovesKnown
  <2>2. CASE t \notin moved
    <3>1. t \in issued
      BY <1>3, <1>a, <1>d, <2>2 DEF CloseArchive, CloseStep, SlotHolds, PipelineHolds, BusyAt
    <3> QED
      BY <1>3, <1>b, <3>1 DEF CloseArchive
  <2> QED
    BY <2>1, <2>2
<1>4. ASSUME NEW t \in Task, MoveToPending(t) \/ ReturnToOpen(t) \/ MoveToOpen(t)
      PROVE  UnissuedHold'
  <2>1. t \in issued
    BY <1>4, <1>d DEF MoveToPending, ReturnToOpen, MoveToOpen
  <2> QED
    BY <1>4, <1>b, <2>1 DEF MoveToPending, ReturnToOpen, MoveToOpen, Move
<1>5. ASSUME NEW t \in Task, Publish(t) PROVE UnissuedHold'
  BY <1>5, <1>a DEF Publish, UnissuedHold
<1>6. ASSUME NEW t \in Task, NEW u \in Task, Requeue(t, u) PROVE UnissuedHold'
  BY <1>6, <1>a DEF Requeue, RetryIntake, UnissuedHold
<1>7. ASSUME NEW th \in Thread,
             \/ ActScan(th) \/ ActLock(th) \/ ActPick(th) \/ ActNotReady(th) \/ ActThrow(th)
             \/ ActClaim(th) \/ ActRegister(th) \/ ActStart(th) \/ ActStartFails(th)
             \/ RollbackWorkspace(th) \/ RollbackMarker(th) \/ FailLock(th) \/ FailRegister(th)
             \/ FailMarker(th) \/ ResLock(th) \/ ResRegister(th) \/ ResMarker(th) \/ ResEnd(th)
      PROVE  UnissuedHold'
  BY <1>7, <1>c DEF ActScan, ActLock, ActPick, ActNotReady, ActThrow, ActClaim, ActRegister,
     ActStart, ActStartFails, RollbackWorkspace, RollbackMarker, FailLock, FailRegister,
     FailMarker, ResLock, ResRegister, ResMarker, ResEnd
<1>8. ASSUME NEW th \in Thread, ResPending(th) PROVE UnissuedHold'
  BY <1>8, <1>c DEF ResPending, CompleteItem
<1>9. ASSUME NEW t \in Task,
             \/ PipeBoot(t) \/ PipeDone(t) \/ PipeFails(t) \/ PipeExit(t) \/ PipeDies(t)
             \/ CloseLock(t) \/ CloseVerify(t) \/ CloseMerge(t) \/ CloseMarker(t)
             \/ CloseRegister(t) \/ CloseEnd(t) \/ CloseThrows(t)
             \/ Discard(t) \/ RepairMarker(t) \/ RecoveryFails(t) \/ RecoveryFailsRuntime(t)
      PROVE  UnissuedHold'
  BY <1>9, <1>c DEF PipeBoot, PipeDone, PipeFails, PipeExit, PipeDies, CloseLock, CloseVerify,
     CloseMerge, CloseMarker, CloseRegister, CloseEnd, CloseThrows, Discard, RepairMarker,
     RecoveryFails, RecoveryFailsRuntime
<1>10. ASSUME NEW t \in Task, ClosePending(t) PROVE UnissuedHold'
  BY <1>10, <1>c DEF ClosePending, CompleteItem
<1>11. ASSUME MainStops \/ MainStarts \/ UNCHANGED vars PROVE UnissuedHold'
  BY <1>11, <1>c DEF MainStops, MainStarts, vars
<1> HIDE DEF Base, TypeOK, OnTask, UnissuedHold
<1>12. CASE Progress
  <2>1. ASSUME NEW th \in Thread, Activation(th) \/ Failure(th) \/ Resume(th)
        PROVE  UnissuedHold'
    BY <2>1, <1>1, <1>2, <1>7, <1>8, Zenon DEF Activation, Failure, Resume
  <2>2. ASSUME NEW t \in Task, Pipeline(t) \/ Discard(t) \/ RepairMarker(t) \/ RecoveryFails(t)
        PROVE  UnissuedHold'
    BY <2>2, <1>3, <1>9, <1>10, Zenon DEF Pipeline, Closeout
  <2> QED
    BY <1>12, <2>1, <2>2, <1>11, Zenon DEF Progress
<1>13. CASE Operator
  BY <1>13, <1>4, <1>5, <1>6, Zenon DEF Operator
<1>14. CASE Failing
  BY <1>14, <1>1, <1>7, <1>9, <1>11, Zenon DEF Failing
<1> QED
  BY <1>11, <1>12, <1>13, <1>14, Zenon DEF Next

\* Every step of the queue keeps SlotInv.
LEMMA SlotInvStep == ASSUME Base, SlotInv, [Next]_vars PROVE SlotInv'
<1>1. OwnTask'
  BY OwnStep DEF SlotInv, Base
<1>2. MovesKnown' /\ moved \subseteq moved'
  BY MovesStep DEF SlotInv, Base
<1>3. UnissuedHold'
  BY UnissuedStep
<1>4. ASSUME NEW t \in Task, t \notin moved' PROVE SlotHolds(t)'
  BY <1>1, <1>2, <1>4, SlotStep
<1> QED
  BY <1>1, <1>2, <1>3, <1>4 DEF SlotInv, Unmoved

\* The slots at the start.
LEMMA SlotStart == ASSUME Init PROVE SlotInv
<1> USE SlotThreads DEF Init
<1>1. MovesKnown /\ OwnTask /\ UnissuedHold
  BY DEF MovesKnown, OwnTask, UnissuedHold, BusyAt, FailingAt, At
<1>2. ASSUME NEW t \in Task PROVE SlotHolds(t)
  <2>1. PlaceHolds(t) /\ StartHolds(t)
    BY DEF PlaceHolds, StartHolds, Fresh, Over, FailingAt, ResumingAt, ClaimingAt, StartingAt, At
  <2>2. PipelineHolds(t) /\ EndHolds(t)
    BY DEF PipelineHolds, EndHolds, BusyAt, FailingAt, ResumingAt, At
  <2> QED
    BY <2>1, <2>2 DEF SlotHolds
<1> QED
  BY <1>1, <1>2 DEF SlotInv, Unmoved

\* A task the operator has not moved has one activation, but for rollbacks, and
\* whoever works on it works alone.
THEOREM SlotInvariance == Spec => []SlotInv
<1>1. Init => SlotInv
  BY SlotStart
<1>2. IInv /\ SlotInv /\ [Next]_vars => SlotInv'
  BY SlotInvStep DEF IInv, QueueInv, Base
<1> QED
  BY <1>1, <1>2, Invariance, PTL DEF Spec

\* A pipeline at work on such a task holds a slot and has its workspace.
THEOREM PipelineOwnsSlot == Spec => []RunningPipelineOwnsItsSlot
<1>1. SlotInv => RunningPipelineOwnsItsSlot
  BY DEF SlotInv, SlotHolds, PipelineHolds, RunningPipelineOwnsItsSlot, BusyAt, At
<1> QED
  BY <1>1, SlotInvariance, PTL

\* The exit handler of a pipeline that completed or failed its task does nothing.
THEOREM ExitHandlerFindsNothing == Spec => []UnmovedDisposedOnce
<1>1. IInv /\ SlotInv => UnmovedDisposedOnce
  BY DEF IInv, QueueInv, TypeOK, SlotInv, SlotHolds, Unmoved, UnmovedDisposedOnce, FailingAt
<1> QED
  BY <1>1, SlotInvariance, Invariance, PTL

\* When the operator moves nothing, that holds of every task.
THEOREM EveryDisposedOnce == ASSUME MaxMoves = 0 PROVE Spec => []DisposedOnce
<1>1. IInv /\ SlotInv => DisposedOnce
  <2>1. IInv /\ SlotInv => moved = {}
    BY DEF IInv, QueueInv, TypeOK, SlotInv, MovesKnown
  <2>2. moved = {} /\ UnmovedDisposedOnce => DisposedOnce
    BY DEF UnmovedDisposedOnce, DisposedOnce
  <2>3. IInv /\ SlotInv => UnmovedDisposedOnce
    BY DEF IInv, QueueInv, TypeOK, SlotInv, SlotHolds, Unmoved, UnmovedDisposedOnce, FailingAt
  <2> QED
    BY <2>1, <2>2, <2>3
<1> QED
  BY <1>1, SlotInvariance, Invariance, PTL

\* A slot whose task is registered as completed is freed by the next activation.
THEOREM CompletedSlots == Spec => []CompletedSlotIsResumed
<1>1. IInv /\ SlotInv => CompletedSlotIsResumed
  BY DEF IInv, QueueInv, TypeOK, SlotInv, SlotHolds, Unmoved, CompletedSlotIsResumed
<1> QED
  BY <1>1, SlotInvariance, Invariance, PTL

\* Tasks that keep marker, place and archive record keep their stage.
LEMMA LifeKept ==
  ASSUME NEW u \in Task, u \in marker <=> u \in marker', place'[u] = place[u],
         u \in archived <=> u \in archived', u \in moved <=> u \in moved'
  PROVE  OwnLife(u)' = OwnLife(u)
BY DEF OwnLife, Life

\* When one task takes a stage and the others keep theirs, that is all that happens.
LEMMA OneBecomes ==
  ASSUME NEW t \in Task, NEW stage, OwnLife(t)' = stage,
         \A u \in Task \ {t} : OwnLife(u)' = OwnLife(u)
  PROVE  Own!Become({t}, stage)
<1> HIDE DEF OwnLife
<1> QED
  BY DEF Own!Become

\* A step on the files of one task, which the operator has not moved, is a step of
\* its life when its stage changes as TaskLifecycle allows.
LEMMA OneStep ==
  ASSUME NEW t \in Task \ moved, UNCHANGED moved,
         \A u \in Task \ {t} : /\ u \in marker <=> u \in marker'
                               /\ place'[u] = place[u]
                               /\ u \in archived <=> u \in archived',
         <<Life(t), Life(t)'>> \in
           {<<"queued", "active">>, <<"active", "queued">>, <<"active", "completed">>,
            <<"active", "failed">>, <<"queued", "failed">>, <<"queued", "open">>,
            <<"open", "queued">>}
  PROVE  Own!Next
<1>1. ASSUME NEW u \in Task \ {t} PROVE OwnLife(u)' = OwnLife(u)
  BY LifeKept
<1>2. OwnLife(t) = Life(t) /\ OwnLife(t)' = Life(t)'
  BY DEF OwnLife
<1>3. Own!Become({t}, OwnLife(t)')
  BY <1>1, OneBecomes
<1> DEFINE L == [x \in Task |-> OwnLife(x)]
<1>4. L[t] = Life(t)
  BY <1>2
<1> HIDE DEF OwnLife, Life
<1>5. CASE Life(t) = "open"
  <2>1. Own!Become({} \cup {t}, "queued")
    <3>1. {} \cup {t} = {t}
      OBVIOUS
    <3> QED
      BY <1>2, <1>3, <1>5, <3>1
  <2>2. Own!Submit(t, {})
    BY <1>4, <1>5, <2>1 DEF Own!Submit
  <2> QED
    BY <2>2 DEF Own!Next
<1>6. CASE Life(t) # "open"
  <2>1. \/ Own!Activate(t) \/ Own!Rollback(t) \/ Own!Complete(t) \/ Own!Fail(t) \/ Own!Reopen(t)
    BY <1>2, <1>3, <1>4, <1>6
       DEF Own!Activate, Own!Rollback, Own!Complete, Own!Fail, Own!Reopen
  <2> QED
    BY <2>1 DEF Own!Next
<1> QED
  BY <1>5, <1>6

\* Every step of the queue is a step of the life of its tasks, or none.
LEMMA LifeStep ==
  ASSUME IInv, SlotInv, [Next]_vars
  PROVE  [Own!Next]_([t \in Task |-> OwnLife(t)])
<1> DEFINE L == [t \in Task |-> OwnLife(t)]
           One(t) == \A u \in Task \ {t} : /\ u \in marker <=> u \in marker'
                                           /\ place'[u] = place[u]
                                           /\ u \in archived <=> u \in archived'
<1> USE SlotThreads DEF IInv, QueueInv, TypeOK, OnTask, At
<1>a. /\ UnissuedHold /\ MovesKnown /\ OwnTask
      /\ \A t \in Task \ moved : PlaceHolds(t) /\ StartHolds(t) /\ PipelineHolds(t) /\ EndHolds(t)
  BY DEF SlotInv, Unmoved, SlotHolds
<1>b. ASSUME \A u \in Task : OwnLife(u)' = OwnLife(u) PROVE UNCHANGED L
  <2> HIDE DEF OwnLife
  <2> QED
    BY <1>b
<1>c. ASSUME NEW t \in moved, UNCHANGED moved, One(t) PROVE UNCHANGED L
  <2>1. \A u \in Task \ {t} : OwnLife(u)' = OwnLife(u)
    BY <1>c, LifeKept
  <2>2. OwnLife(t)' = OwnLife(t)
    BY <1>c DEF OwnLife
  <2> QED
    BY <1>b, <2>1, <2>2
<1>d. ASSUME NEW t \in Task, t \in marker, UNCHANGED <<marker, moved>>, One(t) PROVE UNCHANGED L
  BY <1>b, <1>d DEF OwnLife, Life
<1>e. ASSUME UNCHANGED <<place, marker, archived, moved>> PROVE UNCHANGED L
  BY <1>b, <1>e, LifeKept
<1>1. ASSUME NEW th \in Thread, ActDirty(th) PROVE Own!Next \/ UNCHANGED L
  <2>1. PICK t \in Task : t = arg[th]
    BY <1>1 DEF ActDirty
  <2>2. UNCHANGED <<marker, archived, moved>> /\ Move(t, "pending", "error")
    BY <1>1, <2>1 DEF ActDirty, Fault
  <2>3. One(t)
    BY <2>2 DEF Move
  <2>4. CASE t \notin moved
    <3>1. t \notin marker /\ place[t] = {"pending"}
      BY <1>1, <1>a, <2>1, <2>4 DEF ActDirty, StartHolds, ClaimingAt
    <3>2. Life(t) = "queued" /\ Life(t)' = "failed"
      BY <2>2, <3>1 DEF Life, Move
    <3> QED
      BY <2>2, <2>3, <2>4, <3>2, OneStep
  <2> QED
    BY <1>c, <2>2, <2>3, <2>4
<1>2. ASSUME NEW th \in Thread, ActConflict(th) PROVE Own!Next \/ UNCHANGED L
  <2>1. PICK t \in Task : t = arg[th]
    BY <1>2 DEF ActConflict
  <2>2. UNCHANGED <<marker, archived, moved>> /\ Move(t, "pending", "dropbox")
    BY <1>2, <2>1 DEF ActConflict, Fault
  <2>3. One(t)
    BY <2>2 DEF Move
  <2>4. CASE t \notin moved
    <3>1. t \notin marker /\ place[t] = {"pending"}
      BY <1>2, <1>a, <2>1, <2>4 DEF ActConflict, StartHolds, ClaimingAt
    <3>2. Life(t) = "queued" /\ Life(t)' = "open"
      BY <2>2, <3>1 DEF Life, Move
    <3> QED
      BY <2>2, <2>3, <2>4, <3>2, OneStep
  <2> QED
    BY <1>c, <2>2, <2>3, <2>4
<1>3. ASSUME NEW th \in Thread, ActMark(th) PROVE Own!Next \/ UNCHANGED L
  <2>1. PICK t \in Task : t = arg[th]
    BY <1>3 DEF ActMark
  <2>2. UNCHANGED <<place, archived, moved>> /\ marker' = marker \cup {t}
    BY <1>3, <2>1 DEF ActMark, boundVars
  <2>3. One(t)
    BY <2>2
  <2>4. CASE t \notin moved
    <3>1. t \notin marker /\ place[t] = {"pending"}
      BY <1>3, <1>a, <2>1, <2>4 DEF ActMark, StartHolds, ClaimingAt
    <3>2. Life(t) = "queued" /\ Life(t)' = "active"
      BY <2>2, <3>1 DEF Life
    <3> QED
      BY <2>2, <2>3, <2>4, <3>2, OneStep
  <2> QED
    BY <1>c, <2>2, <2>3, <2>4
<1>f. ASSUME NEW t \in Task, UNCHANGED <<place, archived, moved>>, marker' = marker \ {t},
             t \notin moved => \/ t \notin marker
                               \/ place[t] \in {{"pending"}, {"error"}}
                               \/ place[t] = {} /\ t \in archived
      PROVE  Own!Next \/ UNCHANGED L
  <2>1. One(t)
    BY <1>f
  <2>2. CASE t \notin marker
    BY <1>e, <1>f, <2>2
  <2>3. CASE t \notin moved /\ t \in marker
    <3>1. Life(t) = "active" /\ Life(t)' \in {"queued", "failed", "completed"}
      BY <1>f, <2>3 DEF Life
    <3> QED
      BY <1>f, <2>1, <2>3, <3>1, OneStep
  <2> QED
    BY <1>c, <1>f, <2>1, <2>2, <2>3
<1>4. ASSUME NEW th \in Thread, RollbackMarker(th) PROVE Own!Next \/ UNCHANGED L
  <2>1. PICK t \in Task : t = arg[th]
    BY <1>4 DEF RollbackMarker
  <2>2. UNCHANGED <<place, archived, moved>> /\ marker' = marker \ {t}
    BY <1>4, <2>1 DEF RollbackMarker, boundVars
  <2>3. t \notin moved => place[t] = {"pending"}
    BY <1>4, <1>a, <2>1 DEF RollbackMarker, StartHolds, StartingAt
  <2> QED
    BY <1>f, <2>2, <2>3
<1>5. ASSUME NEW t \in Task, CloseMarker(t) PROVE Own!Next \/ UNCHANGED L
  <2>1. t \notin moved => place[t] = {} /\ t \in archived
    BY <1>5, <1>a DEF CloseMarker, CloseStep, PipelineHolds, BusyAt, ArchiveFirst
  <2>2. UNCHANGED <<place, archived, moved>> /\ marker' = marker \ {t}
    BY <1>5 DEF CloseMarker, boundVars
  <2> QED
    BY <1>f, <2>1, <2>2
<1>6. ASSUME NEW th \in Thread, FailMarker(th) PROVE Own!Next \/ UNCHANGED L
  <2>1. PICK t \in Task : t = arg[th]
    BY <1>6 DEF FailMarker
  <2>2. UNCHANGED <<place, archived, moved>> /\ marker' = marker \ {t}
    BY <1>6, <2>1 DEF FailMarker, boundVars
  <2>3. t \notin moved => place[t] = {"error"}
    BY <1>6, <1>a, <2>1 DEF FailMarker, EndHolds, FailingAt
  <2> QED
    BY <1>f, <2>2, <2>3
<1>7. ASSUME NEW th \in Thread, ResMarker(th) PROVE Own!Next \/ UNCHANGED L
  <2>1. PICK t \in Task : t = arg[th]
    BY <1>7 DEF ResMarker
  <2>2. UNCHANGED <<place, archived, moved>> /\ marker' = marker \ {t}
    BY <1>7, <2>1 DEF ResMarker, boundVars
  <2>3. ASSUME t \notin moved, t \in marker
        PROVE  place[t] = {"error"} \/ (place[t] = {} /\ t \in archived)
    <3>1. "pending" \notin place[t] /\ t \in archived
      BY <1>7, <1>a, <2>1, <2>3 DEF ResMarker, EndHolds, ArchiveFirst
    <3> QED
      BY <1>a, <2>3, <3>1 DEF PlaceHolds
  <2> QED
    BY <1>f, <2>2, <2>3
<1>8. ASSUME NEW t \in Task, RepairMarker(t) PROVE Own!Next \/ UNCHANGED L
  <2>1. t \in marker /\ "pending" \notin place[t]
    BY <1>8 DEF RepairMarker, Stranded
  <2>2. ASSUME t \notin moved PROVE place[t] = {"error"} \/ (place[t] = {} /\ t \in archived)
    <3>1. place[t] = {"error"} \/ place[t] = {}
      BY <1>a, <2>1, <2>2 DEF PlaceHolds
    <3>2. t \in issued \ superseded
      BY <1>a, <2>1, <2>2 DEF UnissuedHold, MovesKnown
    <3> QED
      BY <3>1, <3>2 DEF NoTaskLost
  <2>3. UNCHANGED <<place, archived, moved>> /\ marker' = marker \ {t}
    BY <1>8 DEF RepairMarker, boundVars
  <2> QED
    BY <1>f, <2>2, <2>3
<1>9. ASSUME NEW t \in Task, Publish(t) PROVE Own!Next
  <2> DEFINE swept == {s \in Task : "dropbox" \in place[s]} \cup {t}
             S == {s \in Task \ moved : "dropbox" \in place[s]}
  <2>1. UNCHANGED <<marker, archived, moved>> /\ t \notin issued
    BY <1>9 DEF Publish, boundVars
  <2>2. place' = [u \in Task |-> IF u \in swept THEN (place[u] \ {"dropbox"}) \cup {"pending"}
                                                ELSE place[u]]
    BY <1>9 DEF Publish
  <2>3. t \notin moved /\ OwnLife(t) = "none" /\ OwnLife(t)' = "queued"
    BY <1>a, <2>1, <2>2 DEF UnissuedHold, MovesKnown, OwnLife, Life
  <2>4. \A s \in S : OwnLife(s) = "open" /\ OwnLife(s)' = "queued"
    <3>1. ASSUME NEW s \in S PROVE s \notin marker /\ place[s] = {"dropbox"}
      BY <1>a DEF PlaceHolds
    <3> QED
      BY <2>1, <2>2, <3>1 DEF OwnLife, Life
  <2>5. \A u \in Task \ (S \cup {t}) : OwnLife(u)' = OwnLife(u)
    BY <2>1, <2>2 DEF OwnLife, Life
  <2>6. Own!Submit(t, S)
    <3> HIDE DEF OwnLife, S, swept
    <3>1. S \subseteq Task
      BY DEF S
    <3> QED
      BY <2>3, <2>4, <2>5, <3>1 DEF Own!Submit, Own!Become
  <2>7. S \in SUBSET Task
    OBVIOUS
  <2> HIDE DEF S
  <2> QED
    BY <2>6, <2>7 DEF Own!Next
<1>10. ASSUME NEW t \in Task, MoveToPending(t) PROVE Own!Next \/ UNCHANGED L
  <2>1. /\ UNCHANGED <<marker, archived, moved>> /\ Move(t, "dropbox", "pending")
        /\ "dropbox" \in place[t]
    BY <1>10 DEF MoveToPending, boundVars
  <2>2. One(t)
    BY <2>1 DEF Move
  <2>3. CASE t \notin moved
    <3>1. t \notin marker /\ place[t] = {"dropbox"}
      BY <1>a, <2>1, <2>3 DEF PlaceHolds
    <3>2. Life(t) = "open" /\ Life(t)' = "queued"
      BY <2>1, <3>1 DEF Life, Move
    <3> QED
      BY <2>1, <2>2, <2>3, <3>2, OneStep
  <2> QED
    BY <1>c, <2>1, <2>2, <2>3
<1>11. ASSUME NEW t \in Task, ReturnToOpen(t) PROVE Own!Next \/ UNCHANGED L
  <2>1. /\ UNCHANGED <<marker, archived, moved>> /\ Move(t, "pending", "dropbox")
        /\ "pending" \in place[t] /\ t \notin marker
    BY <1>11 DEF ReturnToOpen, boundVars
  <2>2. One(t)
    BY <2>1 DEF Move
  <2>3. CASE t \notin moved
    <3>1. place[t] = {"pending"}
      BY <1>a, <2>1, <2>3 DEF PlaceHolds
    <3>2. Life(t) = "queued" /\ Life(t)' = "open"
      BY <2>1, <3>1 DEF Life, Move
    <3> QED
      BY <2>1, <2>2, <2>3, <3>2, OneStep
  <2> QED
    BY <1>c, <2>1, <2>2, <2>3
<1>12. ASSUME NEW t \in Task, "error" \in place[t]
       PROVE  OwnLife(t) \in {"active", "failed", "moved"}
  <2>1. t \notin moved => place[t] = {"error"}
    BY <1>12, <1>a DEF PlaceHolds
  <2> QED
    BY <2>1 DEF OwnLife, Life
<1>13. ASSUME NEW t \in Task, MoveToOpen(t) PROVE Own!Next \/ UNCHANGED L
  <2>1. /\ UNCHANGED <<marker, archived>> /\ Move(t, "error", "dropbox") /\ "error" \in place[t]
        /\ moved' = moved \cup {t}
    BY <1>13 DEF MoveToOpen, ByOperator
  <2>2. One(t)
    BY <2>1 DEF Move
  <2>3. CASE t \notin moved
    <3>1. OwnLife(t) \in {"active", "failed"} /\ OwnLife(t)' = "moved"
      BY <1>12, <2>1, <2>3 DEF OwnLife, Life
    <3>2. \A u \in Task \ {t} : OwnLife(u)' = OwnLife(u)
      BY <2>1, <2>2, LifeKept
    <3>3. Own!Become({t}, "moved") /\ L[t] = OwnLife(t)
      BY <3>1, <3>2, OneBecomes
    <3> HIDE DEF OwnLife
    <3> QED
      BY <3>1, <3>3 DEF Own!TakeOver, Own!Next
  <2>4. CASE t \in moved
    <3>1. moved' = moved
      BY <2>1, <2>4
    <3> QED
      BY <1>c, <2>2, <2>4, <3>1
  <2> QED
    BY <2>3, <2>4
<1>14. ASSUME NEW t \in Task, NEW v \in Task, Requeue(t, v) PROVE Own!Next
  <2>1. /\ UNCHANGED <<marker, archived>> /\ RetryIntake(t, v) = place' /\ "error" \in place[t]
        /\ moved' = moved \cup {t} /\ v \notin issued
    BY <1>14 DEF Requeue, ByOperator
  <2>2. t # v /\ v \notin moved /\ v \notin marker /\ place[v] = {} /\ v \notin archived
    BY <1>a, <2>1 DEF UnissuedHold, MovesKnown
  <2>3. OwnLife(t) \in {"active", "failed", "moved"} /\ OwnLife(t)' = "moved"
    BY <1>12, <2>1 DEF OwnLife
  <2>4. OwnLife(v) = "none" /\ OwnLife(v)' = "queued"
    <3>1. place'[v] = {"pending"}
      BY <2>1, <2>2 DEF RetryIntake
    <3> QED
      BY <2>1, <2>2, <3>1 DEF OwnLife, Life
  <2>5. \A u \in Task \ {t, v} : OwnLife(u)' = OwnLife(u)
    BY <2>1, LifeKept DEF RetryIntake
  <2>6. Own!TakeOverAs(t, v)
    <3> HIDE DEF OwnLife
    <3>1. \A u \in Task : L'[u] = [L EXCEPT ![t] = "moved", ![v] = "queued"][u]
      BY <2>2, <2>3, <2>4, <2>5
    <3>2. L' = [L EXCEPT ![t] = "moved", ![v] = "queued"]
      BY <3>1
    <3> QED
      BY <2>3, <2>4, <3>2 DEF Own!TakeOverAs
  <2> QED
    BY <2>6 DEF Own!Next
<1>15. ASSUME NEW t \in Task, CloseArchive(t) PROVE UNCHANGED L
  <2>1. One(t) /\ UNCHANGED <<marker, moved>>
    BY <1>15 DEF CloseArchive, boundVars
  <2>2. t \notin moved => t \in marker
    BY <1>15, <1>a DEF CloseArchive, CloseStep, PipelineHolds, BusyAt
  <2> QED
    BY <1>c, <1>d, <2>1, <2>2
<1>16. ASSUME NEW t \in Task, ClosePending(t) PROVE UNCHANGED L
  <2>1. One(t) /\ UNCHANGED <<marker, moved>>
    BY <1>16 DEF ClosePending, CompleteItem, boundVars
  <2>2. t \notin moved => t \in marker
    BY <1>16, <1>a DEF ClosePending, CloseStep, PipelineHolds, BusyAt
  <2> QED
    BY <1>c, <1>d, <2>1, <2>2
<1>17. ASSUME NEW th \in Thread, FailRename(th) PROVE UNCHANGED L
  <2>1. PICK t \in Task : t = arg[th]
    BY <1>17 DEF FailRename
  <2>2. One(t) /\ UNCHANGED <<marker, moved>>
    BY <1>17, <2>1 DEF FailRename, FailIntake, Move, boundVars
  <2>3. t \notin moved => t \in marker
    BY <1>17, <1>a, <2>1 DEF FailRename, EndHolds, FailingAt
  <2> QED
    BY <1>c, <1>d, <2>2, <2>3
<1>18. ASSUME NEW th \in Thread, ResPending(th) PROVE UNCHANGED L
  <2>1. PICK t \in Task : t = arg[th]
    BY <1>18 DEF ResPending
  <2>2. One(t) /\ UNCHANGED <<marker, archived, moved>> /\ (t \notin marker => place' = place)
    BY <1>18, <2>1 DEF ResPending, CompleteItem, boundVars
  <2> QED
    BY <1>d, <1>e, <2>2
<1>19. ASSUME NEW th \in Thread,
              \/ ActScan(th) \/ ActLock(th) \/ ActPick(th) \/ ActNotReady(th) \/ ActThrow(th)
              \/ ActClaim(th) \/ ActRegister(th) \/ ActStart(th) \/ ActStartFails(th)
              \/ RollbackWorkspace(th) \/ FailLock(th) \/ FailRegister(th) \/ ResLock(th)
              \/ ResRegister(th) \/ ResEnd(th)
       PROVE  UNCHANGED L
  BY <1>e, <1>19 DEF fileVars, boundVars, Fault, ActScan, ActLock, ActPick, ActNotReady, ActThrow,
     ActClaim, ActRegister, ActStart, ActStartFails, RollbackWorkspace, FailLock, FailRegister,
     ResLock, ResRegister, ResEnd
<1>20. ASSUME NEW t \in Task,
              \/ PipeBoot(t) \/ PipeDone(t) \/ PipeFails(t) \/ PipeExit(t) \/ PipeDies(t)
              \/ CloseLock(t) \/ CloseVerify(t) \/ CloseMerge(t) \/ CloseRegister(t)
              \/ CloseEnd(t) \/ CloseThrows(t) \/ Discard(t) \/ RecoveryFails(t)
              \/ RecoveryFailsRuntime(t)
       PROVE  UNCHANGED L
  BY <1>e, <1>20 DEF fileVars, boundVars, Fault, PipeBoot, PipeDone, PipeFails, PipeExit, PipeDies,
     CloseLock, CloseVerify, CloseMerge, CloseRegister, CloseEnd, CloseThrows, Discard,
     RecoveryFails, RecoveryFailsRuntime
<1>21. ASSUME MainStops \/ MainStarts \/ UNCHANGED vars PROVE UNCHANGED L
  BY <1>e, <1>21 DEF fileVars, boundVars, Fault, MainStops, MainStarts, vars
<1>22. Own!Next \/ UNCHANGED L
  <2> HIDE DEF L, IInv, QueueInv, TypeOK, OnTask, At
  <2>1. CASE Progress
    <3>1. ASSUME NEW th \in Thread, Activation(th) \/ Failure(th) \/ Resume(th)
          PROVE  Own!Next \/ UNCHANGED L
      BY <3>1, <1>3, <1>4, <1>6, <1>7, <1>17, <1>18, <1>19, Zenon DEF Activation, Failure, Resume
    <3>2. ASSUME NEW t \in Task,
                 Pipeline(t) \/ Discard(t) \/ RepairMarker(t) \/ RecoveryFails(t)
          PROVE  Own!Next \/ UNCHANGED L
      BY <3>2, <1>5, <1>8, <1>15, <1>16, <1>20, Zenon DEF Pipeline, Closeout
    <3> QED
      BY <2>1, <3>1, <3>2, <1>21, Zenon DEF Progress
  <2>2. CASE Operator
    BY <2>2, <1>9, <1>10, <1>11, <1>13, <1>14, Zenon DEF Operator
  <2>3. CASE Failing
    BY <2>3, <1>1, <1>2, <1>19, <1>20, <1>21, Zenon DEF Failing
  <2> QED
    BY <2>1, <2>2, <2>3, <1>21, Zenon DEF Next
<1> QED
  BY <1>22

\* The queue takes its tasks through the stages of TaskLifecycle, and through no
\* others, whatever fails or crashes, until the operator moves them.
THEOREM QueueImplementsOwnLifecycle == Spec => UnmovedFollowLifecycle
<1>1. Init => Own!Init
  BY DEF Init, Own!Init, OwnLife, Life
<1>2. IInv /\ SlotInv /\ [Next]_vars => [Own!Next]_([t \in Task |-> OwnLife(t)])
  BY LifeStep
<1> QED
  BY <1>1, <1>2, Invariance, SlotInvariance, PTL DEF Spec, UnmovedFollowLifecycle, Own!Spec

\* When the operator moves none, they go through them to the end.
THEOREM QueueImplementsLifecycle == ASSUME MaxMoves = 0 PROVE Spec => FollowsLifecycle
<1> DEFINE L == [t \in Task |-> Life(t)]
           O == [t \in Task |-> OwnLife(t)]
<1>1. Init => Stages!Init
  BY DEF Init, Stages!Init, Life
<1>2. IInv /\ SlotInv => O = L
  BY DEF IInv, QueueInv, TypeOK, SlotInv, MovesKnown, OwnLife
<1>3. IInv' /\ SlotInv' => O' = L'
  BY DEF IInv, QueueInv, TypeOK, SlotInv, MovesKnown, OwnLife
<1>4. ASSUME O = L, O' = L', Own!Next PROVE Stages!Next
  BY <1>4 DEF Own!Next, Own!Submit, Own!Become, Own!Activate, Own!Rollback, Own!Complete,
     Own!Fail, Own!Reopen, Own!Retry, Own!TakeOver, Own!TakeOverAs, Stages!Next,
       Stages!Submit, Stages!Become, Stages!Activate, Stages!Rollback, Stages!Complete,
       Stages!Fail, Stages!Reopen, Stages!Retry, Stages!TakeOver, Stages!TakeOverAs, O, L
<1>5. ASSUME IInv, SlotInv, IInv', SlotInv', [Next]_vars PROVE [Stages!Next]_L
  <2>1. O = L /\ O' = L'
    BY <1>2, <1>3, <1>5
  <2>2. Own!Next \/ UNCHANGED O
    BY <1>5, LifeStep
  <2> HIDE DEF O, L
  <2> QED
    BY <1>4, <2>1, <2>2
<1> QED
  BY <1>1, <1>5, Invariance, SlotInvariance, PTL DEF Spec, FollowsLifecycle, Stages!Spec
============================================================================
