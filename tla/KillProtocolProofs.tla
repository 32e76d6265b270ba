------------------------- MODULE KillProtocolProofs -------------------------
(***************************************************************************)
(* Proofs about KillProtocol, for every set of faults and every bound on   *)
(* faults and moves.  One lemma for each action says that it keeps the     *)
(* invariant; the Boolean flags have a step of their own.                  *)
(***************************************************************************)
EXTENDS KillProtocol, TLAPS

USE KillAssumption
USE DEF fileVars, lockVars, childVars, threadVars, boundVars, LockedStage, OpenStage,
        Working, Settled

-----------------------------------------------------------------------------
\* A pending task that nobody has begun with satisfies every part of the invariant.
LEMMA InitHolds == ASSUME Init PROVE KillInv
<1>1. FlagsOK BY DEF Init, FlagsOK
<1> QED
  BY <1>1 DEF Init, KillInv, TypeOK, StoppedBeforeCleanup, NoLockInversion,
     NoPipelineForFailedTask, ActivationOwnsTask, ProcessSettles, EntryHasAnOwner,
     CleanupAnswers

-----------------------------------------------------------------------------
\* The activation: its claim lasts from the intake to the fork.

\* The claim is made under the queue lock, on a task without marker.
LEMMA ClaimTaskHolds == ASSUME KillInv, NEW h \in {"main", "peer"}, ClaimTask(h) PROVE KillInv'
<1>1. FlagsOK' BY Zenon DEF KillInv, TypeOK, FlagsOK, ClaimTask
<1> QED
  BY <1>1, SMTT(20) DEF KillInv, TypeOK, StoppedBeforeCleanup, NoLockInversion,
     NoPipelineForFailedTask, ActivationOwnsTask, ProcessSettles, EntryHasAnOwner,
     CleanupAnswers, ClaimTask

\* A request that is already there ends the activation before it begins.
LEMMA ClaimKilledHolds == ASSUME KillInv, NEW h \in {"main", "peer"}, ClaimKilled(h) PROVE KillInv'
<1>1. FlagsOK' BY Zenon DEF KillInv, TypeOK, FlagsOK, ClaimKilled, DiscardActivation
<1> QED
  BY <1>1, SMTT(20) DEF KillInv, TypeOK, StoppedBeforeCleanup, NoLockInversion,
     NoPipelineForFailedTask, ActivationOwnsTask, ProcessSettles, EntryHasAnOwner,
     CleanupAnswers, ClaimKilled, DiscardActivation

\* A stage under the lock leaves the claim as it is.
LEMMA ActivationStepHolds == ASSUME KillInv, ActivationStep PROVE KillInv'
<1>1. FlagsOK' BY Zenon DEF KillInv, TypeOK, FlagsOK, ActivationStep, NextStage
<1> QED
  BY <1>1, SMTT(20) DEF KillInv, TypeOK, StoppedBeforeCleanup, NoLockInversion,
     NoPipelineForFailedTask, ActivationOwnsTask, ProcessSettles, EntryHasAnOwner,
     CleanupAnswers, ActivationStep, NextStage

\* The marker is written before the lock is given back.
LEMMA WriteMarkerHolds == ASSUME KillInv, WriteMarker PROVE KillInv'
<1>1. FlagsOK' BY Zenon DEF KillInv, TypeOK, FlagsOK, WriteMarker
<1> QED
  BY <1>1, SMTT(20) DEF KillInv, TypeOK, StoppedBeforeCleanup, NoLockInversion,
     NoPipelineForFailedTask, ActivationOwnsTask, ProcessSettles, EntryHasAnOwner,
     CleanupAnswers, WriteMarker

\* A checkpoint under the lock takes intake, progress and request back.
LEMMA CheckpointHolds == ASSUME KillInv, Checkpoint PROVE KillInv'
<1>1. FlagsOK' BY Zenon DEF KillInv, TypeOK, FlagsOK, Checkpoint, DiscardActivation
<1> QED
  BY <1>1, SMTT(20) DEF KillInv, TypeOK, StoppedBeforeCleanup, NoLockInversion,
     NoPipelineForFailedTask, ActivationOwnsTask, ProcessSettles, EntryHasAnOwner,
     CleanupAnswers, Checkpoint, DiscardActivation

\* A checkpoint that fails keeps the lock until it has said so.
LEMMA CheckpointFailsHolds == ASSUME KillInv, CheckpointFails PROVE KillInv'
<1>1. FlagsOK' BY Zenon DEF KillInv, TypeOK, FlagsOK, CheckpointFails, Fault
<1> QED
  BY <1>1, SMTT(20) DEF KillInv, TypeOK, StoppedBeforeCleanup, NoLockInversion,
     NoPipelineForFailedTask, ActivationOwnsTask, ProcessSettles, EntryHasAnOwner,
     CleanupAnswers, CheckpointFails, Fault

\* The failure is noted when nobody else has the kill lock.
LEMMA NoteFailureHolds == ASSUME KillInv, NoteFailure PROVE KillInv'
<1>1. FlagsOK' BY Zenon DEF KillInv, TypeOK, FlagsOK, NoteFailure, Note
<1> QED
  BY <1>1, SMTT(20) DEF KillInv, TypeOK, StoppedBeforeCleanup, NoLockInversion,
     NoPipelineForFailedTask, ActivationOwnsTask, ProcessSettles, EntryHasAnOwner,
     CleanupAnswers, NoteFailure, Note

\* An exception under the lock leaves an unmarked task.
LEMMA ActivationThrowsHolds == ASSUME KillInv, ActivationThrows PROVE KillInv'
<1>1. FlagsOK' BY Zenon DEF KillInv, TypeOK, FlagsOK, ActivationThrows, Fault
<1> QED
  BY <1>1, SMTT(20) DEF KillInv, TypeOK, StoppedBeforeCleanup, NoLockInversion,
     NoPipelineForFailedTask, ActivationOwnsTask, ProcessSettles, EntryHasAnOwner,
     CleanupAnswers, ActivationThrows, Fault

\* A look for a request changes nothing.
LEMMA BootstrapHolds == ASSUME KillInv, Bootstrap PROVE KillInv'
<1>1. FlagsOK' BY Zenon DEF KillInv, TypeOK, FlagsOK, Bootstrap
<1> QED
  BY <1>1, SMTT(20) DEF KillInv, TypeOK, StoppedBeforeCleanup, NoLockInversion,
     NoPipelineForFailedTask, ActivationOwnsTask, ProcessSettles, EntryHasAnOwner,
     CleanupAnswers, Bootstrap

\* The last look for a request leaves the marker as it is.
LEMMA LaunchHolds == ASSUME KillInv, Launch PROVE KillInv'
<1>1. FlagsOK' BY Zenon DEF KillInv, TypeOK, FlagsOK, Launch
<1> QED
  BY <1>1, SMTT(20) DEF KillInv, TypeOK, StoppedBeforeCleanup, NoLockInversion,
     NoPipelineForFailedTask, ActivationOwnsTask, ProcessSettles, EntryHasAnOwner,
     CleanupAnswers, Launch

\* A checkpoint after the marker moves the task and ends the activation.
LEMMA PrePipelineKillHolds == ASSUME KillInv, PrePipelineKill PROVE KillInv'
<1>1. FlagsOK' BY Zenon DEF KillInv, TypeOK, FlagsOK, PrePipelineKill, MoveFailed
<1> QED
  BY <1>1, SMTT(20) DEF KillInv, TypeOK, StoppedBeforeCleanup, NoLockInversion,
     NoPipelineForFailedTask, ActivationOwnsTask, ProcessSettles, EntryHasAnOwner,
     CleanupAnswers, PrePipelineKill, MoveFailed

\* Or leaves it with a failed request.
LEMMA PrePipelineKillFailsHolds == ASSUME KillInv, PrePipelineKillFails PROVE KillInv'
<1>1. FlagsOK' BY Zenon DEF KillInv, TypeOK, FlagsOK, PrePipelineKillFails, Fault, Note
<1> QED
  BY <1>1, SMTT(20) DEF KillInv, TypeOK, StoppedBeforeCleanup, NoLockInversion,
     NoPipelineForFailedTask, ActivationOwnsTask, ProcessSettles, EntryHasAnOwner,
     CleanupAnswers, PrePipelineKillFails, Fault, Note

\* A failed bootstrap keeps the claim for its rollback.
LEMMA BootstrapFailsHolds == ASSUME KillInv, BootstrapFails PROVE KillInv'
<1>1. FlagsOK' BY Zenon DEF KillInv, TypeOK, FlagsOK, BootstrapFails, Fault
<1> QED
  BY <1>1, SMTT(20) DEF KillInv, TypeOK, StoppedBeforeCleanup, NoLockInversion,
     NoPipelineForFailedTask, ActivationOwnsTask, ProcessSettles, EntryHasAnOwner,
     CleanupAnswers, BootstrapFails, Fault

\* The rollback gives the marker back.
LEMMA RollbackHolds == ASSUME KillInv, Rollback PROVE KillInv'
<1>1. FlagsOK' BY Zenon DEF KillInv, TypeOK, FlagsOK, Rollback
<1> QED
  BY <1>1, SMTT(20) DEF KillInv, TypeOK, StoppedBeforeCleanup, NoLockInversion,
     NoPipelineForFailedTask, ActivationOwnsTask, ProcessSettles, EntryHasAnOwner,
     CleanupAnswers, Rollback

\* The fork begins with the marker in place.
LEMMA StartPipelineHolds == ASSUME KillInv, StartPipeline PROVE KillInv'
<1>1. FlagsOK' BY Zenon DEF KillInv, TypeOK, FlagsOK, StartPipeline
<1> QED
  BY <1>1, SMTT(20) DEF KillInv, TypeOK, StoppedBeforeCleanup, NoLockInversion,
     NoPipelineForFailedTask, ActivationOwnsTask, ProcessSettles, EntryHasAnOwner,
     CleanupAnswers, StartPipeline

\* The pipeline has an entry with an owner from its first step.
LEMMA ForkedHolds == ASSUME KillInv, Forked PROVE KillInv'
<1>1. FlagsOK' BY Zenon DEF KillInv, TypeOK, FlagsOK, Forked, CleanupGoes
<1>2. CASE cleanup = "await"
  <2>1. signals' = {"term"} /\ cleanup' = "term" BY <1>2, Zenon DEF Forked, CleanupGoes
  <2>2. TypeOK' BY <1>1, <1>2, <2>1, SMTT(20) DEF KillInv, TypeOK, Forked, CleanupGoes
  <2> QED
    BY <1>2, <2>2, SMTT(20) DEF KillInv, TypeOK, StoppedBeforeCleanup,
       NoLockInversion, NoPipelineForFailedTask, ActivationOwnsTask, ProcessSettles,
       EntryHasAnOwner, CleanupAnswers, Forked, CleanupGoes
<1>3. CASE cleanup # "await"
  <2>1. UNCHANGED <<signals, handler, cleanup, cancel>> BY <1>3, Zenon DEF Forked
  <2>2. entry' = IF host = "main" THEN "handler" ELSE "none" BY <1>3, Zenon DEF Forked
  <2>3. TypeOK' BY <1>1, <1>3, <2>1, <2>2, SMTT(20) DEF KillInv, TypeOK, Forked,
     CleanupGoes
  <2> QED
    BY <1>3, <2>1, <2>2, <2>3, SMTT(20) DEF KillInv, TypeOK, StoppedBeforeCleanup,
       NoLockInversion, NoPipelineForFailedTask, ActivationOwnsTask, ProcessSettles,
       EntryHasAnOwner, CleanupAnswers, Forked, CleanupGoes
<1> QED BY <1>2, <1>3

\* Nothing was forked; a clean-up that waits for it looks again.
LEMMA ForkFailsHolds == ASSUME KillInv, ForkFails PROVE KillInv'
<1>1. FlagsOK' BY Zenon DEF KillInv, TypeOK, FlagsOK, ForkFails, Fault, CleanupGoes
<1> QED
  BY <1>1, SMTT(20) DEF KillInv, TypeOK, StoppedBeforeCleanup, NoLockInversion,
     NoPipelineForFailedTask, ActivationOwnsTask, ProcessSettles, EntryHasAnOwner,
     CleanupAnswers, ForkFails, Fault, CleanupGoes

\* The progress goes when somebody else answers for the task.
LEMMA ClearProgressHolds == ASSUME KillInv, ClearProgress PROVE KillInv'
<1>1. FlagsOK' BY Zenon DEF KillInv, TypeOK, FlagsOK, ClearProgress
<1> QED
  BY <1>1, SMTT(20) DEF KillInv, TypeOK, StoppedBeforeCleanup, NoLockInversion,
     NoPipelineForFailedTask, ActivationOwnsTask, ProcessSettles, EntryHasAnOwner,
     CleanupAnswers, ClearProgress

-----------------------------------------------------------------------------
\* The pipeline: it has its marker or has disposed of its task.

\* The closeout takes a free queue lock.
LEMMA BeginCloseoutHolds == ASSUME KillInv, BeginCloseout PROVE KillInv'
<1>1. FlagsOK' BY Zenon DEF KillInv, TypeOK, FlagsOK, BeginCloseout
<1> QED
  BY <1>1, SMTT(20) DEF KillInv, TypeOK, StoppedBeforeCleanup, NoLockInversion,
     NoPipelineForFailedTask, ActivationOwnsTask, ProcessSettles, EntryHasAnOwner,
     CleanupAnswers, BeginCloseout

\* Filing the record changes no claim.
LEMMA FileArchiveHolds == ASSUME KillInv, FileArchive PROVE KillInv'
<1>1. FlagsOK' BY Zenon DEF KillInv, TypeOK, FlagsOK, FileArchive
<1> QED
  BY <1>1, SMTT(20) DEF KillInv, TypeOK, StoppedBeforeCleanup, NoLockInversion,
     NoPipelineForFailedTask, ActivationOwnsTask, ProcessSettles, EntryHasAnOwner,
     CleanupAnswers, FileArchive

\* A completed task has no marker.
LEMMA CompleteTaskHolds == ASSUME KillInv, CompleteTask PROVE KillInv'
<1>1. FlagsOK' BY Zenon DEF KillInv, TypeOK, FlagsOK, CompleteTask
<1> QED
  BY <1>1, SMTT(20) DEF KillInv, TypeOK, StoppedBeforeCleanup, NoLockInversion,
     NoPipelineForFailedTask, ActivationOwnsTask, ProcessSettles, EntryHasAnOwner,
     CleanupAnswers, CompleteTask

\* An agent that fails leaves the task to its pipeline.
LEMMA AgentFailsHolds == ASSUME KillInv, AgentFails PROVE KillInv'
<1>1. FlagsOK' BY Zenon DEF KillInv, TypeOK, FlagsOK, AgentFails, Fault
<1> QED
  BY <1>1, SMTT(20) DEF KillInv, TypeOK, StoppedBeforeCleanup, NoLockInversion,
     NoPipelineForFailedTask, ActivationOwnsTask, ProcessSettles, EntryHasAnOwner,
     CleanupAnswers, AgentFails, Fault

\* So does one that was stopped.
LEMMA AgentStoppedHolds == ASSUME KillInv, AgentStopped PROVE KillInv'
<1>1. FlagsOK' BY Zenon DEF KillInv, TypeOK, FlagsOK, AgentStopped
<1> QED
  BY <1>1, SMTT(20) DEF KillInv, TypeOK, StoppedBeforeCleanup, NoLockInversion,
     NoPipelineForFailedTask, ActivationOwnsTask, ProcessSettles, EntryHasAnOwner,
     CleanupAnswers, AgentStopped

\* A failed task has no marker.
LEMMA FailTaskHolds == ASSUME KillInv, FailTask PROVE KillInv'
<1>1. FlagsOK' BY Zenon DEF KillInv, TypeOK, FlagsOK, FailTask, MoveFailed
<1> QED
  BY <1>1, SMTT(20) DEF KillInv, TypeOK, StoppedBeforeCleanup, NoLockInversion,
     NoPipelineForFailedTask, ActivationOwnsTask, ProcessSettles, EntryHasAnOwner,
     CleanupAnswers, FailTask, MoveFailed

\* The pipeline leaves after it has disposed of its task.
LEMMA ClearSwitchHolds == ASSUME KillInv, ClearSwitch PROVE KillInv'
<1>1. FlagsOK' BY Zenon DEF KillInv, TypeOK, FlagsOK, ClearSwitch
<1> QED
  BY <1>1, SMTT(20) DEF KillInv, TypeOK, StoppedBeforeCleanup, NoLockInversion,
     NoPipelineForFailedTask, ActivationOwnsTask, ProcessSettles, EntryHasAnOwner,
     CleanupAnswers, ClearSwitch

\* A pipeline that was ended by a signal has an exit code that says so.
LEMMA DiesHolds == ASSUME KillInv, Dies PROVE KillInv'
<1>1. FlagsOK' BY Zenon DEF KillInv, TypeOK, FlagsOK, Dies
<1> QED
  BY <1>1, SMTT(20) DEF KillInv, TypeOK, StoppedBeforeCleanup, NoLockInversion,
     NoPipelineForFailedTask, ActivationOwnsTask, ProcessSettles, EntryHasAnOwner,
     CleanupAnswers, Dies

\* Whoever owns the entry answers for the task from now on.
LEMMA ChildExitsHolds == ASSUME KillInv, ChildExits PROVE KillInv'
<1>1. FlagsOK' BY Zenon DEF KillInv, TypeOK, FlagsOK, ChildExits, HandlerOwns
<1> QED
  BY <1>1, SMTT(20) DEF KillInv, TypeOK, StoppedBeforeCleanup, NoLockInversion,
     NoPipelineForFailedTask, ActivationOwnsTask, ProcessSettles, EntryHasAnOwner,
     CleanupAnswers, ChildExits, HandlerOwns

\* The exit handler moves a task that is still there.
LEMMA HandlerMovesHolds == ASSUME KillInv, HandlerMoves PROVE KillInv'
<1>1. FlagsOK' BY Zenon DEF KillInv, TypeOK, FlagsOK, HandlerMoves, MoveFailed
<1> QED
  BY <1>1, SMTT(20) DEF KillInv, TypeOK, StoppedBeforeCleanup, NoLockInversion,
     NoPipelineForFailedTask, ActivationOwnsTask, ProcessSettles, EntryHasAnOwner,
     CleanupAnswers, HandlerMoves, MoveFailed

-----------------------------------------------------------------------------
\* The clean-up of a request.

\* The clean-up takes over the entry, waits for the fork, or looks.
LEMMA BeginCleanupHolds == ASSUME KillInv, BeginCleanup PROVE KillInv'
<1>1. FlagsOK' BY Zenon DEF KillInv, TypeOK, FlagsOK, BeginCleanup, CleanupGoes
<1>2. signals' \subseteq {"term", "kill"}
  <2>1. signals \subseteq {"term", "kill"} BY DEF KillInv, TypeOK
  <2>2. signals' = signals \/ signals' = signals \cup {"term"} BY Zenon DEF BeginCleanup
  <2> QED BY <2>1, <2>2
<1>3. TypeOK' BY <1>1, <1>2, SMTT(20) DEF KillInv, TypeOK, StoppedBeforeCleanup,
   NoLockInversion, NoPipelineForFailedTask, ActivationOwnsTask, ProcessSettles,
   EntryHasAnOwner, CleanupAnswers, BeginCleanup, CleanupGoes
<1> QED
  BY <1>3, SMTT(20) DEF KillInv, TypeOK, StoppedBeforeCleanup, NoLockInversion,
     NoPipelineForFailedTask, ActivationOwnsTask, ProcessSettles, EntryHasAnOwner,
     CleanupAnswers, BeginCleanup, CleanupGoes

\* SIGKILL follows SIGTERM.
LEMMA GraceEndsHolds == ASSUME KillInv, GraceEnds PROVE KillInv'
<1>1. FlagsOK' BY Zenon DEF KillInv, TypeOK, FlagsOK, GraceEnds, CleanupGoes
<1> QED
  BY <1>1, SMTT(20) DEF KillInv, TypeOK, StoppedBeforeCleanup, NoLockInversion,
     NoPipelineForFailedTask, ActivationOwnsTask, ProcessSettles, EntryHasAnOwner,
     CleanupAnswers, GraceEnds, CleanupGoes

\* A stop that cannot be proved is noted in the request.
LEMMA UnprovenHolds == ASSUME KillInv, Unproven PROVE KillInv'
<1>1. FlagsOK' BY Zenon DEF KillInv, TypeOK, FlagsOK, Unproven, Fault, Note,
   CleanupEnds, CleanupGoes
<1> QED
  BY <1>1, SMTT(20) DEF KillInv, TypeOK, StoppedBeforeCleanup, NoLockInversion,
     NoPipelineForFailedTask, ActivationOwnsTask, ProcessSettles, EntryHasAnOwner,
     CleanupAnswers, Unproven, Fault, Note, CleanupEnds, CleanupGoes

\* An activation is left to its checkpoints.
LEMMA LookHolds == ASSUME KillInv, Look PROVE KillInv'
<1>1. FlagsOK' BY Zenon DEF KillInv, TypeOK, FlagsOK, Look, CleanupGoes, CleanupEnds
<1> QED
  BY <1>1, SMTT(20) DEF KillInv, TypeOK, StoppedBeforeCleanup, NoLockInversion,
     NoPipelineForFailedTask, ActivationOwnsTask, ProcessSettles, EntryHasAnOwner,
     CleanupAnswers, Look, CleanupGoes, CleanupEnds

\* A task of a peer has no activation any more.
LEMMA PollEndsHolds == ASSUME KillInv, PollEnds PROVE KillInv'
<1>1. FlagsOK' BY Zenon DEF KillInv, TypeOK, FlagsOK, PollEnds, CleanupGoes
<1> QED
  BY <1>1, SMTT(20) DEF KillInv, TypeOK, StoppedBeforeCleanup, NoLockInversion,
     NoPipelineForFailedTask, ActivationOwnsTask, ProcessSettles, EntryHasAnOwner,
     CleanupAnswers, PollEnds, CleanupGoes

\* The clean-up moves a task that is still there.
LEMMA CleanupMovesHolds == ASSUME KillInv, CleanupMoves PROVE KillInv'
<1>1. FlagsOK' BY Zenon DEF KillInv, TypeOK, FlagsOK, CleanupMoves, CleanupGoes,
   MoveFailed, Note
<1> QED
  BY <1>1, SMTT(20) DEF KillInv, TypeOK, StoppedBeforeCleanup, NoLockInversion,
     NoPipelineForFailedTask, ActivationOwnsTask, ProcessSettles, EntryHasAnOwner,
     CleanupAnswers, CleanupMoves, CleanupGoes, MoveFailed, Note

\* A move that fails is noted in the request.
LEMMA CleanupMoveFailsHolds == ASSUME KillInv, CleanupMoveFails PROVE KillInv'
<1>1. FlagsOK' BY Zenon DEF KillInv, TypeOK, FlagsOK, CleanupMoveFails, Fault, Note,
   CleanupEnds, CleanupGoes
<1> QED
  BY <1>1, SMTT(20) DEF KillInv, TypeOK, StoppedBeforeCleanup, NoLockInversion,
     NoPipelineForFailedTask, ActivationOwnsTask, ProcessSettles, EntryHasAnOwner,
     CleanupAnswers, CleanupMoveFails, Fault, Note, CleanupEnds, CleanupGoes

\* The request goes after the marker.
LEMMA ClearRequestHolds == ASSUME KillInv, ClearRequest PROVE KillInv'
<1>1. FlagsOK' BY Zenon DEF KillInv, TypeOK, FlagsOK, ClearRequest, CleanupEnds,
   CleanupGoes
<1> QED
  BY <1>1, SMTT(20) DEF KillInv, TypeOK, StoppedBeforeCleanup, NoLockInversion,
     NoPipelineForFailedTask, ActivationOwnsTask, ProcessSettles, EntryHasAnOwner,
     CleanupAnswers, ClearRequest, CleanupEnds, CleanupGoes

-----------------------------------------------------------------------------
\* The operator, and the end of the main process.

\* Nobody holds the kill lock when a request is written.
LEMMA RequestKillHolds == ASSUME KillInv, RequestKill PROVE KillInv'
<1>1. FlagsOK' BY Zenon DEF KillInv, TypeOK, FlagsOK, RequestKill, CleanupGoes
<1> QED
  BY <1>1, SMTT(20) DEF KillInv, TypeOK, StoppedBeforeCleanup, NoLockInversion,
     NoPipelineForFailedTask, ActivationOwnsTask, ProcessSettles, EntryHasAnOwner,
     CleanupAnswers, RequestKill, CleanupGoes

\* A failed request is tried again from the beginning.
LEMMA RetryKillCleanupHolds == ASSUME KillInv, RetryKillCleanup PROVE KillInv'
<1>1. FlagsOK' BY Zenon DEF KillInv, TypeOK, FlagsOK, RetryKillCleanup, CleanupGoes
<1> QED
  BY <1>1, SMTT(20) DEF KillInv, TypeOK, StoppedBeforeCleanup, NoLockInversion,
     NoPipelineForFailedTask, ActivationOwnsTask, ProcessSettles, EntryHasAnOwner,
     CleanupAnswers, RetryKillCleanup, CleanupGoes

\* Cancelling sends a signal only.
LEMMA CancelTaskHolds == ASSUME KillInv, CancelTask PROVE KillInv'
<1>1. FlagsOK' BY Zenon DEF KillInv, TypeOK, FlagsOK, CancelTask
<1> QED
  BY <1>1, SMTT(20) DEF KillInv, TypeOK, StoppedBeforeCleanup, NoLockInversion,
     NoPipelineForFailedTask, ActivationOwnsTask, ProcessSettles, EntryHasAnOwner,
     CleanupAnswers, CancelTask

\* So does the end of its grace.
LEMMA CancelGraceEndsHolds == ASSUME KillInv, CancelGraceEnds PROVE KillInv'
<1>1. FlagsOK' BY Zenon DEF KillInv, TypeOK, FlagsOK, CancelGraceEnds
<1> QED
  BY <1>1, SMTT(20) DEF KillInv, TypeOK, StoppedBeforeCleanup, NoLockInversion,
     NoPipelineForFailedTask, ActivationOwnsTask, ProcessSettles, EntryHasAnOwner,
     CleanupAnswers, CancelGraceEnds

\* A task without marker and progress has no activation.
LEMMA ReturnToOpenHolds == ASSUME KillInv, ReturnToOpen PROVE KillInv'
<1>1. FlagsOK' BY Zenon DEF KillInv, TypeOK, FlagsOK, ReturnToOpen, Moved
<1> QED
  BY <1>1, SMTT(20) DEF KillInv, TypeOK, StoppedBeforeCleanup, NoLockInversion,
     NoPipelineForFailedTask, ActivationOwnsTask, ProcessSettles, EntryHasAnOwner,
     CleanupAnswers, ReturnToOpen, Moved

\* An error item that nobody is about to move has no process.
LEMMA MoveToOpenHolds == ASSUME KillInv, MoveToOpen PROVE KillInv'
<1>1. FlagsOK' BY Zenon DEF KillInv, TypeOK, FlagsOK, MoveToOpen, Moved
<1> QED
  BY <1>1, SMTT(20) DEF KillInv, TypeOK, StoppedBeforeCleanup, NoLockInversion,
     NoPipelineForFailedTask, ActivationOwnsTask, ProcessSettles, EntryHasAnOwner,
     CleanupAnswers, MoveToOpen, Moved

\* An open task has no process.
LEMMA PublishHolds == ASSUME KillInv, Publish PROVE KillInv'
<1>1. FlagsOK' BY Zenon DEF KillInv, TypeOK, FlagsOK, Publish
<1> QED
  BY <1>1, SMTT(20) DEF KillInv, TypeOK, StoppedBeforeCleanup, NoLockInversion,
     NoPipelineForFailedTask, ActivationOwnsTask, ProcessSettles, EntryHasAnOwner,
     CleanupAnswers, Publish

\* An activation of the main process ends with it.
LEMMA MainCrashesHolds == ASSUME KillInv, MainCrashes PROVE KillInv'
<1>1. FlagsOK' BY Zenon DEF KillInv, TypeOK, FlagsOK, MainCrashes, Fault
<1> QED
  BY <1>1, SMTT(20) DEF KillInv, TypeOK, StoppedBeforeCleanup, NoLockInversion,
     NoPipelineForFailedTask, ActivationOwnsTask, ProcessSettles, EntryHasAnOwner,
     CleanupAnswers, MainCrashes, Fault

-----------------------------------------------------------------------------
\* The theorems

\* Every step, and every stuttering step, keeps the invariant.
LEMMA StepHolds == ASSUME KillInv, [Next]_vars PROVE KillInv'
<1>1. CASE UNCHANGED vars
  <2>1. FlagsOK' BY <1>1, Zenon DEF KillInv, TypeOK, FlagsOK, vars
  <2> QED
    BY <1>1, <2>1 DEF KillInv, TypeOK, StoppedBeforeCleanup, NoLockInversion,
       NoPipelineForFailedTask, ActivationOwnsTask, ProcessSettles, EntryHasAnOwner,
       CleanupAnswers, vars
<1>2. ASSUME NEW h \in {"main", "peer"}, ClaimTask(h) \/ ClaimKilled(h) PROVE KillInv'
  BY <1>2, ClaimTaskHolds, ClaimKilledHolds
<1>3. CASE Activation
  BY <1>3, ActivationStepHolds, WriteMarkerHolds, CheckpointHolds, NoteFailureHolds,
     BootstrapHolds, LaunchHolds, PrePipelineKillHolds, RollbackHolds,
     StartPipelineHolds, ForkedHolds, ClearProgressHolds DEF Activation
<1>4. CASE Pipeline
  BY <1>4, FileArchiveHolds, CompleteTaskHolds, FailTaskHolds, ClearSwitchHolds,
     ChildExitsHolds, AgentStoppedHolds, DiesHolds DEF Pipeline
<1>5. CASE Cleanup
  BY <1>5, BeginCleanupHolds, GraceEndsHolds, LookHolds, PollEndsHolds,
     CleanupMovesHolds, ClearRequestHolds DEF Cleanup
<1>6. CASE Failing
  BY <1>6, CheckpointFailsHolds, ActivationThrowsHolds, PrePipelineKillFailsHolds,
     BootstrapFailsHolds, ForkFailsHolds, AgentFailsHolds, UnprovenHolds,
     CleanupMoveFailsHolds, MainCrashesHolds DEF Failing
<1>7. CASE Operator
  BY <1>7, RequestKillHolds, RetryKillCleanupHolds, CancelTaskHolds,
     ReturnToOpenHolds, MoveToOpenHolds, PublishHolds DEF Operator
<1>8. CASE AgentStopped \/ Dies \/ BeginCloseout \/ HandlerMoves \/ CancelGraceEnds
  BY <1>8, AgentStoppedHolds, DiesHolds, BeginCloseoutHolds, HandlerMovesHolds, CancelGraceEndsHolds
<1> QED BY <1>1, <1>2, <1>3, <1>4, <1>5, <1>6, <1>7, <1>8 DEF Next

\* An activation keeps its claim up to the fork, a task with a process or with somebody
\* about to move it is not activated again, the clean-up of a pipeline begins when its
\* process is gone, no pipeline starts for a task a kill has failed, and the queue lock
\* and the kill lock are never waited for in both orders at a time.
THEOREM KillInvariance == Spec => []KillInv
<1>1. Init => KillInv BY InitHolds
<1>2. KillInv /\ [Next]_vars => KillInv' BY StepHolds
<1> QED BY <1>1, <1>2, PTL DEF Spec

\* The clean-up of a pipeline we have stopped moves the task only when the process is
\* gone (stopPipeline, executeRequestedTaskKill).
THEOREM StoppedFirst == Spec => []StoppedBeforeCleanup
<1>1. KillInv => StoppedBeforeCleanup BY DEF KillInv
<1> QED BY <1>1, KillInvariance, PTL

\* Every path from a request to the fork of an activation passes a checkpoint that
\* returns (checkpointKill).
THEOREM NoneForFailed == Spec => []NoPipelineForFailedTask
<1>1. KillInv => NoPipelineForFailedTask BY DEF KillInv
<1> QED BY <1>1, KillInvariance, PTL

\* A checkpoint and a clean-up that want each other's lock are never at it together.
THEOREM LocksInOrder == Spec => []NoLockInversion
<1>1. KillInv => NoLockInversion BY DEF KillInv
<1> QED BY <1>1, KillInvariance, PTL

\* A task whose pipeline the main process has stopped, or has seen failing, always has
\* somebody who will move it, or a request the operator can try again.
THEOREM OwnerInvariance == Spec => []StoppedTaskHasAnOwner
<1>1. KillInv => StoppedTaskHasAnOwner
  BY DEF KillInv, ActivationOwnsTask, CleanupAnswers, StoppedTaskHasAnOwner, Alive, InSlot
<1> QED BY <1>1, KillInvariance, PTL

\* A request is taken back only by a step after which the task is out of its slot.
THEOREM RequestOutlives == Spec => RequestOutlivesTask
<1> DEFINE Outlives == request # "none" /\ request' = "none" => ~InSlot'
<1>1. ASSUME KillInv, [Next]_vars PROVE [Outlives]_vars
  <2>1. CASE UNCHANGED vars BY <2>1
  <2>2. ASSUME NEW h \in {"main", "peer"}, ClaimTask(h) \/ ClaimKilled(h) PROVE Outlives
    BY <2>2 DEF ClaimTask, ClaimKilled, DiscardActivation, InSlot
  <2>3. CASE Activation
    BY <1>1, <2>3 DEF Activation, ActivationStep, WriteMarker, Checkpoint, NoteFailure, Bootstrap,
       Launch, PrePipelineKill, Rollback, StartPipeline, Forked, ClearProgress,
       DiscardActivation, MoveFailed, Note, InSlot
  <2>4. CASE Pipeline \/ AgentStopped \/ Dies \/ BeginCloseout \/ HandlerMoves \/ CancelGraceEnds
    BY <2>4 DEF Pipeline, FileArchive, CompleteTask, FailTask, ClearSwitch, ChildExits,
       AgentStopped, Dies, BeginCloseout, HandlerMoves, CancelGraceEnds
  <2>5. CASE Cleanup
    BY <1>1, <2>5 DEF KillInv, CleanupAnswers, ActivationOwnsTask, Cleanup, BeginCleanup,
       GraceEnds, Look, PollEnds, CleanupMoves, ClearRequest, Note, InSlot
  <2>6. CASE Failing
    BY <2>6 DEF Failing, CheckpointFails, ActivationThrows, PrePipelineKillFails,
       BootstrapFails, ForkFails, AgentFails, Unproven, CleanupMoveFails, MainCrashes, Note
  <2>7. CASE Operator
    BY <2>7 DEF Operator, RequestKill, RetryKillCleanup, CancelTask, ReturnToOpen, MoveToOpen,
       Publish
  <2> QED BY <1>1, <2>1, <2>2, <2>3, <2>4, <2>5, <2>6, <2>7 DEF Next
<1> QED BY <1>1, KillInvariance, PTL DEF Spec, RequestOutlivesTask

-----------------------------------------------------------------------------
\* The refinement of TaskLifecycle.  Most steps leave marker and intake alone; of the
\* others each is one move of the lifecycle.

\* The maps of the one task's stage before and after, and its step from one to another.
LEMMA StageStep ==
  ASSUME NEW from, NEW to, Life = from, Life' = to,
         \/ from = "queued" /\ to \in {"active", "failed", "open"}
         \/ from = "active" /\ to \in {"queued", "completed", "failed"}
         \/ from = "failed" /\ to = "open"
         \/ from = "open" /\ to = "queued"
  PROVE  Stages!Next
<1> DEFINE L == [t \in {"task"} |-> Life]
           One == L' = [t \in {"task"} |-> IF t \in {"task"} THEN to ELSE L[t]]
<1>1. L["task"] = from /\ L' = [t \in {"task"} |-> to] OBVIOUS
<1>2. One BY <1>1
<1>3. CASE from = "open"
  <2>1. L' = [t \in {"task"} |-> IF t \in {} \cup {"task"} THEN "queued" ELSE L[t]]
    BY <1>1, <1>3
  <2>2. Stages!Submit("task", {}) BY <1>1, <1>3, <2>1 DEF Stages!Submit, Stages!Become
  <2> QED BY <2>2 DEF Stages!Next
<1>4. CASE from # "open"
  <2>1. \/ Stages!Activate("task") \/ Stages!Rollback("task") \/ Stages!Complete("task")
        \/ Stages!Fail("task") \/ Stages!Reopen("task")
    BY <1>1, <1>2, <1>4 DEF Stages!Activate, Stages!Rollback, Stages!Complete, Stages!Fail,
       Stages!Reopen, Stages!Become
  <2> QED BY <2>1 DEF Stages!Next
<1> QED BY <1>3, <1>4

\* Moving a failed task fails one that is queued or active, and leaves others alone.
LEMMA MovedIsFailed == ASSUME KillInv, MoveFailed PROVE Stages!Next \/ UNCHANGED Life
<1>1. CASE marker \/ item = "pending"
  <2>1. Life \in {"active", "queued"} /\ Life' = "failed" BY <1>1 DEF MoveFailed, Life
  <2> QED BY <2>1, StageStep
<1>2. CASE ~(marker \/ item = "pending") BY <1>2 DEF MoveFailed, Life
<1> QED BY <1>1, <1>2

LEMMA LifeStep == ASSUME KillInv, [Next]_vars PROVE Stages!Next \/ UNCHANGED Life
<1> DEFINE Shown == Stages!Next \/ UNCHANGED Life
<1>u. ASSUME UNCHANGED <<item, marker>> PROVE Shown BY <1>u DEF Life
<1>1. CASE UNCHANGED vars BY <1>1, <1>u DEF vars
<1>2. ASSUME NEW h \in {"main", "peer"}, ClaimTask(h) \/ ClaimKilled(h) PROVE Shown
  <2>1. CASE ClaimTask(h) BY <2>1, <1>u DEF ClaimTask
  <2>2. CASE ClaimKilled(h)
    <3>1. Life = "queued" /\ Life' = "failed" BY <2>2 DEF ClaimKilled, DiscardActivation, Life
    <3> QED BY <3>1, StageStep
  <2> QED BY <1>2, <2>1, <2>2
<1>3. CASE Activation
  <2>1. CASE WriteMarker
    <3>1. Life = "queued" /\ Life' = "active"
      BY <2>1 DEF WriteMarker, Life, KillInv, ActivationOwnsTask
    <3> QED BY <3>1, StageStep
  <2>2. CASE Checkpoint
    <3>1. Life = "queued" /\ Life' = "failed"
      BY <2>2 DEF Checkpoint, DiscardActivation, Life, KillInv, ActivationOwnsTask
    <3> QED BY <3>1, StageStep
  <2>3. CASE PrePipelineKill BY <2>3, MovedIsFailed DEF PrePipelineKill
  <2>4. CASE Rollback
    <3>1. Life = "active" /\ Life' = "queued" BY <2>4 DEF Rollback, Life, KillInv, ActivationOwnsTask
    <3> QED BY <3>1, StageStep
  <2>5. CASE \/ ActivationStep \/ NoteFailure \/ Bootstrap \/ Launch \/ StartPipeline
             \/ Forked \/ ClearProgress
    BY <2>5, <1>u DEF ActivationStep, NoteFailure, Bootstrap, Launch, StartPipeline, Forked,
       ClearProgress
  <2> QED BY <1>3, <2>1, <2>2, <2>3, <2>4, <2>5 DEF Activation
<1>4. CASE Pipeline
  <2>1. CASE CompleteTask
    <3>1. Life = "active" /\ Life' = "completed"
      BY <2>1 DEF CompleteTask, Life, KillInv, ActivationOwnsTask
    <3> QED BY <3>1, StageStep
  <2>2. CASE FailTask BY <2>2, MovedIsFailed DEF FailTask
  <2>3. CASE FileArchive \/ ClearSwitch \/ ChildExits \/ AgentStopped \/ Dies
    BY <2>3, <1>u DEF FileArchive, ClearSwitch, ChildExits, AgentStopped, Dies
  <2> QED BY <1>4, <2>1, <2>2, <2>3 DEF Pipeline
<1>5. CASE Cleanup
  <2>1. CASE CleanupMoves BY <2>1, MovedIsFailed DEF CleanupMoves
  <2>2. CASE BeginCleanup \/ GraceEnds \/ Look \/ PollEnds \/ ClearRequest
    BY <2>2, <1>u DEF BeginCleanup, GraceEnds, Look, PollEnds, ClearRequest
  <2> QED BY <1>5, <2>1, <2>2 DEF Cleanup
<1>6. CASE Failing
  BY <1>6, <1>u DEF Failing, CheckpointFails, ActivationThrows, PrePipelineKillFails,
     BootstrapFails, ForkFails, AgentFails, Unproven, CleanupMoveFails, MainCrashes
<1>7. CASE Operator
  <2>1. CASE ReturnToOpen
    <3>1. Life = "queued" /\ Life' = "open" BY <2>1 DEF ReturnToOpen, Life
    <3> QED BY <3>1, StageStep
  <2>2. CASE MoveToOpen
    <3>1. ~marker BY <2>2 DEF MoveToOpen, KillInv, ActivationOwnsTask
    <3>2. Life = "failed" /\ Life' = "open" BY <2>2, <3>1 DEF MoveToOpen, Life
    <3> QED BY <3>2, StageStep
  <2>3. CASE Publish
    <3>1. ~marker BY <2>3 DEF Publish, KillInv, ActivationOwnsTask
    <3>2. Life = "open" /\ Life' = "queued" BY <2>3, <3>1 DEF Publish, Life
    <3> QED BY <3>2, StageStep
  <2>4. CASE RequestKill \/ RetryKillCleanup \/ CancelTask
    BY <2>4, <1>u DEF RequestKill, RetryKillCleanup, CancelTask
  <2> QED BY <1>7, <2>1, <2>2, <2>3, <2>4 DEF Operator
<1>8. CASE AgentStopped \/ Dies \/ BeginCloseout \/ HandlerMoves \/ CancelGraceEnds
  <2>1. CASE HandlerMoves BY <2>1, MovedIsFailed DEF HandlerMoves
  <2>2. CASE AgentStopped \/ Dies \/ BeginCloseout \/ CancelGraceEnds
    BY <2>2, <1>u DEF AgentStopped, Dies, BeginCloseout, CancelGraceEnds
  <2> QED BY <1>8, <2>1, <2>2
<1> QED BY <1>1, <1>2, <1>3, <1>4, <1>5, <1>6, <1>7, <1>8 DEF Next

\* However a request, a checkpoint, the closeout, the exit handler and the operator meet,
\* the task goes through the stages of TaskLifecycle: whoever ends it first decides.
THEOREM KillRefinement == Spec => KilledFollowsLifecycle
<1>1. KillInv /\ [Next]_vars => [Stages!Next]_Life BY LifeStep
<1> QED BY <1>1, KillInvariance, PTL DEF Spec, KilledFollowsLifecycle
=============================================================================
