--------------------------- MODULE KillProtocol ---------------------------
(***************************************************************************)
(* The operator stops one task: queue/killTask.ts with the activation that *)
(* looks out for a kill request, the supervisor that stops the pipeline,   *)
(* and the pipeline that looks out for its kill switch.                    *)
(*                                                                         *)
(* The main process has the board, the clean-up of an accepted request     *)
(* (executeRequestedTaskKill, one per task) and the exit handler of the    *)
(* pipelines it has forked.  A task is activated by the main process or by *)
(* the pipeline of another task (a peer); only in the first case has the   *)
(* main process the new pipeline in its pid map.  The requests, the active *)
(* marker, the activation progress and the kill switch are files that all  *)
(* of them read and write.  The queue lock and the kill lock of the task   *)
(* are those of QueueLock.                                                 *)
(***************************************************************************)
EXTENDS Naturals

CONSTANTS
  Faults,     \* the kinds of fault that may happen
  MaxFaults,  \* bound on the faults of one behaviour
  MaxMoves    \* bound on the moves of the task by the operator

FaultKind == {"agent", "activate", "spawn", "cleanup", "hang", "crash"}

ASSUME KillAssumption ==
  /\ Faults \subseteq FaultKind
  /\ MaxFaults \in Nat
  /\ MaxMoves \in Nat

VARIABLES
  item,      \* where the intake of the task is
  marker,    \* the task has a marker in .active-items/
  progress,  \* and one in .activating-items/
  work,      \* it has a workspace, in which state
  request,   \* the kill request: "none", or its cleanupStatus ("asked" at first)
  switch,    \* the pipeline kill switch is set
  archived,  \* the closeout has filed the archive record
  queueLock, killLock,
  act,       \* how far the activation of the task has got
  host,      \* the process that activates it, or has activated it last
  child,     \* the pipeline process
  signals,   \* the signals sent to it
  code,      \* the exit code it is going to end with
  entry,     \* the main process's pid map entry for it, by its cleanup owner
  handler,   \* the exit handler of the main process
  cleanup,   \* the clean-up of the kill request
  cancel,    \* the stop of a cancelled task, which leaves clean-up to the handler
  faults, moves

fileVars   == <<item, marker, progress, work, request, switch, archived>>
lockVars   == <<queueLock, killLock>>
childVars  == <<child, signals, code, entry>>
threadVars == <<handler, cleanup, cancel>>
boundVars  == <<faults, moves>>
vars == <<fileVars, lockVars, act, host, childVars, threadVars, boundVars>>

\* An activation up to its last look for a kill request: under the queue lock ...
LockedStage == {"prepare", "materialized", "sidecar", "artifacts"}
\* ... and after it.
OpenStage   == {"marked", "bootstrapped"}

Working == {"running", "closing", "filing", "failing", "leaving"}

FlagsOK ==
  /\ marker \in BOOLEAN /\ progress \in BOOLEAN
  /\ switch \in BOOLEAN /\ archived \in BOOLEAN

TypeOK ==
  /\ FlagsOK
  /\ item \in {"pending", "open", "error", "done"}
  /\ work \in {"none", "partial", "active", "failed"}
  /\ request \in {"none", "asked", "running", "failed"}
  /\ queueLock \in {"none", "act", "child"}
  /\ killLock \in {"none", "cleanup"}
  /\ act \in LockedStage \cup OpenStage
             \cup {"idle", "noteFailure", "launch", "spawn", "rollback", "unmark", "late"}
  /\ host \in {"main", "peer"}
  /\ child \in {"none", "starting", "left", "dead"} \cup Working
  /\ signals \subseteq {"term", "kill"}
  /\ code \in {0, 1}
  /\ entry \in {"none", "handler", "caller"}
  /\ handler \in {"idle", "move"}
  /\ cleanup \in {"idle", "start", "await", "term", "kill", "look", "poll",
                  "moveStopped", "moveUnowned", "clear"}
  /\ cancel \in {"idle", "term", "kill"}
  /\ faults \in 0..MaxFaults /\ moves \in 0..MaxMoves

Init ==
  /\ item = "pending" /\ work = "none" /\ request = "none"
  /\ marker = FALSE /\ progress = FALSE /\ switch = FALSE /\ archived = FALSE
  /\ queueLock = "none" /\ killLock = "none"
  /\ act = "idle" /\ host = "main"
  /\ child = "none" /\ signals = {} /\ code = 0 /\ entry = "none"
  /\ handler = "idle" /\ cleanup = "idle" /\ cancel = "idle"
  /\ faults = 0 /\ moves = 0

--------------------------------------------------------------------------
\* Helpers

Fault(f) == f \in Faults /\ faults < MaxFaults /\ faults' = faults + 1 /\ UNCHANGED moves

CleanupGoes(l) == cleanup' = l /\ UNCHANGED <<handler, cancel>>

\* A mutant: without the gate.
MoveFailedAnyway == item' = "error" /\ marker' = FALSE /\ work' = "failed"

\* moveFailedItemToErrorItems under the queue lock, with the gate for a task that
\* somebody else has disposed of.
MoveFailed ==
  IF marker \/ item = "pending"
  THEN item' = "error" /\ marker' = FALSE /\ work' = "failed"
  ELSE UNCHANGED <<item, marker, work>>

\* The clean-up status is written into a request that is there.
Note(status) == request' = IF request = "none" THEN "none" ELSE status

\* handleActivationKillCheckpoint before the active marker is written: worktrees,
\* workspace and sidecar are rolled back and the intake is moved.
DiscardActivation ==
  /\ item' = "error" /\ work' = "none" /\ progress' = FALSE /\ request' = "none"
  /\ UNCHANGED <<marker, switch, archived>>

--------------------------------------------------------------------------
\* The activation (activateNextPendingItemIfReady)

\* It picks the task.  A request that is already there ends it at once.
ClaimTask(h) ==
  /\ act = "idle" /\ queueLock = "none" /\ item = "pending" /\ ~marker
  /\ request = "none" /\ work = "none"
  /\ act' = "prepare" /\ queueLock' = "act" /\ host' = h /\ progress' = TRUE
  /\ UNCHANGED <<item, marker, work, request, switch, archived, killLock, childVars, threadVars, boundVars>>

ClaimKilled(h) ==
  /\ act = "idle" /\ queueLock = "none" /\ item = "pending" /\ ~marker
  /\ request # "none"
  /\ host' = h /\ DiscardActivation
  /\ UNCHANGED <<lockVars, act, childVars, threadVars, boundVars>>

\* The stages under the lock, each with a checkpoint in front of the next.
NextStage == [prepare |-> "materialized", materialized |-> "sidecar", sidecar |-> "artifacts"]

ActivationStep ==
  /\ act \in DOMAIN NextStage /\ request = "none"
  /\ act' = NextStage[act]
  /\ work' = IF act = "prepare" THEN "partial" ELSE "active"
  /\ UNCHANGED <<item, marker, progress, request, switch, archived, lockVars, host, childVars, threadVars, boundVars>>

WriteMarker ==
  /\ act = "artifacts" /\ request = "none"
  /\ act' = "marked" /\ marker' = TRUE /\ queueLock' = "none"
  /\ UNCHANGED <<item, progress, work, request, switch, archived, killLock, host, childVars, threadVars, boundVars>>

\* A checkpoint under the lock sees the request.
Checkpoint ==
  /\ act \in LockedStage /\ request # "none"
  /\ DiscardActivation
  /\ act' = "idle" /\ queueLock' = "none"
  /\ UNCHANGED <<killLock, host, childVars, threadVars, boundVars>>

\* Its clean-up throws: the failure is noted under the kill lock while the queue
\* lock is still held.
CheckpointFails ==
  /\ act \in LockedStage /\ request # "none" /\ Fault("cleanup")
  /\ act' = "noteFailure"
  /\ UNCHANGED <<fileVars, lockVars, host, childVars, threadVars>>

NoteFailure ==
  /\ act = "noteFailure" /\ killLock = "none"
  /\ Note("failed")
  /\ progress' = FALSE /\ act' = "idle" /\ queueLock' = "none"
  /\ UNCHANGED <<item, marker, work, switch, archived, killLock, host, childVars, threadVars, boundVars>>

\* Anything else throws under the lock: the progress is cleared, the workspace stays.
ActivationThrows ==
  /\ act \in LockedStage /\ Fault("activate")
  /\ progress' = FALSE /\ act' = "idle" /\ queueLock' = "none"
  /\ UNCHANGED <<item, marker, work, request, switch, archived, killLock, host, childVars, threadVars>>

\* The pre-pipeline checkpoints, before and after the shared MCP is up.
Bootstrap ==
  /\ act = "marked" /\ request = "none"
  /\ act' = "bootstrapped"
  /\ UNCHANGED <<fileVars, lockVars, host, childVars, threadVars, boundVars>>

Launch ==
  /\ act = "bootstrapped" /\ request = "none"
  /\ act' = "launch" /\ progress' = TRUE
  /\ UNCHANGED <<item, marker, work, request, switch, archived, lockVars, host, childVars, threadVars, boundVars>>

\* A mutant: the activation goes on after the checkpoint has failed the task.
PrePipelineKillGoesOn ==
  /\ act \in OpenStage /\ request # "none" /\ queueLock = "none"
  /\ MoveFailed /\ progress' = FALSE /\ request' = "none" /\ act' = "launch"
  /\ UNCHANGED <<switch, archived, lockVars, host, childVars, threadVars, boundVars>>
PrePipelineKill ==
  /\ act \in OpenStage /\ request # "none" /\ queueLock = "none"
  /\ MoveFailed /\ progress' = FALSE /\ request' = "none" /\ act' = "idle"
  /\ UNCHANGED <<switch, archived, lockVars, host, childVars, threadVars, boundVars>>

\* The clean-up throws: activation progress stays behind.
PrePipelineKillFails ==
  /\ act \in OpenStage /\ request # "none" /\ killLock = "none" /\ Fault("cleanup")
  /\ Note("failed") /\ act' = "idle"
  /\ UNCHANGED <<item, marker, progress, work, switch, archived, lockVars, host, childVars, threadVars>>

\* The shared MCP does not start, or the fork fails: the claim is rolled back.
BootstrapFails ==
  /\ act = "marked" /\ Fault("activate")
  /\ act' = "rollback"
  /\ UNCHANGED <<fileVars, lockVars, host, childVars, threadVars>>

Rollback ==
  /\ act = "rollback" /\ queueLock = "none"
  /\ act' = "unmark" /\ marker' = FALSE /\ work' = "none"
  /\ UNCHANGED <<item, progress, request, switch, archived, lockVars, host, childVars, threadVars, boundVars>>

\* startPipeline claims the task in startingMap, the child is forked, and the
\* progress is cleared last.  A clean-up that waits for the fork goes on with it.
StartPipeline ==
  /\ act = "launch"
  /\ act' = "spawn" /\ child' = "starting" /\ code' = 0 /\ signals' = {}
  /\ UNCHANGED <<fileVars, lockVars, host, entry, threadVars, boundVars>>

Forked ==
  /\ act = "spawn"
  /\ act' = "late" /\ child' = "running"
  /\ IF cleanup = "await"
     THEN entry' = "caller" /\ signals' = {"term"} /\ CleanupGoes("term")
     ELSE entry' = (IF host = "main" THEN "handler" ELSE "none") /\ UNCHANGED <<signals, threadVars>>
  /\ UNCHANGED <<fileVars, lockVars, host, code, boundVars>>

ForkFails ==
  /\ act = "spawn" /\ Fault("spawn")
  /\ act' = "rollback" /\ child' = "none"
  /\ CleanupGoes(IF cleanup = "await" THEN "look" ELSE cleanup)
  /\ UNCHANGED <<fileVars, lockVars, host, signals, code, entry>>

ClearProgress ==
  /\ act \in {"unmark", "late"}
  /\ act' = "idle" /\ progress' = FALSE
  /\ UNCHANGED <<item, marker, work, request, switch, archived, lockVars, host, childVars, threadVars, boundVars>>

--------------------------------------------------------------------------
\* The pipeline process (runPipelineSequence)

\* Its agents end well and the closeout takes the queue lock, or refuses a task
\* that is not pending any more.
BeginCloseout ==
  /\ child = "running" /\ queueLock = "none"
  /\ IF item = "pending" THEN child' = "closing" /\ queueLock' = "child"
                         ELSE child' = "failing" /\ UNCHANGED queueLock
  /\ UNCHANGED <<fileVars, killLock, act, host, signals, code, entry, threadVars, boundVars>>

FileArchive ==
  /\ child = "closing"
  /\ child' = "filing" /\ archived' = TRUE
  /\ UNCHANGED <<item, marker, progress, work, request, switch, lockVars, act, host, signals, code, entry,
                 threadVars, boundVars>>

CompleteTask ==
  /\ child = "filing"
  /\ child' = "leaving" /\ item' = "done" /\ marker' = FALSE /\ work' = "none" /\ queueLock' = "none"
  /\ UNCHANGED <<progress, request, switch, archived, killLock, act, host, signals, code, entry,
                 threadVars, boundVars>>

\* An agent fails by itself, because SIGTERM was passed on to it, or because the
\* monitor has seen the kill switch.
AgentFails ==
  /\ child = "running" /\ Fault("agent")
  /\ child' = "failing"
  /\ UNCHANGED <<fileVars, lockVars, act, host, signals, code, entry, threadVars>>

AgentStopped ==
  /\ child = "running" /\ (switch \/ "term" \in signals)
  /\ child' = "failing"
  /\ UNCHANGED <<fileVars, lockVars, act, host, signals, code, entry, threadVars, boundVars>>

\* handlePipelineFailure, then the kill switch is cleared on the way out.
FailTask ==
  /\ child = "failing" /\ queueLock = "none"
  /\ MoveFailed
  /\ child' = "leaving" /\ code' = 1
  /\ UNCHANGED <<progress, request, switch, archived, lockVars, act, host, signals, entry, threadVars, boundVars>>

ClearSwitch ==
  /\ child = "leaving"
  /\ child' = "left" /\ switch' = FALSE
  /\ UNCHANGED <<item, marker, progress, work, request, archived, lockVars, act, host, signals, code, entry,
                 threadVars, boundVars>>

\* A signal ends the process; the queue lock of a dead holder is reclaimed.
Dies ==
  /\ child \in Working /\ signals # {}
  /\ child' = "dead" /\ code' = 1
  /\ queueLock' = IF queueLock = "child" THEN "none" ELSE queueLock
  /\ UNCHANGED <<fileVars, killLock, act, host, signals, entry, threadVars, boundVars>>

\* handleChildExit.  It runs before anything else that waits for the exit, so that
\* the waiting stops are over in the same step.
HandlerOwns(e) == e = "handler" /\ code # 0

ChildExits ==
  /\ child \in {"left", "dead"}
  /\ child' = "none" /\ signals' = {} /\ code' = 0 /\ entry' = "none"
  /\ handler' = IF HandlerOwns(entry) THEN "move" ELSE handler
  /\ cleanup' = IF cleanup \in {"term", "kill"} THEN "moveStopped" ELSE cleanup
  /\ cancel'  = "idle"
  /\ UNCHANGED <<fileVars, lockVars, act, host, boundVars>>

HandlerMoves ==
  /\ handler = "move" /\ queueLock = "none"
  /\ MoveFailed /\ handler' = "idle"
  /\ UNCHANGED <<progress, request, switch, archived, lockVars, act, host, childVars, cleanup, cancel, boundVars>>

--------------------------------------------------------------------------
\* The clean-up of a request in the main process (executeRequestedTaskKill)

CleanupEnds    == CleanupGoes("idle") /\ killLock' = "none"

\* Without a request there is nothing to do; else stopPipeline claims the entry.
BeginCleanup ==
  /\ cleanup = "start" /\ killLock = "none"
  /\ \/ /\ request = "none"
        /\ CleanupGoes("idle") /\ UNCHANGED <<killLock, entry, signals>>
     \/ /\ request # "none" /\ entry # "none"
        /\ entry' = "caller" /\ signals' = signals \cup {"term"}
        /\ CleanupGoes("term") /\ killLock' = "cleanup"
     \/ /\ request # "none" /\ entry = "none"
        /\ CleanupGoes(IF host = "main" /\ child = "starting" THEN "await" ELSE "look")
        /\ killLock' = "cleanup" /\ UNCHANGED <<entry, signals>>
  /\ UNCHANGED <<fileVars, queueLock, act, host, child, code, boundVars>>

\* A mutant: no SIGKILL follows.
GraceEndsNot == FALSE

\* A mutant: the pipeline counts as stopped when SIGKILL has been sent.
GraceEndsTrusting ==
  /\ cleanup = "term"
  /\ signals' = signals \cup {"kill"} /\ CleanupGoes("moveStopped")
  /\ UNCHANGED <<fileVars, lockVars, act, host, child, code, entry, boundVars>>
GraceEnds ==
  /\ cleanup = "term"
  /\ signals' = signals \cup {"kill"} /\ CleanupGoes("kill")
  /\ UNCHANGED <<fileVars, lockVars, act, host, child, code, entry, boundVars>>

\* The end of the pipeline cannot be proved in time, or stopPipeline throws (killTask.ts:565):
\* the operator has to try again.
\* A mutant: the request is dropped instead.
UnprovenDropped ==
  /\ cleanup \in {"await", "kill"} /\ Fault("hang")
  /\ request' = "none" /\ CleanupEnds
  /\ UNCHANGED <<item, marker, progress, work, switch, archived, queueLock, act, host, childVars>>
Unproven ==
  /\ cleanup \in {"await", "kill"} /\ Fault("hang")
  /\ Note("failed") /\ CleanupEnds
  /\ UNCHANGED <<item, marker, progress, work, switch, archived, queueLock, act, host, childVars>>

\* No pipeline of the main process.  An activation is left to its checkpoints; a
\* peer's pipeline gets the kill switch.
\* A mutant: an activation is cleaned up like a pipeline.
LookNot ==
  /\ cleanup = "look"
  /\ switch' = TRUE /\ CleanupGoes("poll") /\ UNCHANGED killLock
  /\ UNCHANGED <<item, marker, progress, work, request, archived, queueLock, act, host, childVars, boundVars>>
Look ==
  /\ cleanup = "look"
  /\ IF progress \/ ~marker
     THEN CleanupEnds /\ UNCHANGED switch
     ELSE switch' = TRUE /\ CleanupGoes("poll") /\ UNCHANGED killLock
  /\ UNCHANGED <<item, marker, progress, work, request, archived, queueLock, act, host, childVars, boundVars>>

\* The peer's pipeline acknowledges, or the window closes.
PollEnds ==
  /\ cleanup = "poll"
  /\ CleanupGoes("moveUnowned")
  /\ UNCHANGED <<fileVars, lockVars, act, host, childVars, boundVars>>

\* The move is one step of the queue lock (TaskQueue has its file operations), and the status
\* "running", which is written before the lock is asked for, is merged with it: only the
\* desktop reads it, to offer a retry, which would wait for the kill lock.
CleanupMoves ==
  /\ cleanup \in {"moveStopped", "moveUnowned"} /\ queueLock = "none"
  /\ MoveFailed /\ Note("running") /\ CleanupGoes("clear")
  /\ UNCHANGED <<progress, switch, archived, lockVars, act, host, childVars, boundVars>>

\* A mutant: the request is taken back.
CleanupMoveFailsQuietly ==
  /\ cleanup \in {"moveStopped", "moveUnowned"} /\ Fault("cleanup")
  /\ request' = "none" /\ CleanupEnds
  /\ UNCHANGED <<item, marker, progress, work, switch, archived, queueLock, act, host, childVars>>
CleanupMoveFails ==
  /\ cleanup \in {"moveStopped", "moveUnowned"} /\ Fault("cleanup")
  /\ Note("failed") /\ CleanupEnds
  /\ UNCHANGED <<item, marker, progress, work, switch, archived, queueLock, act, host, childVars>>

ClearRequest ==
  /\ cleanup = "clear"
  /\ request' = "none" /\ CleanupEnds
  /\ UNCHANGED <<item, marker, progress, work, switch, archived, queueLock, act, host, childVars, boundVars>>

--------------------------------------------------------------------------
\* The operator and the desktop

\* The board shows the task as active or activating, and not as stopping.
RequestKill ==
  /\ item = "pending" /\ (marker \/ progress) /\ request = "none" /\ killLock = "none"
  /\ request' = "asked"
  /\ CleanupGoes(IF cleanup = "idle" THEN "start" ELSE cleanup)
  /\ UNCHANGED <<item, marker, progress, work, switch, archived, lockVars, act, host, childVars, boundVars>>

\* A clean-up that has failed may be tried again from the board.
RetryKillCleanup ==
  /\ item = "pending" /\ (marker \/ progress) /\ request = "failed" /\ cleanup = "idle"
  /\ CleanupGoes("start")
  /\ UNCHANGED <<fileVars, lockVars, act, host, childVars, boundVars>>

\* cancelTask stops the pipeline and leaves the rest to the exit handler.
CancelTask ==
  /\ entry # "none" /\ cancel = "idle" /\ "term" \notin signals
  /\ signals' = signals \cup {"term"} /\ cancel' = "term"
  /\ UNCHANGED <<fileVars, lockVars, act, host, child, code, entry, handler, cleanup, boundVars>>

CancelGraceEnds ==
  /\ cancel = "term"
  /\ signals' = signals \cup {"kill"} /\ cancel' = "kill"
  /\ UNCHANGED <<fileVars, lockVars, act, host, child, code, entry, handler, cleanup, boundVars>>

Moved == moves < MaxMoves /\ moves' = moves + 1 /\ UNCHANGED faults

\* A mutant: whatever has started.
ReturnToOpenAnyway ==
  /\ item = "pending" /\ queueLock = "none" /\ Moved
  /\ item' = "open"
  /\ UNCHANGED <<marker, progress, work, request, switch, archived, lockVars, act, host, childVars, threadVars>>

\* A pending task without evidence of a start goes back to dropbox/.
ReturnToOpen ==
  /\ item = "pending" /\ ~marker /\ ~progress /\ work = "none" /\ request = "none"
  /\ queueLock = "none" /\ Moved
  /\ item' = "open"
  /\ UNCHANGED <<marker, progress, work, request, switch, archived, lockVars, act, host, childVars, threadVars>>

\* A failed task goes back to dropbox/ under its id, without its workspace.  (Not
\* while somebody is still going to fail the earlier attempt: that is in TaskQueue.)
MoveToOpen ==
  /\ item = "error" /\ queueLock = "none" /\ child = "none" /\ Moved
  /\ handler = "idle" /\ cleanup \in {"idle", "start", "clear"}
  /\ item' = "open" /\ work' = "none"
  /\ UNCHANGED <<marker, progress, request, switch, archived, lockVars, act, host, childVars, threadVars>>

Publish ==
  /\ item = "open" /\ queueLock = "none"
  /\ item' = "pending"
  /\ UNCHANGED <<marker, progress, work, request, switch, archived, lockVars, act, host, childVars, threadVars,
                 boundVars>>

\* The main process ends.  Pipelines go on; their exits are nobody's any more.
MainCrashes ==
  /\ Fault("crash")
  /\ handler' = "idle" /\ cleanup' = "idle" /\ cancel' = "idle" /\ entry' = "none"
  /\ killLock' = "none" /\ host' = "peer"
  /\ IF host = "main" /\ act # "idle"
     THEN /\ act' = "idle"
          /\ queueLock' = IF queueLock = "act" THEN "none" ELSE queueLock
          /\ child' = IF child = "starting" THEN "none" ELSE child
     ELSE UNCHANGED <<act, queueLock, child>>
  /\ UNCHANGED <<fileVars, signals, code>>

--------------------------------------------------------------------------
Activation ==
  \/ ActivationStep \/ WriteMarker \/ Checkpoint \/ NoteFailure \/ Bootstrap \/ Launch
  \/ PrePipelineKill \/ Rollback \/ StartPipeline \/ Forked \/ ClearProgress

\* What a pipeline does for sure: it sees its kill switch and SIGKILL ends it, but
\* its agents may ignore SIGTERM.
Pipeline ==
  \/ FileArchive \/ CompleteTask \/ FailTask \/ ClearSwitch \/ ChildExits
  \/ switch /\ AgentStopped
  \/ "kill" \in signals /\ Dies

Cleanup ==
  \/ BeginCleanup \/ GraceEnds \/ Look \/ PollEnds \/ CleanupMoves \/ ClearRequest

Failing ==
  \/ CheckpointFails \/ ActivationThrows \/ PrePipelineKillFails \/ BootstrapFails \/ ForkFails
  \/ AgentFails \/ Unproven \/ CleanupMoveFails \/ MainCrashes

Operator ==
  \/ RequestKill \/ RetryKillCleanup \/ CancelTask \/ ReturnToOpen \/ MoveToOpen \/ Publish

Next ==
  \/ \E h \in {"main", "peer"} : ClaimTask(h) \/ ClaimKilled(h)
  \/ Activation \/ Pipeline \/ AgentStopped \/ Dies \/ BeginCloseout \/ HandlerMoves \/ Cleanup \/ CancelGraceEnds
  \/ Failing \/ Operator

Spec == Init /\ [][Next]_vars

\* Threads go on and timers fire.  Nothing is assumed of the agents (BeginCloseout),
\* who may work for ever, of the operator, or of the next activation.
FairSpec ==
  /\ Spec
  /\ WF_vars(Activation) /\ WF_vars(Pipeline) /\ WF_vars(HandlerMoves) /\ WF_vars(Cleanup)
  /\ WF_vars(CancelGraceEnds)

--------------------------------------------------------------------------
\* Properties

InSlot == item = "pending" /\ marker
Alive  == InSlot \/ (item = "pending" /\ act # "idle")

\* Someone will look at the request again: its clean-up, or a checkpoint the
\* activation still has before it.
Attended == cleanup # "idle" \/ act \in LockedStage \cup OpenStage \cup {"noteFailure"}

\* The clean-up of a pipeline the main process has stopped begins when that process
\* is gone, so that no agent works in a worktree that is being finalized
\* (stopPipeline resolves after exitPromise).
StoppedBeforeCleanup == cleanup = "moveStopped" => child = "none"

\* No pipeline is started for a task that a kill has failed: every checkpoint of the
\* activation returns when it has found a request, and the clean-up leaves a task
\* that is being activated alone.
NoPipelineForFailedTask == child = "starting" => item = "pending" /\ marker

\* A task whose pipeline the main process has stopped, or has seen failing, is never
\* left in its slot: the exit handler or the clean-up will move it, or the request is
\* marked failed, which lets the operator try again (cleanupOwner of
\* pipelineSupervisor.ts).
StoppedTaskHasAnOwner ==
  (Alive /\ host = "main" /\ act = "idle" /\ child = "none")
    => handler # "idle" \/ cleanup # "idle" \/ request = "failed"

\* The queue lock and the kill lock are taken in both orders, by a checkpoint that
\* notes its failure and by the clean-up that moves the task; never at a time.
NoLockInversion ==
  ~(act = "noteFailure" /\ queueLock = "act"
      /\ killLock = "cleanup" /\ cleanup \in {"moveStopped", "moveUnowned"})

\* A request is only taken back when the task has left its slot.
RequestOutlivesTask == [][request # "none" /\ request' = "none" => ~InSlot']_vars

\* A request that somebody attends to ends the task, or comes back to the operator
\* as failed, however long the agents would have worked and whatever signals they
\* ignore for a while.  The excepted case is that the request is left to an activation
\* whose last checkpoint has passed.
KillTakesEffect ==
  request = "asked" ~> (~Alive \/ request = "failed" \/ ~Attended)

\* The stages the task goes through, read off the files.  Whoever ends it first, closeout,
\* checkpoint, clean-up or exit handler, the others find nothing to do: it is completed
\* only out of its slot and then never failed ("the loser is a clean no-op"), and a kill
\* fails it only when it is queued or active.
Life == IF marker THEN "active"
        ELSE [pending |-> "queued", error |-> "failed", open |-> "open", done |-> "completed"][item]
Stages == INSTANCE TaskLifecycle WITH Task <- {"task"}, life <- [t \in {"task"} |-> Life]
KilledFollowsLifecycle == [][Stages!Next]_Life

--------------------------------------------------------------------------
\* The inductive invariant

\* An activation holds its claim on the task up to the end of the fork, whoever
\* requests what in the meantime.
ActivationOwnsTask ==
  /\ act # "idle" => progress
  /\ queueLock = "act" <=> act \in LockedStage \cup {"noteFailure"}
  /\ queueLock = "child" <=> child \in {"closing", "filing"}
  /\ act \in LockedStage \cup {"noteFailure", "unmark"} => item = "pending" /\ ~marker
  /\ act \in OpenStage \cup {"launch", "spawn", "rollback"} => item = "pending" /\ marker
  /\ marker => item = "pending"
  /\ child \in {"closing", "filing"} => marker

\* While a process of the task is left, or somebody is going to move the task, it is
\* not activated again: it has its marker, or it is disposed of.
Settled == act \in {"idle", "late"} /\ (marker \/ item \in {"error", "done"})

ProcessSettles ==
  /\ child = "starting" <=> act = "spawn"
  /\ child \notin {"none", "starting"} => Settled
  /\ handler = "move" => Settled
  /\ entry # "none" => child \in Working \cup {"left", "dead"}
  /\ cleanup \in {"term", "kill", "poll", "moveStopped", "moveUnowned"} => Settled

\* Who answers for a pipeline that the main process has in its map.
EntryHasAnOwner ==
  /\ cleanup \in {"idle", "start"} <=> killLock = "none"
  /\ child \in Working \cup {"left", "dead"} /\ host = "main" => entry # "none"
  /\ child = "leaving" => ~marker
  /\ child = "left" \/ (child = "dead" /\ code = 0) => ~marker
  /\ entry = "caller" /\ marker => cleanup \in {"term", "kill"} \/ request = "failed"

\* Who answers for a task that has its marker and no process.
CleanupAnswers ==
  /\ cleanup \notin {"idle", "start", "clear"} => request # "none" \/ item \in {"error", "done"}
  /\ cleanup \in {"term", "kill"} /\ host = "main" => child # "none"
  /\ cleanup = "await" => host = "main" /\ child = "starting"
  /\ cleanup = "clear" /\ marker => request = "none"
  /\ act = "idle" /\ progress /\ marker /\ host = "main" => request = "failed"
  /\ act \in {"idle", "late"} /\ marker /\ child = "none" /\ host = "main"
       => handler = "move" \/ request = "failed" \/ cleanup = "moveStopped"

KillInv ==
  /\ TypeOK /\ StoppedBeforeCleanup /\ NoLockInversion /\ NoPipelineForFailedTask
  /\ ActivationOwnsTask /\ ProcessSettles /\ EntryHasAnOwner /\ CleanupAnswers
==========================================================================
