# A TLA+ verification of TaskSail's control plane

TaskSail runs agentic coding tasks through a local control plane: a file-based
queue, one pipeline process per active task, and a desktop application. This
directory holds TLA+ models of that control plane, TLC configurations that check
them, and TLAPS proofs about them. Paths below are relative to the repository;
`P/` stands for `src/backend/platform/` and `E/` for
`src/frontend/desktop/electron/`.

## 1. The system

There is no database and no server. State is files under `AgentWorkSpace/` and
`.platform-state/`; the writers are

* the **desktop's main process** (operator actions over IPC, the recovery
  controller on a timer, and the exit handlers of the pipelines it forked),
* one **pipeline process** per running task, which runs the agents, then either
  closes the task out or fails it, and then *activates the next task itself*,
  which forks the next pipeline process,
* command line tools that call the same functions.

They coordinate through one directory lock (`queue.lock`), a directory lock per
pipeline, and through the order in which they write files.

### Inventory

| Component | State | Operations | What is hard |
|---|---|---|---|
| Directory lock, `P/queue/dirLock.ts` | lock directory, `owner.json` | acquire with retries, reclaim of a dead owner's lock, release | check then act on files; crash between mkdir and owner; slow writers |
| Activation, `P/queue/operations.ts` | `pendingitems/`, `.active-items/<id>`, `tasks/<id>/`, registry | publish, promote, activate, complete, roll back | cap checked long before the marker; concurrent activators; partial failure |
| Closeout, `completePendingItem.ts`, `resumeCloseout.ts` | `.completing` sentinel, archive | verify, archive, remove intake and marker, register, activate next; resume from the sentinel | crash between any two steps; resume racing the original |
| Failure, `errorItems.ts` | `error-items/` | fail, requeue under a retry id, return to open | three actors fail the same task; ids that are reused |
| Registry, `taskRegistry.ts` | `registry.json` | register, transition, remove, rebuild from directories | best effort: a transition from the wrong state is a silent no-op |
| Queue repair, `repairQueue.ts`, `recoverStuckMidCompletion.ts` | none | find and fix inconsistent files | acts on states that are only transient |
| Kill, `killTask.ts`, `activationProgress.ts`, `runtimeControl.ts` | kill requests, activation progress, kill switch | request, checkpoints, cross-process kill | a request between checkpoints; several owners of the clean-up; two locks |
| Child task chains, `childTaskChains.ts` and its siblings, `worktreeBranchOwnership.ts` | `child-task-chains.json`, one branch per repository | plan, prepare, advance, fail, roll back, delete | failures recorded after the lock; rollbacks on a shared branch; sentinel and chain move together |
| Auto-merge, `autoMerge.ts` | index and working tree of the operator's repositories | check, stage, roll back | done before the archive; no lock against the operator; `git reset --hard` |
| Pipeline supervisor, `P/agent-runner/pipelineSupervisor.ts` | `pidMap`, `startingMap`, `isRecovering` (in memory, per process) | start, stop, exit handler, startup recovery | only the forking process learns of an exit |
| Pipeline sequencer, `P/agent-runner/pipeline/sequencer.ts` | `pipeline.lock`, receipts | agent phases, remediation, closeout or failure | which error ends in which exit code |
| Role agents, `roleAgent.ts`, `agentSession.ts`, `artifactCompletion.ts`, `processLifecycle.ts`, `remediation.ts` | agent process, timers, artifacts | launch, wait for artifacts, stop, follow up, remediate | listeners attached after the launch; abort, exit and timeout race; a review that is older than the work |
| Worktrees, `P/core/worktreeFinalize.ts`, `worktreeMaterialization.ts` | git worktrees, branches | materialize, finalize, retain, evict, discard | disposal outside the queue lock |
| Terminal events, notifications | append-only logs | append, acknowledge | order across processes |
| Shared MCP, containers, `P/container` | service registration | start, reuse, stop | concurrent bootstraps |
| Agent extensions, `P/agent-extensions` | lock file, staged trees | stage, reconcile | partial install |
| Context packs, workflow policy, providers, MCP registries, configuration | files | resolve, validate | data rather than protocol |
| Desktop, `E/app`, `E/tasks`, `E/planner` | recovery state, planner sessions | recovery controller, registry repair on start, board | stale snapshots, restart |

What makes the core correct: at most one client under the queue lock; never more
active tasks than `max_parallel_tasks`; a submitted task is never lost; completed
only with an archive; a task is disposed of once; every active task ends and
every queued task is taken up; the registry agrees with the files; a kill takes
effect and leaves no task without an owner; a chain of tasks keeps the work of its
completed tasks; a task is closed on a review of the work it archives; the
operator's repositories hold what the archive says and lose nothing of his.

`PROJECT.json` lists the components with their status and the hazards at the
lines where they bite.

## 2. Modules

| Module | Content |
|---|---|
| `QueueLock` | What a lock promises: at most one client inside. |
| `DirLock` | The directory lock of `dirLock.ts`, one action per file operation. Refines `QueueLock`. |
| `DirLockProofs` | Proofs about `DirLock`. |
| `TaskLifecycle` | What the queue promises about one task: the stages and the moves between them. |
| `TaskQueue` | Queue, pipelines, exit handlers, operator and recovery controller. Refines `TaskLifecycle`. |
| `TaskQueueProofs` | Proofs about `TaskQueue`. |
| `TaskQueueSlotProofs` | Who works on the slot of a task the operator has not moved, and the refinement of `TaskLifecycle`. |
| `TaskQueueRegistryProofs` | What the registry says of a task the operator has not moved. |
| `KillProtocol`, `KillProtocolProofs` | The operator's kill of one task: requests, checkpoints of the activation, clean-up, kill switch. Its steps are those of `TaskLifecycle`. |
| `ChildChain`, `ChildChainProofs` | A chain of child tasks: its file, its branch, and everything that plans, ends or deletes a task of it. |
| `ChainLog` | What a chain promises: an append-only log with one open task. Refined by `ChildChain`. |
| `PipelineRun`, `PipelineRunProofs` | One pipeline process: sequencer, role runs, sessions, agent process, remediation. |
| `AutoMerge`, `AutoMergeProofs` | The staging of finished tasks in the operator's repositories. |
| `MCDirLock`, `MCTaskQueue`, `MCKillProtocol`, `MCChildChain`, `MCPipelineRun`, `MCAutoMerge` | Small instances for TLC. |

The modules compose by what they leave to each other. `TaskQueue` is built on
`QueueLock`, which `DirLock` implements. `KillProtocol` takes one task out of
`TaskQueue` and opens up what happens to it between the steps there; `PipelineRun`
opens up the single step `PipeDone`/`PipeFails`; `ChildChain` adds the chain file and
the branch to the closeout, failure and operator actions of `TaskQueue`; `AutoMerge`
opens up the part of the closeout between the verification and the archive.

### DirLock and the code

A `Client` is one call of `acquireDirLock` at a time, in a process `pidOf[c]`.
`owner` is the directory with its `owner.json`; `MakeDir`/`DirExists` are the two
outcomes of `mkdir`; `WriteOwner` re-creates a missing directory because
`writeTextFileAtomic` does (`P/core/io.ts:64-96`); `ReadOwner`, `StatDir` and
`Reclaim` are the three file accesses of `tryReclaimStaleLock`; `CheckOwner` and
`Release` are those of the release function. `Crash` ends a process with all its
clients and leaves the files. `AgeDir` is the five-minute TTL. A process id is never reused.

Nothing in the code makes a client act soon on what it has found: a reclaimer removes
the directory any time after its look, and a creator may name its directory after the
TTL. So mutual exclusion does not hold as such (finding 1), and no timing is assumed to
save it. Two history variables say instead when it may be lost: a client is `overtaken`
when somebody else has changed the directory it is about to remove or to name, and the
lock has `strayed` once such a client acts on a directory that is there. `ExclusiveUnlessStrayed`
says that this is the only hole. The constant `PromptWrite` (a live creator writes
`owner.json` within the TTL) is TRUE in the run of finding 1 only, to show that a slow
reclaimer is enough, and is an assumption of the theorem `ExclusiveUntilCrash`.

### TaskQueue and the code

| Variable | Files or memory |
|---|---|
| `place` | `dropbox/`, `pendingitems/`, `error-items/` |
| `marker`, `sentinel` | `.active-items/<id>`, `.active-items/<id>.completing` (with or without `archiveSucceeded`) |
| `archived` | the archive record of the context pack |
| `reg` | the states under which `registry.json` lists a task (a set: entries may be doubled) |
| `workspace` | `AgentWorkSpace/tasks/<id>/` and the state in its `.task.json` |
| `plock`, `evidence` | `runtime/tasks/<id>/pipeline.lock` and the other runtime files |
| `parent` | whether the main process has the child in its `pidMap` |
| `code` | the exit code a pipeline process is heading for: 0, 1, or 78 for a failed closeout |
| `pc`, `arg`, `lock`, `redriven` | where each thread is, on which task, who holds the queue lock, who has used the redrive |
| `discarding` | retained workspaces that an operator's move has yet to discard, after the lock |
| `issued`, `superseded`, `disposed`, `moved`, `faults`, `moves` | history (`moved`: the failed tasks the operator has reopened or requeued) and bounds |

Threads are `Main` (operator actions and recovery controller), `Pipe(t)` (the
pipeline process of `t`) and `Exit(t)` (the handler the main process runs when its
child for `t` exits). `Act*` and `Rollback*` are
`activateNextPendingItemIfReady`, in the order of its awaits: the orphan scan
before the lock, cap, pick, readiness, rejection or conflict, workspace, marker,
registry, release, fork, and the rollback with its one redrive. `Pipe*` is
`runPipelineSequence` with `handleChildExit`; `Close*` is `completePendingItem`;
`Fail*` is `moveFailedItemToErrorItems`; `Res*` is `resumeCloseoutFromSentinel`;
`Publish`, `MoveToPending`, `ReturnToOpen`, `Requeue`, `MoveToOpen`, `Discard` are
what the operator can do; `RepairMarker`, `RecoveryFails`, `MainStops` and
`MainStarts` are the desktop. Every await at which a crash or another thread
makes a difference separates two actions.

Faults are chosen, not scheduled: `Faults` says which kinds may happen and
`MaxFaults` how many. They are a failing agent, a throwing closeout, dirty
repositories, a branch conflict, an exception during activation, a failing fork or
MCP bootstrap, the death of a pipeline process, and the end of the desktop.

Abstractions, with their reasons:

* Any pending task may be picked; the order manifest changes which, not how.
* The agent phases are one step, `PipeDone` or `PipeFails`.
* An operator action is one step under the queue lock.
* The queue lock is the lock of `QueueLock`; that a dead holder's lock is freed is
  shown by `DirLock`. Lock timeouts are not modelled here.
* One pipeline thread and one exit-handler thread per task: a task whose detached
  old child still runs is not picked, and a child does not exit while the handler
  of its predecessor still runs.
* A process forked by a pipeline has no parent that waits: the pipeline exits right
  after the fork. A redrive started in a pipeline process is cut off by that exit.
* The recovery controller looks at the first active marker only; the model allows
  any. With one slot, where liveness is checked, the two agree. Its grace period is
  longer than an activation, which `Starting` states.
* `RecoveryFailsRuntime` is the recovery controller's second way to fail a task: runtime
  files, no `pipeline.lock`, and a role session that has failed or is orphaned. The health
  of sessions is not modelled, so this may happen whenever the files allow it, and nothing
  says that it ever will. Its grace period is left out.
* A closeout may throw anywhere from the wait for its lock to the removal of the marker
  (`CloseThrows`); what it has written by then stays.
* `ActDirty` stands for the unresolved branch chain base as well; both move the
  item to `error-items/`. `ActThrow` leaves nothing or a half-made workspace.
* Name collisions in `pendingitems/` are left out.

### TaskLifecycle

`Life(t)` reads a task's stage off the files (marker, then pending, error, dropbox,
archive). `FollowsLifecycle` says every step of the queue is one of the moves of
`TaskLifecycle` or no move: completion only out of the active stage, and final; a
rollback returns to the queue; a retry starts a new id and ends the old one.

Once the operator moves tasks whose pipelines have died, that is more than the code
promises: a task may be reopened while its marker is still there, and the pipeline of
its first attempt may complete it later (finding 2). `UnmovedFollowLifecycle` says what
remains: with `OwnLife(t)`, where a task the operator has moved is "moved" for good,
the queue still implements `TaskLifecycle`. The operator may take a failed task over
(`TakeOver`), and a retry's new id enters the queue (`TakeOverAs`); whatever becomes of
the tasks taken over, the others go through their stages as before.

### KillProtocol and the code

| Variable | Files or memory |
|---|---|
| `item`, `marker`, `work`, `archived` | the intake, the active marker, the workspace, the archive record of the one task |
| `progress` | `.activating-items/<id>` (`activationProgress.ts`) |
| `request` | the kill request with its `cleanupStatus` (`killTask.ts`) |
| `switch` | the pipeline kill switch (`runtimeControl.ts`) |
| `queueLock`, `killLock` | `queue.lock` and the kill lock of the task |
| `act`, `host` | how far an activation is, and in which process: the desktop or the pipeline of another task |
| `child`, `signals`, `code` | the pipeline process |
| `entry` | its entry in the desktop's `pidMap`, by `cleanupOwner` |
| `handler`, `cleanup`, `cancel` | the exit handler, `executeRequestedTaskKill`, and a cancel from the board |

`ClaimTask` to `ClearProgress` are `activateNextPendingItemIfReady` with a
`Checkpoint` wherever the code calls `checkpointKill`; `RequestKill` is the board's
`killTask`; `BeginCleanup` to `ClearRequest` are `executeRequestedTaskKill` with its
three ways (our own child, a peer's child by the kill switch, no child);
`GraceEnds` is the SIGTERM and SIGKILL of `stopPipeline`; `Unproven` is a stop that
could not be shown. Agents work as long as they like and may ignore SIGTERM; a
"hang" ignores SIGKILL for the grace period as well.
`Life` reads the stage of the task off marker and intake as in `TaskQueue`;
`KilledFollowsLifecycle` says that whoever ends the task first decides, and the closeout,
the checkpoints, the clean-up and the exit handler that come later find nothing to do.

### ChildChain and the code

`ids`, `tip`, `record`, `parent` are the chain's entry in `child-task-chains.json`;
`branch` is the set of tasks whose commits are on the chain's branch and `base[t]`
what was there at `t`'s activation; `marking`, `deleting`, `discarding` are things
the code does after it has released the queue lock: the failure mark, a deletion that
has passed its check, the disposal of worktrees. The closeout is in steps, from
`prepareChildTaskChainCloseout` through archive, sentinel stamp, removal, marker and
advance, in any of which its process may die; `Resume` is `resumeCloseout.ts`, which
does not advance the chain. (The operator's command `recoverStuckMidCompletion.ts` runs
`completePendingItem` once more and does advance it, from what the sentinel has kept
(`completePendingItem.ts:391`); it is not modelled.) One chain and one repository: a
rollback that succeeds in one repository and fails in the next
(`worktreeBranchOwnership.ts:267`), the eviction of retained worktrees
(`worktreeFinalize.ts:277`) and repositories a task introduces into the chain
(`branchChainActivation.ts:251`) are left out, as are scope selection, context
snapshots and archive validation are left out. `retain` is
`retain_failed_task_worktrees`, which the operator may change at any time.

### PipelineRun and the code

`run` is the role run the sequencer is in (`alice`, `dalton`, its passes `fleet`,
`tidy`, `verify`, then `ron`, the remediation runs `fix` and `recheck`, the
retrospective `retro` and the closeout repair `mend`), `pass` the session of
`roleAgent.ts` within it, `pc` what the pipeline does: launched but not yet listening,
waiting, settled, capturing test output, closing, failing. `agent`, `code`, `sent`,
`timer` are the process behind `processLifecycle.ts`; `cut` and `greedy` say why the
session stopped it. `spec`, `review`, `current`, `docs` are the artifacts, reduced to
what policy and remediation read of them. `switch` and `aborted` are the kill switch and the
abort it is turned into, `super` the supervisor's signals. Artifact contents, prompts,
idle detection and receipts of sessions are left out.

### AutoMerge and the code

`index[r]` is the set of tasks whose patch is in the index of repository `r`, `edits[r]`
whether the operator has changes there, `merged[r]` whose patch is in HEAD, `moved[t]`
where HEAD has left the base of `t`, `blocked` where HEAD is detached, an operation is in
progress or the source branch is missing. `Activate` is `findDirtyTargetRepos`,
which takes a repository in which git fails for a clean one: `overlooked[t]` remembers
the dirty repositories it has missed. `Check` is `evaluatePreconditions` for the
repository `at`; `Apply`/`ApplyFails` are `stageBranchPatch`; `Staged` and
`StagedNothing` the look at `git diff --cached`; `Clear` and `Cleared` the clean-up of a
patch that changed nothing; `Undo`, `Undone`, `UndoFails` one turn of
`rollbackFailedAndStarted`, which goes through the staged repositories backwards and
throws at the end; `Archive` the handoff metadata and the archive. Between any two git
calls the operator may edit, commit, merge, reset, or detach HEAD. A closeout that throws
leaves its task "thrown": the exit handler fails it, or the operator completes it again
with `complete-active-item`. All tasks bind the same repositories, one binding each.
Closeouts with auto-merge disabled, and those of child chains, stage nothing and are left
out. An attempt after a retry is modelled under the same name.

## 3. Runs

| Run | Instance | Shows |
|---|---|---|
| `dir_lock` | 3 clients in 2 processes, 2 attempts, one crash, any timing; 33,682 states | `ExclusiveUnlessStrayed`, `DirectoryKeptUnlessStrayed`, `LockInv`, `AbandonedIsReclaimed`, refinement of `QueueLock` until a client strays. |
| `dir_lock_reclaim_race` | the same with `PromptWrite`, safety | Violation of `MutualExclusion`: two clients hold the lock (finding 1). |
| `queue_one_slot` | 2 tasks, 1 slot, any 2 faults of all 8 kinds, 1 move by the operator, failed worktrees retained | `QueueInv`, `NoTaskLost`, `CompletedIsArchived`, `UnmovedDisposedOnce`, `CompletedSlotIsResumed`, `SlotInv`, `UnmovedAreListed`, `UnmovedFollowLifecycle`; 1.05 million states. |
| `queue_two_slots` | 3 tasks, 2 slots, any 1 fault; 233 thousand states | `ActiveCap`, `RunningPipelineOwnsItsSlot`. |
| `queue_retry` | 2 ids, 1 slot, a failing agent, 1 move by the operator, failed worktrees retained, fairness; 79 thousand states | `ActiveTaskEnds`, `QueueDrains`, and the lifecycle of requeued and reopened tasks. |
| `queue_stale_exit` | the same, safety | Violation of `DisposedOnce` (finding 2). |
| `queue_retry_registry` | the same, safety | Violation of `RunningIsRegistered` (finding 3). |
| `queue_orphan` | 2 tasks, one closeout failure, fairness | Violation of `ActiveTaskEnds` (finding 4). |
| `kill` | 1 task, activated by the desktop or by a peer, any 2 faults of 6 kinds, 2 moves by the operator, fairness; 32,592 states | `KillInv`, `StoppedBeforeCleanup`, `NoPipelineForFailedTask`, `StoppedTaskHasAnOwner`, `NoLockInversion`, `RequestOutlivesTask`, `KilledFollowsLifecycle`, `KillTakesEffect`. |
| `chain` | root and 3 tasks, any fault of 4 kinds, 1 move of a failed task; 1.4 million states | `ChainInv`, `CompletedWorkStays`, `TipIsReachable`, refinement of `ChainLog`. |
| `agent` | all role runs, 3 remediation cycles as in the code, any 2 faults of 6 kinds, fairness; 311 thousand states | `RunInv`, `ClosedOnReviewOfTheWork`, `FailedRemediationKeepsFindings`, `KilledBeforeReviewNeverCompletes`, `AbortLeavesNoAgent`, `PipelineEnds`. |
| `auto_merge` | 2 tasks sharing 2 repositories, any 2 faults of 4 kinds (git, in the activation too), 3 moves of the operator; 3.2 million states | `MergeInv`, `OneTaskPerIndex`, `ArchiveTellsTheTruth`, `RollbackTakesOnlyItsOwn`. |

Bounds. Two tasks give every pairing of one task's end with the next one's
activation and every pairing of main process, pipeline and exit handler on one
task. Two faults are a fault and another during its recovery; the move in between or
after brings a task back for another attempt, or as a new id, beside one that was not
moved. Two slots need a third task to compete for them. For the lock, three clients are a
dead holder and two reclaimers, and two processes put two of them in one process,
where owner checks cannot tell them apart. `NoTask` is not a task. Runs without
liveness use symmetry over the tasks. Deadlock is not checked where the system may
stop: an idle queue, an ended pipeline, a chain whose tasks are done, an operator who
does nothing more.

The kill protocol is about one task, so one is enough; two faults are a failing stop
and one more during its clean-up, and two moves bring the task back for a second
attempt while something of the first is left. Three chain tasks are a completed one, an open
one on top of it and one that may be planned beside it or after it. Three cycles are
the constant of the sequencer. Two repositories are the smallest case with something
staged when a later one fails, and two tasks the smallest with somebody else's patch;
three moves let the operator come before a check, between check and rollback, and
between two attempts.

`queue_retry` leaves out crashes and closeout failures: with a closeout failure
`ActiveTaskEnds` does not hold (that is `queue_orphan`), and after a crash the
leftover `pipeline.lock` makes the recovery controller wait for ever. `QueueDrains`
is about what happens up to the operator's first move of a failed task: a task that is
reopened and swept into the queue before its old workspace is discarded ends the
activation for the tasks behind it, and the discard activates nothing.

Fairness. `FairSpec` of `DirLock` gives each live client its next step (callers
poll) and lets time pass. `FairSpec` of `TaskQueue` gives each thread its next step
(an event loop runs continuations), the recovery controller its interval
(`setInterval` in `E/app/recovery.ts`), and lets a stopped desktop be started
again. Faults and operator actions are never fair. Weak fairness is enough: the
lock is free again and again, and where a thread could be overtaken for ever the
number of tasks bounds the overtaking. `FairSpec` of `KillProtocol` lets activation,
pipeline, exit handler and clean-up go on and their grace periods end; nothing is
assumed of agents, who may work for ever, of the operator, or of the next activation.
`FairSpec` of `PipelineRun` lets the pipeline go on and its timers fire, and SIGKILL
end an agent (the kernel does that); an agent need neither end by itself nor heed
SIGTERM.

### Exceptions the properties name

Where the code does not give a property without an exception, the property says so,
and is checked with exactly that exception:

* `ExclusiveUnlessStrayed`, `DirectoryKeptUnlessStrayed`, `LockInv`, `ImplementsQueueLock`: what
  comes after a client has strayed (finding 1).
* `UnmovedDisposedOnce`, `CompletedSlotIsResumed`, `RunningPipelineOwnsItsSlot`, `SlotInv`,
  `UnmovedAreListed`, `UnmovedFollowLifecycle`: tasks the operator has moved after they failed (`moved`).
  Findings 2 and 3 and the sweep of section 4 are the reasons. The exception is by task: others
  may be moved as often as one likes.
* `KillTakesEffect`: a request that is left to an activation whose last checkpoint has
  passed (`killTask.ts:573`, see section 4).
* `StoppedTaskHasAnOwner`: tasks whose pipeline another pipeline forked; finding 4 is
  about those.
* `TipIsReachable`: a tip that was archived by a resumed closeout, or went on under a
  retry id.
* `ClosedOnReviewOfTheWork`: the closeout documents are reset once, when the first
  review blocks; from the second cycle on those of an earlier cycle serve.
* `FailedRemediationKeepsFindings`: a failure between the clearing of the findings and
  the revalidation.
* `KilledBeforeReviewNeverCompletes`: from QA on an abort may meet a greedy stop, a
  remediation cycle or the closeout repair, which do not notice it.
* `AbortLeavesNoAgent`: the agents of the remediation loop get no abort signal.
* `PipelineEnds`: an agent that a signal ends before its session listens.
* `RollbackTakesOnlyItsOwn`: changes the operator makes in a repository between its
  check and its rollback are lost.
* `ArchiveTellsTheTruth`: a task completed again after its closeout has thrown finds its
  own patch, takes it for a dirty repository and is archived as skipped. So does an attempt
  for whose activation `git status` has failed in a repository with a patch of an earlier
  attempt (`overlooked`; `MergeInv` has the same exception).
* Not caught by any property, as the code gives nothing to promise: that somebody takes
  a patch back that a failed closeout has left in an index, and that a kill after QA
  keeps the task from completing.

## 4. Findings

1. `dirLock.ts`: between reading a dead owner and removing the directory another
   client may have reclaimed and acquired the lock; two clients are then inside.
2. `errorItems.ts`: the terminal-ownership gate compares files of an id. A task
   that was reopened and promoted under the same id before its old exit handler
   ran is failed a second time. (`moveErrorItemToDropbox` is documented to give
   a new id on promotion; `queueNameForSource` keeps generated names.)
3. `errorItems.ts`: the retry id of a requeued task is never registered, although
   two comments say activation does that.
4. `sequencer.ts`/`pipelineSupervisor.ts`: the closeout failure of a pipeline that
   another pipeline forked is handled by nobody; task and slot stay active. (The recovery
   controller fails such a task only when one of its role sessions is failed or orphaned;
   when all of them have completed, as before an ordinary closeout, it does not.)

Smaller disagreements without a run: the comment of `tryReclaimStaleLock` says a
missing owner file leaves the lock alone, while an old directory without one is
removed; `repairQueue.ts:128` says the pending file is deleted after activation,
while `operations.ts:1563` keeps it; `errorItems.ts:679` says there is no automatic
promotion of reopened tasks, while publishing sweeps the whole dropbox
(with moves and crashes TLC finds a task that is reopened after its closeout was resumed,
and so queued again beside its completed registry entry);
`errorItems.ts:671` says a reopened task is promoted under a brand-new id, while
generated names are kept. A kill accepted after the last checkpoint of an activation
(`operations.ts:1499`) and before the fork has returned finds activation progress,
written again at `operations.ts:1507`, and is left to the activation
(`killTask.ts:573`), which does not look again: the task runs on under a request that
refuses a second kill. The test at `P/queue/__tests__/killTask.test.ts:232` says
"leaves the kill marker for activating-only tasks so the activation checkpoint handles
cleanup". When `git diff --cached` throws (`autoMerge.ts:97`), or a clean-up does
(`autoMerge.ts:101`), the repositories staged before are not rolled back, unlike after a
patch that does not apply; the same holds when the archive fails.

## 5. Proofs

All proofs are checked by TLAPS with Z3, Zenon and LS4; none rests on anything but the
named assumptions on constants (for the first two modules `DirLockAssumption` and
`QueueAssumption`).

* `DirLockProofs`, for any timing and any number of crashes: `LockInvariance`,
  `LockIsExclusive`, `HolderKeepsDirectory`, `LockRefinement`. `ExclusiveUnlessStrayed` is not
  inductive: one has to know that whoever created the directory is the only one between
  `mkdir` and `rm`, that its `owner.json` is still there, and that a reclaimer looks at
  a directory nobody alive has named, all of that of the clients that are not overtaken.
  `LockInv` says that. `ExclusiveUntilCrash` assumes
  `PromptWrite` alone: until the first process dies inside the lock, nobody reclaims a
  directory and both properties hold. Finding 1 needs what a crash has left behind.
* `TaskQueueProofs`, for every set of tasks, cap, mix of faults and bound:
  `QueueInvariance`, `ActiveCapInvariance`, `CompletedInvariance`, `NoTaskIsLost`. The
  inductive invariant is `QueueInv` with these properties. `ActiveCap` needs
  `RoomForMarker` (the cap check made at the start of the critical section still holds
  when the marker is written), which needs `LockDiscipline` (a thread is in a critical
  section exactly when it holds the lock). `CompletedIsArchived` and `NoTaskLost` need
  `ArchiveFirst` (past the archive step, or with an archived sentinel, the archive
  exists): completion removes the intake, so the archive must be there first. There is
  one lemma per conjunct and one step per action.
* `TaskQueueSlotProofs`, for every set of tasks, cap, mix of faults and bound, moves of
  the operator included: `SlotInvariance`, `PipelineOwnsSlot`, `ExitHandlerFindsNothing`,
  `CompletedSlots`, `QueueImplementsOwnLifecycle`. A task that is not moved is activated
  once, but for rollbacks, which leave it as they found it (`Fresh`). So at any time at
  most one of activation, pipeline, exit handler, recovery controller and resumed
  closeout works on it: `OwnTask` says which tasks a thread may work on, `StartHolds`,
  `PipelineHolds` and `EndHolds` what the files of a task say while somebody does, and
  `Over` what they say for good once its slot is free. `SlotInv` says this of each
  unmoved task on its own, so the proof takes one task at a time: an action on another
  task leaves what is said of it alone (`Frame`), and there is one step for each action
  on the task itself (`SlotStep`). What relates tasks is small: the threads' tasks
  (`OwnStep`), the history (`MovesStep`) and the ids not yet used, into which a retry
  puts a task (`UnissuedStep`). For the refinement each action is a stage change of the
  one task it is about (`LifeStep`); `NoTaskLost` and `SlotInv` exclude the moves the
  lifecycle does not have, such as from completed back to active. The exception for
  moved tasks is needed: a task that was moved is activated again while the exit handler
  of its first attempt may still run (finding 2). If the operator moves nothing
  (`MaxMoves = 0`) there are no such tasks, and `EveryDisposedOnce` and
  `QueueImplementsLifecycle` state `DisposedOnce` and `FollowsLifecycle` of all.
* `TaskQueueRegistryProofs`, in the same generality: `RegistryInvariance`. The registry is
  mostly written in a step of its own, after the files, so `UnmovedAreListed` says for
  each stage which entry there is; an `open` that a sweep has left may stand beside it.
  `SlotInv` says that nobody else works on the task between the two steps
  (`EntryAlone`), and the lock discipline that a repair does not come between them. With
  `MaxMoves = 0` it gives `EveryRunningIsRegistered`: finding 3 takes a requeue.
* `KillProtocolProofs`, for every mix of faults and every bound: `KillInvariance`,
  `StoppedFirst`, `NoneForFailed`, `LocksInOrder`, `OwnerInvariance`, `RequestOutlives`,
  `KillRefinement`.
  `StoppedTaskHasAnOwner` needs to know at each step who owns the pid map entry, whether
  the task still has its marker, and that an activation holds its claim from the first
  step to the end of the fork (`ActivationOwnsTask`, `ProcessSettles`,
  `EntryHasAnOwner`, `CleanupAnswers`). `KillRefinement` maps marker and intake to the
  stages of `TaskLifecycle`, as `TaskQueue` does, so both promise the same of a task;
  it needs that a task in its closeout has its marker and a failed one has none.
* `ChildChainProofs`, for every set of tasks: `ChainInvariance`,
  `CompletedWorkInvariance`, `TipStaysReachable`, `ChainRefinement`. A rollback resets
  the branch to a task's base, so `CompletedWorkStays` needs that bases hold all
  completed work (`BasesHold`), that one task at a time has a workspace, and that a
  closeout holds the queue lock over all its steps (`StagesHold`). The refinement maps
  the open tip, its parent and the completed tasks to `ChainLog`. `TipIsReachable` needs
  that sentinels are stamped after the archive (`StampedIsArchived`).
* `PipelineRunProofs`, for every number of cycles and faults: `RunInvariant`,
  `ClosedOnReview`, `FindingsAreKept`, `KilledNeverCompletes`, `NoAgentLeftBehind`. The
  invariant says which review and documents exist in which run, that no agent runs while
  the sequencer decides, and that an abort before QA is noticed at the latest before Ron
  is launched.
* `AutoMergeProofs`, for every set of tasks and number of repositories:
  `MergeInvariance`, `OneTask`, `TrueArchive`, `RollbackIsOwn`. The invariant says what
  an index may hold at each step: nothing foreign where the closeout has checked
  (`CheckedIsClean`), the patch exactly in the staged repositories going forward
  (`ForwardHolds`), and only in those that are left going back (`BackwardHolds`). A patch
  of the same task from an earlier attempt may be where its activation has overlooked it
  (`CloserIsActive`); mixing is excluded all the same, because the closeout checks again
  under the queue lock.

Assumptions are the named ones on constants in each module (`KillAssumption`,
`ChainAssumption`, `RunAssumption`, `MergeAssumption`), which say no more than what the
constants are.

Only model-checked among the safety properties: `FollowsLifecycle` when the operator
does move tasks, for one move and a failing agent (`queue_retry`). Liveness (`AbandonedIsReclaimed`, `ActiveTaskEnds`, `QueueDrains`,
`KillTakesEffect`, `PipelineEnds`) is beyond the prover and stays with TLC.

## 6. Plan

Done: the directory lock, the task queue with its lifecycle, the kill protocol, child
chains, the pipeline run with its agents, auto-merge, each with proofs. What is left, in
this order:

1. Startup recovery of the desktop and deferred starts over `pidMap` and `startingMap`.
2. The planner's publishing: name collisions in `pendingitems/`, doubled registry
   entries, the order manifest, and the board's reads of them.
3. Retention eviction and runtime GC against discard; the lock budget of
   `closeoutLockBudget.ts`.
4. Terminal events and notifications: ordered append under the file lock.
5. Shared MCP bootstrap; agent-extension reconcile.
6. The repair command of a stuck closeout in `ChildChain`, with the chain's advance; a second
   repository per task there, for rollbacks that fail half-way.

## 7. Not modelled

Prompt building, policy content, repository and context-pack resolution, git itself,
the containers' contents and the user interface are data or external. They are most
of the source: the models are about the part of the control plane that several
processes share. The Python
services and scripts take no part in the protocols above. Components that are
planned are listed as such in `PROJECT.json`.
