---------------------------- MODULE TaskQueue ----------------------------
(***************************************************************************)
(* The task queue of platform/queue with the pipeline processes of         *)
(* platform/agent-runner that drive it.                                    *)
(*                                                                         *)
(* All durable state is files: the intake of a task in dropbox/,           *)
(* pendingitems/ or error-items/, its active marker, its .completing       *)
(* sentinel, its archive record, its registry entry, its workspace         *)
(* (tasks/<id>/.task.json) and its pipeline.lock.  Three kinds of thread   *)
(* change it: the desktop's main process (operator actions and the         *)
(* recovery controller), one pipeline child process per task, and the exit *)
(* handler the process that forked a child runs when the child ends.  Each *)
(* of them activates the next task when its own job is over, so a child    *)
(* forks the next child.  File operations that another thread or a crash   *)
(* can separate are separate steps; the queue lock is that of QueueLock.   *)
(***************************************************************************)
EXTENDS Naturals, FiniteSets

CONSTANTS
  Task,          \* task ids
  NoTask,        \* not a task id
  MaxParallel,   \* max_parallel_tasks, the cap on active tasks
  RetainFailed,  \* retain_failed_task_worktrees
  Faults,        \* the kinds of fault that may happen
  MaxFaults,     \* bound on the faults of one behaviour
  MaxMoves       \* bound on the moves of failed tasks by the operator

FaultKind == {"agent", "closeout", "dirty", "conflict", "activate", "spawn", "die", "crash"}

ASSUME QueueAssumption ==
  /\ NoTask \notin Task
  /\ IsFiniteSet(Task)
  /\ MaxParallel \in Nat \ {0}
  /\ RetainFailed \in BOOLEAN
  /\ Faults \subseteq FaultKind
  /\ MaxFaults \in Nat
  /\ MaxMoves \in Nat

VARIABLES
  place,      \* the directories that hold the intake markdown of each task
  marker,     \* tasks with a marker in .active-items/
  sentinel,   \* the .completing sentinel: "none", "started", "archived"
  archived,   \* tasks with an archive record
  reg,        \* the states under which the registry lists each task
  workspace,  \* tasks/<id>/: "none", the state in its .task.json, or "partial"
              \* for what an activation that threw has left
  plock,      \* tasks with a pipeline.lock directory
  evidence,   \* tasks whose pipeline left runtime files since they were activated
  discarding, \* tasks whose retained workspace the operator's move has yet to discard
  issued,     \* task ids in use
  superseded, \* failed tasks the operator has requeued, under a new id
  lock,       \* the holder of the queue lock
  pc, arg,    \* where each thread is, and on which task
  code,       \* the exit code a pipeline process is going to end with
  parent,     \* "main" when the main process waits for the exit of a task's pipeline
  up,         \* the main process runs
  redriven,   \* threads that have used their one retry after a rolled back activation
  disposed,   \* tasks whose latest pipeline has itself completed or failed them
  moved,      \* failed tasks the operator has reopened or requeued, ever
  faults, moves

fileVars    == <<place, marker, sentinel, archived, reg, workspace, plock, evidence>>
processVars == <<parent, up, issued, superseded, discarding, disposed>>
boundVars   == <<faults, moves, moved>>
vars == <<fileVars, processVars, boundVars, lock, pc, arg, code, redriven>>

Main    == <<"main", NoTask>>
Pipe(t) == <<"pipe", t>>
Exit(t) == <<"exit", t>>
Nobody  == <<"nobody", NoTask>>
Thread  == {Main} \cup {Pipe(t) : t \in Task} \cup {Exit(t) : t \in Task}
IsPipe(th) == th[1] = "pipe"

Dir      == {"dropbox", "pending", "error"}
RegState == {"open", "pending", "active", "failed", "completed"}

\* Places inside a critical section, and places outside.
LockedAt == {"actPick", "actClaim", "actMark", "actRegister", "rbMarker",
             "closeVerify", "closeArchive", "closeMerge", "closePending", "closeMarker",
             "closeRegister", "closeEnd", "failRename", "failRegister", "failMarker",
             "resRegister", "resPending", "resMarker", "resEnd"}
FreeAt   == {"idle", "boot", "bootFailed", "work", "unlock", "closeLock", "failLock",
             "exitResume", "resLock", "actScan", "actLock", "actStart", "rbLock", "discard"}

TypeOK ==
  /\ place \in [Task -> SUBSET Dir]
  /\ marker \subseteq Task
  /\ sentinel \in [Task -> {"none", "started", "archived"}]
  /\ archived \subseteq Task
  /\ reg \in [Task -> SUBSET RegState]
  /\ workspace \in [Task -> {"none", "partial", "active", "failed"}]
  /\ plock \subseteq Task /\ evidence \subseteq Task
  /\ discarding \subseteq Task /\ disposed \subseteq Task
  /\ issued \subseteq Task /\ superseded \subseteq Task /\ moved \subseteq Task
  /\ lock \in Thread \cup {Nobody}
  /\ pc \in [Thread -> LockedAt \cup FreeAt]
  /\ arg \in [Thread -> Task \cup {NoTask}]
  /\ code \in [Task -> {0, 1, 78}]
  /\ parent \in [Task -> {"main", "none"}]
  /\ up \in BOOLEAN
  /\ redriven \subseteq Thread
  /\ faults \in 0..MaxFaults /\ moves \in 0..MaxMoves

Init ==
  /\ place = [t \in Task |-> {}]
  /\ marker = {} /\ archived = {} /\ plock = {} /\ evidence = {}
  /\ sentinel = [t \in Task |-> "none"]
  /\ reg = [t \in Task |-> {}]
  /\ workspace = [t \in Task |-> "none"]
  /\ discarding = {} /\ issued = {} /\ superseded = {} /\ disposed = {}
  /\ lock = Nobody
  /\ pc = [th \in Thread |-> "idle"]
  /\ arg = [th \in Thread |-> NoTask]
  /\ code = [t \in Task |-> 0]
  /\ parent = [t \in Task |-> "none"]
  /\ up = TRUE
  /\ redriven = {}
  /\ faults = 0 /\ moves = 0 /\ moved = {}

--------------------------------------------------------------------------
\* Helpers

At(th, l)   == pc[th] = l
Goto(th, l) == pc' = [pc EXCEPT ![th] = l]
Item(th, t) == arg' = [arg EXCEPT ![th] = t]

\* A mutant: the lock is taken whoever holds it.
AcquireBusy(th) == lock' = th
Acquire(th) == lock = Nobody /\ lock' = th
Release     == lock' = Nobody

\* The thread's activation is over: a pipeline process goes on to end, the
\* others are free again.
Rest(th)    == IF IsPipe(th) THEN "unlock" ELSE "idle"
Finish(th)  == Goto(th, Rest(th)) /\ Item(th, NoTask) /\ redriven' = redriven \ {th}

Move(t, from, to) == place' = [place EXCEPT ![t] = (@ \ {from}) \cup {to}]

\* transitionTask: nothing happens when the task is not listed under `from`.
Transit(r, t, from, to) ==
  IF from \in r[t] THEN [r EXCEPT ![t] = (@ \ {from}) \cup {to}] ELSE r

Fault(f)  == f \in Faults /\ faults < MaxFaults /\ faults' = faults + 1 /\ UNCHANGED <<moves, moved>>
ByOperator(t) ==
  moves < MaxMoves /\ moves' = moves + 1 /\ moved' = moved \cup {t} /\ UNCHANGED faults

\* A mutant: one task too many.
HasSlotPlusOne == Cardinality(marker) <= MaxParallel
HasSlot == Cardinality(marker) < MaxParallel

Candidates(th) ==
  {t \in Task : /\ "pending" \in place[t] /\ t \notin marker
                /\ At(Pipe(t), "idle") \/ (~IsPipe(th) /\ parent[t] = "main")}

--------------------------------------------------------------------------
\* Activation: activateNextPendingItemIfReady

\* A mutant: a sentinel without the archive record will do.
ResumableEarly(t) == sentinel[t] # "none"
Resumable(t) == sentinel[t] = "archived"

\* Before it takes the lock, an activation resumes every closeout that has its
\* archive and was left with its sentinel (resumeOrphanCompletingSentinels).
ActScan(th) ==
  /\ At(th, "actScan")
  /\ \/ \E t \in Task : Resumable(t) /\ Item(th, t) /\ Goto(th, "resLock")
     \/ (\A t \in Task : ~Resumable(t)) /\ Goto(th, "actLock") /\ UNCHANGED arg
  /\ UNCHANGED <<fileVars, processVars, boundVars, lock, code, redriven>>

ActLock(th) ==
  /\ At(th, "actLock") /\ lock = Nobody
  /\ \/ HasSlot /\ Acquire(th) /\ Goto(th, "actPick") /\ UNCHANGED <<arg, redriven>>
     \/ ~HasSlot /\ Finish(th) /\ UNCHANGED lock
  /\ UNCHANGED <<fileVars, processVars, boundVars, code>>

ActPick(th) ==
  /\ At(th, "actPick")
  /\ \/ \E t \in Candidates(th) : Item(th, t) /\ Goto(th, "actClaim") /\ UNCHANGED <<lock,
                                                                                     redriven>>
     \/ Candidates(th) = {} /\ Finish(th) /\ Release
  /\ UNCHANGED <<fileVars, processVars, boundVars, code>>

\* handoffWorkspaceIsReady: leftovers of an earlier attempt under the same id end
\* the activation; tasks behind this one are not looked at.
Ready(t) == workspace[t] = "none"

ActNotReady(th) ==
  /\ At(th, "actClaim") /\ ~Ready(arg[th])
  /\ Finish(th) /\ Release
  /\ UNCHANGED <<fileVars, processVars, boundVars, code>>

\* failPendingActivationForDirtyRepos
ActDirty(th) ==
  LET t == arg[th] IN
  /\ At(th, "actClaim") /\ Ready(t) /\ Fault("dirty")
  /\ Move(t, "pending", "error")
  /\ reg' = Transit(reg, t, "pending", "failed")
  /\ Finish(th) /\ Release
  /\ UNCHANGED <<marker, sentinel, archived, workspace, plock, evidence, processVars, code>>

\* returnPendingTaskToOpenForBranchConflict: the loop goes on with the next task.
ActConflict(th) ==
  LET t == arg[th] IN
  /\ At(th, "actClaim") /\ Ready(t) /\ Fault("conflict")
  /\ Move(t, "pending", "dropbox")
  /\ reg' = Transit(reg, t, "pending", "open")
  /\ Goto(th, "actPick") /\ Item(th, NoTask)
  /\ UNCHANGED <<marker, sentinel, archived, workspace, plock, evidence, processVars, lock,
                 code, redriven>>

\* An exception before the marker is written.  In a closeout it ends the
\* pipeline with the closeout failure code.
ActThrow(th) ==
  LET t == arg[th] IN
  /\ At(th, "actClaim") /\ Ready(t) /\ Fault("activate")
  /\ workspace' \in {workspace, [workspace EXCEPT ![t] = "partial"]}
  /\ code' = IF IsPipe(th) /\ code[th[2]] = 0 THEN [code EXCEPT ![th[2]] = 78] ELSE code
  /\ Finish(th) /\ Release
  /\ UNCHANGED <<place, marker, sentinel, archived, reg, plock, evidence, processVars>>

\* Worktrees, workspace and handoff artifacts are made before the marker.
ActClaim(th) ==
  LET t == arg[th] IN
  /\ At(th, "actClaim") /\ Ready(t)
  /\ workspace' = [workspace EXCEPT ![t] = "active"]
  /\ Goto(th, "actMark")
  /\ UNCHANGED <<place, marker, sentinel, archived, reg, plock, evidence,
                 processVars, boundVars, lock, arg, code, redriven>>

ActMark(th) ==
  LET t == arg[th] IN
  /\ At(th, "actMark")
  /\ marker' = marker \cup {t}
  /\ evidence' = evidence \ {t}
  /\ Goto(th, "actRegister")
  /\ UNCHANGED <<place, sentinel, archived, reg, workspace, plock, processVars, boundVars,
                 lock, arg, code, redriven>>

ActRegister(th) ==
  LET t == arg[th] IN
  /\ At(th, "actRegister")
  /\ reg' = Transit(reg, t, "pending", "active")
  /\ Goto(th, "actStart") /\ Release
  /\ UNCHANGED <<place, marker, sentinel, archived, workspace, plock, evidence,
                 processVars, boundVars, arg, code, redriven>>

\* startPipeline forks the child in the process that activated the task; that
\* process alone learns of its exit.  A pipeline process ends right after.
ActStart(th) ==
  LET t == arg[th] IN
  /\ At(th, "actStart")
  /\ \/ /\ At(Pipe(t), "idle")
        /\ pc' = [pc EXCEPT ![Pipe(t)] = "boot", ![th] = Rest(th)]
        /\ parent' = [parent EXCEPT ![t] = IF IsPipe(th) THEN "none" ELSE "main"]
        /\ code' = [code EXCEPT ![t] = 0]
        /\ disposed' = disposed \ {t}
        /\ arg' = [arg EXCEPT ![th] = NoTask, ![Pipe(t)] = t]
        /\ redriven' = redriven \ {th}
     \/ \* already-running: the previous child of the task has not exited yet
        /\ ~At(Pipe(t), "idle") /\ ~IsPipe(th) /\ parent[t] = "main"
        /\ Finish(th) /\ UNCHANGED <<parent, code, disposed>>
  /\ UNCHANGED <<fileVars, boundVars, lock, up, issued, superseded, discarding>>

\* The shared MCP bootstrap or the fork fails: rollbackActivationClaim.
ActStartFails(th) ==
  /\ At(th, "actStart") /\ Fault("spawn")
  /\ Goto(th, "rbLock")
  /\ UNCHANGED <<fileVars, processVars, lock, arg, code, redriven>>

RollbackWorkspace(th) ==
  /\ At(th, "rbLock") /\ Acquire(th)
  /\ workspace' = [workspace EXCEPT ![arg[th]] = "none"]
  /\ Goto(th, "rbMarker")
  /\ UNCHANGED <<place, marker, sentinel, archived, reg, plock, evidence,
                 processVars, boundVars, arg, code, redriven>>

\* One redrive; in a pipeline process the exit cuts it off.
RollbackMarker(th) ==
  LET t == arg[th] IN
  /\ At(th, "rbMarker")
  /\ marker' = marker \ {t}
  /\ reg' = Transit(reg, t, "active", "pending")
  /\ Release
  /\ IF IsPipe(th) \/ th \in redriven
     THEN Finish(th)
     ELSE Goto(th, "actScan") /\ redriven' = redriven \cup {th} /\ Item(th, NoTask)
  /\ UNCHANGED <<place, sentinel, archived, workspace, plock, evidence, processVars,
                 boundVars, code>>

--------------------------------------------------------------------------
\* The pipeline process: runPipelineSequence up to its closeout

\* acquirePipelineLock throws on an existing directory, before anything else.
PipeBoot(t) ==
  /\ At(Pipe(t), "boot")
  /\ \/ /\ t \notin plock
        /\ plock' = plock \cup {t} /\ evidence' = evidence \cup {t}
        /\ Goto(Pipe(t), "work") /\ UNCHANGED code
     \/ /\ t \in plock
        /\ code' = [code EXCEPT ![t] = 1]
        /\ Goto(Pipe(t), "bootFailed") /\ UNCHANGED <<plock, evidence>>
  /\ UNCHANGED <<place, marker, sentinel, archived, reg, workspace, processVars, boundVars,
                 lock, arg, redriven>>

\* The agents are done: closeout starts.
PipeDone(t) ==
  /\ At(Pipe(t), "work")
  /\ Goto(Pipe(t), "closeLock")
  /\ UNCHANGED <<fileVars, processVars, boundVars, lock, arg, code, redriven>>

\* An agent fails: handlePipelineFailure moves the task from within the child.
PipeFails(t) ==
  /\ At(Pipe(t), "work") /\ Fault("agent")
  /\ code' = [code EXCEPT ![t] = 1]
  /\ Goto(Pipe(t), "failLock")
  /\ UNCHANGED <<fileVars, processVars, lock, arg, redriven>>

\* handleChildExit, which runs in the main process only, and only for a child
\* the main process forked.  A pipeline forked by another pipeline has nobody
\* waiting for it.
ExitSeen(t) == up /\ parent[t] = "main"
Handle(t, exitCode) ==
  IF ExitSeen(t) /\ exitCode # 0
  THEN /\ At(Exit(t), "idle")
       /\ pc' = [pc EXCEPT ![Pipe(t)] = "idle",
                           ![Exit(t)] = IF exitCode = 78 THEN "exitResume" ELSE "failLock"]
       /\ arg' = [arg EXCEPT ![Pipe(t)] = NoTask, ![Exit(t)] = t]
  ELSE Goto(Pipe(t), "idle") /\ Item(Pipe(t), NoTask)

\* The pipeline process releases pipeline.lock and exits.
PipeExit(t) ==
  /\ \/ At(Pipe(t), "unlock") /\ plock' = plock \ {t}
     \/ At(Pipe(t), "bootFailed") /\ UNCHANGED plock
  /\ Handle(t, code[t])
  /\ parent' = [parent EXCEPT ![t] = "none"]
  /\ UNCHANGED <<place, marker, sentinel, archived, reg, workspace, evidence,
                 up, issued, superseded, discarding, disposed, boundVars, lock, code, redriven>>

\* The process is killed or crashes: its queue lock is reclaimed (DirLock), its
\* pipeline.lock stays, and the exit counts as a failure.
PipeDies(t) ==
  /\ ~At(Pipe(t), "idle") /\ Fault("die")
  /\ Handle(t, 1)
  /\ lock' = IF lock = Pipe(t) THEN Nobody ELSE lock
  /\ parent' = [parent EXCEPT ![t] = "none"]
  /\ redriven' = redriven \ {Pipe(t)}
  /\ UNCHANGED <<fileVars, up, issued, superseded, discarding, disposed, code>>

--------------------------------------------------------------------------
\* Closeout: completePendingItem, in the pipeline process of the task

CloseStep(t, from, to) == At(Pipe(t), from) /\ Goto(Pipe(t), to)

CloseLock(t) ==
  /\ CloseStep(t, "closeLock", "closeVerify") /\ Acquire(Pipe(t))
  /\ UNCHANGED <<fileVars, processVars, boundVars, arg, code, redriven>>

\* A mutant: closeout goes on without the archive.
CloseVerifyOnly(t) ==
  /\ CloseStep(t, "closeVerify", "closePending")
  /\ UNCHANGED <<fileVars, processVars, boundVars, lock, arg, code, redriven>>

\* Branches verified: the sentinel is written unless a previous run left one.
CloseVerify(t) ==
  /\ CloseStep(t, "closeVerify", "closeArchive")
  /\ sentinel' = IF sentinel[t] = "none" THEN [sentinel EXCEPT ![t] = "started"] ELSE sentinel
  /\ UNCHANGED <<place, marker, archived, reg, workspace, plock, evidence,
                 processVars, boundVars, lock, arg, code, redriven>>

CloseArchive(t) ==
  /\ CloseStep(t, "closeArchive", "closeMerge")
  /\ archived' = archived \cup {t}
  /\ UNCHANGED <<place, marker, sentinel, reg, workspace, plock, evidence,
                 processVars, boundVars, lock, arg, code, redriven>>

\* The sentinel records that the archive is there.
CloseMerge(t) ==
  /\ CloseStep(t, "closeMerge", "closePending")
  /\ sentinel' = [sentinel EXCEPT ![t] = "archived"]
  /\ UNCHANGED <<place, marker, archived, reg, workspace, plock, evidence,
                 processVars, boundVars, lock, arg, code, redriven>>

\* completeActiveItem: the intake goes only while the marker is there.
CompleteItem(t) ==
  place' = IF t \in marker THEN [place EXCEPT ![t] = @ \ {"pending"}] ELSE place

ClosePending(t) ==
  /\ CloseStep(t, "closePending", "closeMarker")
  /\ CompleteItem(t)
  /\ UNCHANGED <<marker, sentinel, archived, reg, workspace, plock, evidence,
                 processVars, boundVars, lock, arg, code, redriven>>

\* Worktrees are finalized and the marker goes.
CloseMarker(t) ==
  /\ CloseStep(t, "closeMarker", "closeRegister")
  /\ marker' = marker \ {t}
  /\ workspace' = IF t \in marker THEN [workspace EXCEPT ![t] = "none"] ELSE workspace
  /\ disposed' = disposed \cup {t}
  /\ UNCHANGED <<place, sentinel, archived, reg, plock, evidence, parent, up, issued,
                 superseded, discarding, boundVars, lock, arg, code, redriven>>

CloseRegister(t) ==
  /\ CloseStep(t, "closeRegister", "closeEnd")
  /\ reg' = Transit(reg, t, "active", "completed")
  /\ UNCHANGED <<place, marker, sentinel, archived, workspace, plock, evidence,
                 processVars, boundVars, lock, arg, code, redriven>>

CloseEnd(t) ==
  /\ CloseStep(t, "closeEnd", "actScan")
  /\ sentinel' = [sentinel EXCEPT ![t] = "none"]
  /\ Release
  /\ UNCHANGED <<place, marker, archived, reg, workspace, plock, evidence,
                 processVars, boundVars, arg, code, redriven>>

\* A step throws: the policy check or the lock, the branch verification or the staging
\* (before the sentinel is written), the archive, the mark in the sentinel, the removal of
\* the intake, or a later one.  The child does not move the task: it exits with code 78.
CloseThrows(t) ==
  /\ pc[Pipe(t)] \in {"closeLock", "closeVerify", "closeArchive", "closeMerge",
                      "closePending", "closeMarker"}
  /\ Fault("closeout")
  /\ Goto(Pipe(t), "unlock")
  /\ code' = [code EXCEPT ![t] = 78]
  /\ lock' = IF lock = Pipe(t) THEN Nobody ELSE lock
  /\ UNCHANGED <<fileVars, processVars, arg, redriven>>

Closeout(t) ==
  \/ CloseLock(t) \/ CloseVerify(t) \/ CloseArchive(t) \/ CloseMerge(t) \/ ClosePending(t)
  \/ CloseMarker(t) \/ CloseRegister(t) \/ CloseEnd(t)

--------------------------------------------------------------------------
\* Failure: moveFailedItemToErrorItems

\* A task without marker and without pending intake was disposed of already.
\* Mutants: the gate is not there; an intake still pending closes it.
UndisposedAlways(t) == TRUE
UndisposedWithoutIntake(t) == t \in marker /\ "pending" \notin place[t]
Undisposed(t) == t \in marker \/ "pending" \in place[t]

FailLock(th) ==
  LET t == arg[th] IN
  /\ At(th, "failLock") /\ lock = Nobody
  /\ \/ /\ Undisposed(t)
        /\ Acquire(th)
        /\ plock' = plock \ {t}
        /\ workspace' = [workspace EXCEPT ![t] = IF RetainFailed THEN "failed" ELSE "none"]
        /\ Goto(th, "failRename") /\ UNCHANGED <<arg, redriven>>
     \/ /\ ~Undisposed(t)
        /\ Finish(th) /\ UNCHANGED <<lock, plock, workspace>>
  /\ UNCHANGED <<place, marker, sentinel, archived, reg, evidence, processVars, boundVars, code>>

\* A missing intake is rebuilt from the handoffs.  A mutant: the pending intake
\* stays.
CopyIntake(t) == place' = [place EXCEPT ![t] = @ \cup {"error"}]
FailIntake(t) == Move(t, "pending", "error")

FailRename(th) ==
  /\ At(th, "failRename")
  /\ FailIntake(arg[th])
  /\ Goto(th, "failRegister")
  /\ UNCHANGED <<marker, sentinel, archived, reg, workspace, plock, evidence,
                 processVars, boundVars, lock, arg, code, redriven>>

FailRegister(th) ==
  /\ At(th, "failRegister")
  /\ reg' = Transit(reg, arg[th], "active", "failed")
  /\ Goto(th, "failMarker")
  /\ UNCHANGED <<place, marker, sentinel, archived, workspace, plock, evidence,
                 processVars, boundVars, lock, arg, code, redriven>>

\* activateNextPendingItemIfReady ends the failure and the resumed closeout.
\* A mutant: the queue is not advanced.
AdvanceNot(th) == Goto(th, Rest(th))
Advance(th) == Goto(th, "actScan")

FailMarker(th) ==
  LET t == arg[th] IN
  /\ At(th, "failMarker")
  /\ marker' = marker \ {t}
  /\ disposed' = IF th = Pipe(t) THEN disposed \cup {t} ELSE disposed
  /\ Advance(th) /\ Release
  /\ UNCHANGED <<place, sentinel, archived, reg, workspace, plock, evidence,
                 parent, up, issued, superseded, discarding, boundVars, arg, code, redriven>>

--------------------------------------------------------------------------
\* Resumed closeout: resumeCloseoutFromSentinel

\* Under the lock the sentinel is read again.  An orphan scan goes on when it is
\* gone; the exit handler then fails the task.
ResLock(th) ==
  LET t == arg[th] IN
  /\ \/ /\ pc[th] \in {"resLock", "exitResume"} /\ Resumable(t)
        /\ Acquire(th) /\ Goto(th, "resRegister")
     \/ /\ At(th, "resLock") /\ ~Resumable(t) /\ lock = Nobody
        /\ Goto(th, "actScan") /\ UNCHANGED lock
     \/ /\ At(th, "exitResume") /\ ~Resumable(t)
        /\ Goto(th, "failLock") /\ UNCHANGED lock
  /\ UNCHANGED <<fileVars, processVars, boundVars, arg, code, redriven>>

\* The registry first, in contrast to completePendingItem.
ResRegister(th) ==
  LET t == arg[th] IN
  /\ At(th, "resRegister")
  /\ reg' = Transit(Transit(reg, t, "active", "completed"), t, "failed", "completed")
  /\ Goto(th, "resPending")
  /\ UNCHANGED <<place, marker, sentinel, archived, workspace, plock, evidence,
                 processVars, boundVars, lock, arg, code, redriven>>

\* A mutant: the sentinel goes first.
ResPendingNoSentinel(th) ==
  /\ At(th, "resPending")
  /\ CompleteItem(arg[th])
  /\ sentinel' = [sentinel EXCEPT ![arg[th]] = "none"]
  /\ Goto(th, "resMarker")
  /\ UNCHANGED <<marker, archived, reg, workspace, plock, evidence,
                 processVars, boundVars, lock, arg, code, redriven>>

ResPending(th) ==
  /\ At(th, "resPending")
  /\ CompleteItem(arg[th])
  /\ Goto(th, "resMarker")
  /\ UNCHANGED <<marker, sentinel, archived, reg, workspace, plock, evidence,
                 processVars, boundVars, lock, arg, code, redriven>>

ResMarker(th) ==
  LET t == arg[th] IN
  /\ At(th, "resMarker")
  /\ marker' = marker \ {t}
  /\ workspace' = [workspace EXCEPT ![t] = "none"]
  /\ Goto(th, "resEnd")
  /\ UNCHANGED <<place, sentinel, archived, reg, plock, evidence,
                 processVars, boundVars, lock, arg, code, redriven>>

ResEnd(th) ==
  /\ At(th, "resEnd")
  /\ sentinel' = [sentinel EXCEPT ![arg[th]] = "none"]
  /\ Advance(th) /\ Release
  /\ UNCHANGED <<place, marker, archived, reg, workspace, plock, evidence,
                 processVars, boundVars, arg, code, redriven>>

--------------------------------------------------------------------------
\* The main process: operator actions and the recovery controller

MainFree == up /\ At(Main, "idle")
MainGoes(l) == Goto(Main, l)

\* publishPendingItem: the new spec goes through dropbox/, and the sweep of
\* moveDropboxItemsOnce takes along whatever else is there.  registerTask adds
\* an entry and removes none.
Publish(u) ==
  LET swept == {t \in Task : "dropbox" \in place[t]} \cup {u} IN
  /\ MainFree /\ lock = Nobody /\ u \notin issued
  /\ issued' = issued \cup {u}
  /\ place' = [t \in Task |-> IF t \in swept THEN (place[t] \ {"dropbox"}) \cup {"pending"}
                                             ELSE place[t]]
  /\ reg' = [t \in Task |-> IF t \in swept THEN reg[t] \cup {"pending"} ELSE reg[t]]
  /\ MainGoes("actScan")
  /\ UNCHANGED <<marker, sentinel, archived, workspace, plock, evidence, parent, up,
                 superseded, discarding,
                 disposed, boundVars, lock, arg, code, redriven>>

\* moveDropboxItemToPending: a generated name is kept, so is the task id.
MoveToPending(t) ==
  /\ MainFree /\ lock = Nobody
  /\ "dropbox" \in place[t]
  /\ Move(t, "dropbox", "pending")
  /\ reg' = [reg EXCEPT ![t] = {"pending"}]
  /\ MainGoes("actScan")
  /\ UNCHANGED <<marker, sentinel, archived, workspace, plock, evidence, processVars, boundVars,
                 lock, arg, code, redriven>>

\* movePendingItemToDropbox, for a task that shows no sign of having started.
ReturnToOpen(t) ==
  /\ MainFree /\ lock = Nobody
  /\ "pending" \in place[t] /\ "dropbox" \notin place[t]
  /\ t \notin marker /\ workspace[t] = "none"
  /\ Move(t, "pending", "dropbox")
  /\ reg' = Transit(reg, t, "pending", "open")
  /\ UNCHANGED <<marker, sentinel, archived, workspace, plock, evidence, processVars, boundVars,
                 lock, pc, arg, code, redriven>>

\* requeueErrorItem: the intake goes on under a fresh -retryN id, which is not
\* registered; the failed task's entry is removed.
\* A mutant: the retry keeps the id.
RetryIntakeSameId(t, u) == [place EXCEPT ![t] = (@ \ {"error"}) \cup {"pending"}]
RetryIntake(t, u) == [place EXCEPT ![t] = @ \ {"error"}, ![u] = {"pending"}]

Requeue(t, u) ==
  /\ MainFree /\ lock = Nobody /\ ByOperator(t)
  /\ "error" \in place[t] /\ u \notin issued
  /\ issued' = issued \cup {u} /\ superseded' = superseded \cup {t}
  /\ place' = RetryIntake(t, u)
  /\ reg' = [reg EXCEPT ![t] = {}]
  /\ discarding' = discarding \cup {t}
  /\ MainGoes("discard") /\ Item(Main, t)
  /\ UNCHANGED <<marker, sentinel, archived, workspace, plock, evidence, parent, up, disposed,
                 lock, code, redriven>>

\* moveErrorItemToDropbox: same file name, same task id.
MoveToOpen(t) ==
  /\ MainFree /\ lock = Nobody /\ ByOperator(t)
  /\ "error" \in place[t]
  /\ Move(t, "error", "dropbox")
  /\ reg' = Transit(reg, t, "failed", "open")
  /\ sentinel' = [sentinel EXCEPT ![t] = "none"]
  /\ discarding' = discarding \cup {t}
  /\ UNCHANGED <<marker, archived, workspace, plock, evidence, parent, up, issued,
                 superseded, disposed,
                 lock, pc, arg, code, redriven>>

\* discardRetainedTaskWorktrees, after the lock is released: workspace and
\* runtime directory of the id go, whatever they hold by then.  A requeue then
\* activates.
Discard(t) ==
  /\ up /\ t \in discarding
  /\ pc' = IF At(Main, "discard") /\ arg[Main] = t THEN [pc EXCEPT ![Main] = "actScan"] ELSE pc
  /\ discarding' = discarding \ {t}
  /\ workspace' = [workspace EXCEPT ![t] = "none"]
  /\ plock' = plock \ {t} /\ evidence' = evidence \ {t}
  /\ UNCHANGED <<place, marker, sentinel, archived, reg, parent, up, issued, superseded,
                 disposed, boundVars,
                 lock, arg, code, redriven>>

\* Between marker and fork an activation is under way; the grace period of the
\* recovery controller (minutes) is longer than that.
\* A mutant: no grace period.
StartingNever(t) == FALSE
Starting(t) ==
  \/ ~At(Pipe(t), "idle")
  \/ \E th \in Thread :
       arg[th] = t /\ pc[th] \in {"actRegister", "actStart", "rbLock", "rbMarker"}

\* hasPipelineStartEvidence
NoStartEvidence(t) == t \notin evidence \cup plock

\* What repairQueue reports as fixable: a marker beside a sentinel, and a marker
\* with neither pending intake nor .task.json.
Stranded(t) == t \in marker /\ "pending" \notin place[t] /\ workspace[t] \in {"none", "partial"}
Fixable(t)  == Stranded(t) \/ (t \in marker /\ sentinel[t] # "none")

\* It fixes the second kind only.
RepairMarker(t) ==
  /\ MainFree /\ lock = Nobody
  /\ Stranded(t) /\ sentinel[t] = "none"
  /\ marker' = marker \ {t}
  /\ UNCHANGED <<place, sentinel, archived, reg, workspace, plock, evidence, processVars,
                 boundVars,
                 lock, pc, arg, code, redriven>>

\* The recovery controller fails an active task that shows no sign of a
\* pipeline.  Runtime files, a left pipeline.lock among them, count as a sign.
\* As long as there is anything fixable it does nothing else.  Its looks at the files are one
\* step; the lock is asked for in another, and the gate of FailLock looks again.
RecoveryFails(t) ==
  /\ MainFree /\ \A u \in Task : ~Fixable(u)
  /\ t \in marker /\ NoStartEvidence(t) /\ ~Starting(t)
  /\ MainGoes("failLock") /\ Item(Main, t)
  /\ UNCHANGED <<fileVars, processVars, boundVars, lock, code, redriven>>

\* And one whose pipeline has left runtime files but holds no pipeline.lock any more, when
\* one of its role sessions has failed or is orphaned.  The health of sessions is not
\* modelled: it may be so or not, and nothing says that it ever will be.
RecoveryFailsRuntime(t) ==
  /\ MainFree /\ \A u \in Task : ~Fixable(u)
  /\ t \in marker /\ t \in evidence \ plock
  /\ MainGoes("failLock") /\ Item(Main, t)
  /\ UNCHANGED <<fileVars, processVars, boundVars, lock, code, redriven>>

\* The desktop process ends, by a crash or by closing it.  Pipeline processes go
\* on, but nobody waits for them any more.
MainStops ==
  /\ up /\ Fault("crash")
  /\ up' = FALSE
  /\ pc' = [th \in Thread |-> IF IsPipe(th) THEN pc[th] ELSE "idle"]
  /\ arg' = [th \in Thread |-> IF IsPipe(th) THEN arg[th] ELSE NoTask]
  /\ lock' = IF lock \in Thread /\ ~IsPipe(lock) THEN Nobody ELSE lock
  /\ redriven' = {th \in redriven : IsPipe(th)}
  /\ parent' = [t \in Task |-> "none"]
  /\ discarding' = {}
  /\ UNCHANGED <<fileVars, issued, superseded, disposed, code>>

\* A mutant: the repair does not look at the markers.
RepairedAsPending(t) ==
  (IF "dropbox" \in place[t] THEN {"open"} ELSE {}) \cup
  (IF "pending" \in place[t] THEN {"pending"} ELSE {}) \cup
  (IF "error" \in place[t] THEN {"failed"} ELSE {})

\* repairTaskRegistry: the registry is rebuilt from the directories.
RepairedEntry(t) ==
  (IF "dropbox" \in place[t] THEN {"open"} ELSE {}) \cup
  (IF "pending" \in place[t] THEN {IF t \in marker THEN "active" ELSE "pending"} ELSE {}) \cup
  (IF "error" \in place[t] THEN {"failed"} ELSE {})

\* On start the repair makes one attempt to get the lock and else is skipped.
MainStarts ==
  /\ ~up
  /\ up' = TRUE
  /\ reg' = IF lock = Nobody THEN [t \in Task |-> RepairedEntry(t)] ELSE reg
  /\ UNCHANGED <<place, marker, sentinel, archived, workspace, plock, evidence, parent, issued,
                 superseded, discarding, disposed, boundVars, lock, pc, arg, code, redriven>>

--------------------------------------------------------------------------
Activation(th) ==
  \/ ActScan(th) \/ ActLock(th) \/ ActPick(th) \/ ActNotReady(th) \/ ActClaim(th) \/ ActMark(th)
  \/ ActRegister(th) \/ ActStart(th) \/ RollbackWorkspace(th) \/ RollbackMarker(th)
Failure(th) == FailLock(th) \/ FailRename(th) \/ FailRegister(th) \/ FailMarker(th)
Resume(th)  == ResLock(th) \/ ResRegister(th) \/ ResPending(th) \/ ResMarker(th) \/ ResEnd(th)
Pipeline(t) == PipeBoot(t) \/ PipeDone(t) \/ PipeExit(t) \/ Closeout(t)

\* What threads do by themselves.
Progress ==
  \/ \E th \in Thread : Activation(th) \/ Failure(th) \/ Resume(th)
  \/ \E t \in Task : Pipeline(t) \/ Discard(t) \/ RepairMarker(t) \/ RecoveryFails(t)
  \/ MainStarts

Operator ==
  \/ \E t \in Task : Publish(t) \/ MoveToPending(t) \/ ReturnToOpen(t) \/ MoveToOpen(t)
  \/ \E t, u \in Task : Requeue(t, u)

Failing ==
  \/ \E th \in Thread : ActDirty(th) \/ ActConflict(th) \/ ActThrow(th) \/ ActStartFails(th)
  \/ \E t \in Task : PipeFails(t) \/ PipeDies(t) \/ CloseThrows(t) \/ RecoveryFailsRuntime(t)
  \/ MainStops

Next == Progress \/ Operator \/ Failing

Spec == Init /\ [][Next]_vars

\* Every live thread goes on, the recovery interval fires, and a stopped
\* desktop is started again.
FairSpec ==
  /\ Spec
  /\ \A th \in Thread : WF_vars(Activation(th)) /\ WF_vars(Failure(th)) /\ WF_vars(Resume(th))
  /\ \A t \in Task : WF_vars(Pipeline(t)) /\ WF_vars(Discard(t))
                    /\ WF_vars(RepairMarker(t)) /\ WF_vars(RecoveryFails(t))
  /\ WF_vars(MainStarts)

--------------------------------------------------------------------------
\* Properties

\* Never more active tasks than max_parallel_tasks, however many threads
\* activate at once (the cap check and the marker of activateNextPendingItemIfReady
\* are many steps apart).
ActiveCap == Cardinality(marker) <= MaxParallel

Unmoved == Task \ moved

\* A pipeline at work on its task holds one of the slots, and has its workspace:
\* nobody has failed, rolled back or recovered the task under it.  With ActiveCap
\* this bounds the pipelines that run agents at once.
RunningPipelineOwnsItsSlot ==
  \A t \in Unmoved : At(Pipe(t), "work") => t \in marker /\ workspace[t] = "active"

\* The intake of a submitted task is in one of the directories until the task is
\* in the archive; a task the operator has requeued goes on under its new id.
NoTaskLost == \A t \in issued \ superseded : place[t] # {} \/ t \in archived

\* The registry says completed only of tasks whose archive was filed; neither a
\* resumed closeout nor a crash gets around that.
CompletedIsArchived ==
  \A t \in Task : "completed" \in reg[t] => t \in archived

\* The exit handler of a pipeline that completed or failed its task itself finds
\* nothing to do ("the loser is a clean no-op" of moveFailedItemToErrorItems).
DisposedOnce ==
  \A t \in disposed : pc[Exit(t)] \notin {"failRename", "failRegister", "failMarker"}

\* For a task the operator has not moved, that is so.
UnmovedDisposedOnce ==
  \A t \in disposed \ moved : pc[Exit(t)] \notin {"failRename", "failRegister", "failMarker"}

\* A task that the registry calls completed while it still holds its slot has the
\* sentinel by which the next activation resumes its closeout and frees the slot: a
\* crash between any two steps of either closeout leaks none.  (A resumed closeout
\* registers before it removes the marker.)  It is about tasks the operator has not
\* moved: publishing sweeps one that was reopened into the queue, completed or not.
CompletedSlotIsResumed ==
  \A t \in marker \ moved : "completed" \in reg[t] => Resumable(t)

\* A running pipeline's task is listed as active.
RunningIsRegistered == \A t \in Task : At(Pipe(t), "work") => "active" \in reg[t]

\* The invariant behind ActiveCap, NoTaskLost and CompletedIsArchived.  Whoever is
\* in a critical section holds the lock; between its look at the cap and its
\* marker an activation has room for one more; and whoever has got past the archive
\* in a closeout, or resumes one, has the archive to show for it.
LockDiscipline == \A th \in Thread : pc[th] \in LockedAt <=> lock = th

RoomForMarker ==
  \A th \in Thread :
    pc[th] \in {"actPick", "actClaim", "actMark"} => Cardinality(marker) < MaxParallel

OnTask ==
  \A th \in Thread :
    pc[th] \notin {"idle", "unlock", "actScan", "actLock", "actPick"} => arg[th] \in Task

ArchiveFirst ==
  /\ \A t \in Task : sentinel[t] = "archived" => t \in archived
  /\ \A t \in Task :
       pc[Pipe(t)] \in {"closeMerge", "closePending", "closeMarker", "closeRegister", "closeEnd"}
         => t \in archived
  /\ \A th \in Thread :
       pc[th] \in {"resRegister", "resPending", "resMarker", "resEnd"} => arg[th] \in archived

QueueInv ==
  /\ TypeOK
  /\ LockDiscipline
  /\ OnTask
  /\ RoomForMarker
  /\ ArchiveFirst

\* What is known of a slot as long as the operator has not moved its task: the task is
\* activated once and for all, except for rollbacks, so whoever works on it is alone.
ClaimingAt == {"actClaim", "actMark"}
StartingAt == {"actRegister", "actStart", "rbLock", "rbMarker"}
BusyAt     == {"boot", "bootFailed", "work", "closeLock", "closeVerify",
               "closeArchive", "closeMerge", "closePending", "closeMarker"}
FailingAt  == {"failLock", "failRename", "failRegister", "failMarker"}
ResumingAt == {"resRegister", "resPending", "resMarker", "resEnd"}

\* Its queue life has ended, or its first pipeline has not begun.
Over(t) == t \in issued \ marker /\ place[t] \subseteq {"error"}
Fresh(t) ==
  /\ t \notin disposed /\ sentinel[t] = "none" /\ "completed" \notin reg[t]
  /\ t \notin evidence \cup plock
  /\ At(Pipe(t), "idle")
  /\ \A th \in Thread :
       arg[th] = t => pc[th] \notin FailingAt \cup ResumingAt \cup {"resLock", "exitResume"}

MovesKnown ==
  /\ discarding \cup superseded \subseteq moved /\ moved \subseteq issued
  /\ moves = 0 => moved = {}

OwnTask ==
  \A t \in Task :
    /\ pc[Pipe(t)] \in BusyAt \cup FailingAt \cup {"closeRegister", "closeEnd"} => arg[Pipe(t)] = t
    /\ pc[Exit(t)] \in FailingAt \cup {"exitResume"} => arg[Exit(t)] = t
    /\ ~At(Pipe(t), "exitResume")

UnissuedHold == \A t \in Task \ issued : place[t] = {} /\ t \notin marker /\ t \notin archived

PlaceHolds(t) ==
  /\ place[t] \in {{}, {"dropbox"}, {"pending"}, {"error"}}
  /\ t \in marker => "dropbox" \notin place[t]
  /\ t \in disposed => Over(t)
  /\ t \notin marker /\ ~Over(t) => Fresh(t)

StartHolds(t) ==
  \A th \in Thread : arg[th] = t =>
    /\ pc[th] \in ClaimingAt => t \notin marker /\ place[t] = {"pending"}
    /\ pc[th] \in StartingAt => t \in marker /\ place[t] = {"pending"} /\ Fresh(t)
    /\ pc[th] \in {"actMark", "actRegister", "actStart", "rbLock"} => workspace[t] = "active"
    /\ \A o \in Thread :
         arg[o] = t /\ {pc[th], pc[o]} \subseteq ClaimingAt \cup StartingAt => th = o

\* The recovery controller looks for the pipeline.lock of a pipeline that has booted: it has
\* one until it exits, or until it fails its task itself.
LocklessAt == {"idle", "boot", "failRename", "failRegister", "failMarker"}

PipelineHolds(t) ==
  /\ pc[Pipe(t)] \in BusyAt => t \in marker /\ workspace[t] = "active"
  /\ pc[Pipe(t)] \in BusyAt \ {"closeMarker"} => place[t] = {"pending"}
  /\ At(Pipe(t), "closeMarker") => place[t] = {}
  /\ pc[Pipe(t)] \in {"boot", "bootFailed", "work", "closeLock", "closeVerify"}
       => sentinel[t] = "none"
  /\ pc[Pipe(t)] \in {"closeRegister", "closeEnd"} => t \notin marker
  /\ At(Pipe(t), "boot") => t \notin evidence \cup plock
  /\ ~At(Pipe(t), "bootFailed")
  /\ t \in marker => t \in plock \/ pc[Pipe(t)] \in LocklessAt

EndHolds(t) ==
  \A th \in Thread : arg[th] = t =>
    /\ pc[th] \in (FailingAt \ {"failLock"}) \cup {"exitResume"} /\ th # Pipe(t)
         => At(Pipe(t), "idle")
    /\ pc[th] = "failLock" /\ th # Pipe(t) /\ t \in marker
         => pc[Pipe(t)] \in LocklessAt \ {"boot"}
    /\ pc[th] \in FailingAt \ {"failLock"} => t \in marker
    /\ pc[th] \in {"failRegister", "failMarker"} => place[t] = {"error"}
    /\ pc[th] \in ResumingAt => sentinel[t] = "archived"
    /\ pc[th] \in {"resMarker", "resEnd"} => "pending" \notin place[t]
    /\ pc[th] = "resEnd" => t \notin marker

SlotHolds(t) ==
  /\ PlaceHolds(t) /\ StartHolds(t) /\ PipelineHolds(t) /\ EndHolds(t)
  /\ t \in marker /\ "completed" \in reg[t] => Resumable(t)
  /\ t \in disposed => pc[Exit(t)] \notin FailingAt \ {"failLock"}

\* All of this together; it holds of each task on its own, whatever becomes of others.
SlotInv == MovesKnown /\ OwnTask /\ UnissuedHold /\ \A t \in Unmoved : SlotHolds(t)

\* The registry follows the files of a task the operator has not moved: while it is open
\* or queued it is listed as such, and as active from the end of its activation up to
\* its completion, through rollbacks, crashes in between and the repair of a restart beside
\* a running pipeline.  (A sweep leaves "open" beside the new entry, as registerTask
\* removes none; the id of a retry is listed at the next repair or never.)
Listed(t, state) ==
  /\ reg[t] \subseteq {"open", state}
  /\ state \in reg[t] \/ (reg[t] = {} /\ moves > 0)

RegistryHolds(t) ==
  /\ t \notin issued => reg[t] = {}
  /\ place[t] = {"dropbox"} => reg[t] \subseteq {"open"}
  /\ place[t] = {"pending"} /\ t \notin marker => Listed(t, "pending")
  /\ \A th \in Thread : arg[th] = t =>
       /\ At(th, "actRegister") => Listed(t, "pending")
       /\ pc[th] \in StartingAt \ {"actRegister"} => Listed(t, "active")
  /\ pc[Pipe(t)] \in BusyAt \cup {"closeRegister"} => Listed(t, "active")

\* What the registry says of a task the operator has not moved agrees with its files.
UnmovedAreListed == \A t \in Unmoved : RegistryHolds(t)

\* Every active task ends: its slot is free again some time.
ActiveTaskEnds == \A t \in Task : t \in marker ~> t \notin marker

\* Every queued task is taken up and leaves pendingitems/ some time, without any
\* further action of the operator: whoever ends a task activates the next one.
\* (Once the operator has moved a failed task it is not so: one that is reopened and
\* swept into the queue before its old workspace is discarded ends the activation
\* for those behind it, and the discard activates nothing.)
QueueDrains ==
  \A t \in Task : "pending" \in place[t] ~> ("pending" \notin place[t] \/ moves > 0)

\* The stages a task goes through, read off the files.
Life(t) == IF t \in marker THEN "active"
           ELSE IF "pending" \in place[t] THEN "queued"
           ELSE IF "error" \in place[t] THEN "failed"
           ELSE IF "dropbox" \in place[t] THEN "open"
           ELSE IF t \in archived THEN "completed"
           ELSE "none"
Stages == INSTANCE TaskLifecycle WITH life <- [t \in Task |-> Life(t)]
FollowsLifecycle == Stages!Spec

\* The same as long as the operator keeps its hands off a task: with any number of
\* moves of other tasks an unmoved one is never failed, requeued or completed but as
\* TaskLifecycle says.
OwnLife(t) == IF t \in moved THEN "moved" ELSE Life(t)
Own == INSTANCE TaskLifecycle WITH life <- [t \in Task |-> OwnLife(t)]
UnmovedFollowLifecycle == Own!Spec
==========================================================================
