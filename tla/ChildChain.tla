----------------------------- MODULE ChildChain -----------------------------
(***************************************************************************)
(* A chain of child tasks: child-task-chains.json with everything that     *)
(* plans, closes, fails, reopens, retries or deletes a task of the chain.  *)
(*                                                                         *)
(* The tasks of a chain work on one branch of each repository, one after   *)
(* the other.  The chain's file has a lock of its own, taken for each read *)
(* and write of it, mostly inside the queue lock; the failure of a task is *)
(* recorded outside the queue lock.  Actions that run within the queue     *)
(* lock from begin to end are one step; the closeout holds the lock over   *)
(* many steps, in any of which its process may die.                        *)
(***************************************************************************)
EXTENDS Naturals

CONSTANTS
  Task,       \* the ids of child tasks
  Root,       \* the archived task the chain begins at
  NoTask,
  Faults,     \* the kinds of fault that may happen
  MaxFaults,  \* bound on the faults of one behaviour
  MaxMoves    \* bound on the operator's moves of failed tasks

FaultKind == {"agent", "closeout", "rollback", "crash"}

ASSUME ChainAssumption ==
  /\ Root \notin Task /\ NoTask \notin Task
  /\ Faults \subseteq FaultKind
  /\ MaxFaults \in Nat /\ MaxMoves \in Nat

VARIABLES
  ids, tip,   \* taskIds without the root, currentTipTaskId
  record,     \* the state of each task in the file, "none" without a record
  parent,     \* the parent in the Branch Chain of the task's intake
  place,      \* where the intake is; "retried" when it went on under a retry id
  marker,     \* the tasks with an active marker
  sentinel,   \* the tasks with a sentinel that says archiveSucceeded
  archived,   \* the tasks with an archive record
  work,       \* the tasks with a sidecar and worktrees
  branch,     \* the tasks whose commits are on the chain's branch
  base,       \* the same at the time of each task's activation (baseCommitSha)
  retain,     \* retain_failed_task_worktrees
  pipe,       \* the pipeline of each task, with the steps of its closeout
  chained,    \* the closeouts that have prepared a chain record
  due,        \* the tasks somebody is going to fail
  marking,    \* failed tasks whose failure is not yet in the file
  deleting,   \* pending tasks whose deletion has passed its check
  discarding, \* tasks whose worktrees are going to be discarded
  faults, moves

fileVars   == <<ids, tip, record, parent>>
queueVars  == <<place, marker, sentinel, archived>>
gitVars    == <<work, branch, base, retain>>
laterVars  == <<marking, deleting, discarding>>
boundVars  == <<faults, moves>>
vars == <<fileVars, queueVars, gitVars, pipe, chained, due, laterVars, boundVars>>

RecordState == {"none", "planned", "failed", "completed"}

\* The closeout holds the queue lock in these stages, after which it is over.
Closing == {"prepared", "filed", "stamped", "removed", "unmarked", "advanced"}

TypeOK ==
  /\ ids \subseteq Task /\ tip \in Task \cup {Root}
  /\ record \in [Task -> RecordState]
  /\ parent \in [Task -> Task \cup {Root}]
  /\ place \in [Task -> {"new", "open", "pending", "error", "retried", "none"}]
  /\ marker \subseteq Task /\ sentinel \subseteq Task /\ archived \subseteq Task
  /\ work \subseteq Task /\ branch \subseteq Task
  /\ base \in [Task -> SUBSET Task] /\ retain \in BOOLEAN
  /\ pipe \in [Task -> {"none", "running"} \cup Closing]
  /\ chained \subseteq Task /\ due \subseteq Task
  /\ marking \subseteq Task /\ deleting \subseteq Task /\ discarding \subseteq Task
  /\ faults \in 0..MaxFaults /\ moves \in 0..MaxMoves

Init ==
  /\ ids = {} /\ tip = Root
  /\ record = [t \in Task |-> "none"] /\ parent = [t \in Task |-> Root]
  /\ place = [t \in Task |-> "new"]
  /\ marker = {} /\ sentinel = {} /\ archived = {}
  /\ work = {} /\ branch = {} /\ base = [t \in Task |-> {}] /\ retain \in BOOLEAN
  /\ pipe = [t \in Task |-> "none"] /\ chained = {} /\ due = {}
  /\ marking = {} /\ deleting = {} /\ discarding = {}
  /\ faults = 0 /\ moves = 0

Fault(f) == f \in Faults /\ faults < MaxFaults /\ faults' = faults + 1 /\ UNCHANGED moves
Moved    == moves < MaxMoves /\ moves' = moves + 1 /\ UNCHANGED faults

Completed == {t \in Task : record[t] = "completed"}

\* A base is known as long as the sidecar that says it.
Keep(W) == work' = W /\ base' = [t \in Task |-> IF t \in W THEN base[t] ELSE {}]

QueueLockFree == \A t \in Task : pipe[t] \notin Closing

-----------------------------------------------------------------------------
\* Planning (createFollowupTask with recordPlannedChildTask)

\* A child continues the current tip, which must be completed.
\* A mutant: any completed task may be continued.
PlannableAnywhere(p) == p \in {Root} \cup Completed
Plannable(p) == p = tip /\ p \in {Root} \cup Completed

PlanChild(t, p) ==
  /\ QueueLockFree /\ place[t] = "new" /\ Plannable(p)
  /\ ids' = ids \cup {t} /\ tip' = t
  /\ record' = [record EXCEPT ![t] = "planned"]
  /\ parent' = [parent EXCEPT ![t] = p]
  /\ place' = [place EXCEPT ![t] = "open"]
  /\ UNCHANGED <<marker, sentinel, archived, gitVars, pipe, chained, due, laterVars, boundVars>>

\* The process dies between the intake file and the record.
PlanCrashes(t, p) ==
  /\ QueueLockFree /\ place[t] = "new" /\ Plannable(p) /\ Fault("crash")
  /\ parent' = [parent EXCEPT ![t] = p]
  /\ place' = [place EXCEPT ![t] = "open"]
  /\ UNCHANGED <<ids, tip, record, marker, sentinel, archived, gitVars, pipe, chained, due, laterVars>>

-----------------------------------------------------------------------------
\* Queue and activation

Publish(t) ==
  /\ QueueLockFree /\ place[t] = "open"
  /\ place' = [place EXCEPT ![t] = "pending"]
  /\ UNCHANGED <<fileVars, marker, sentinel, archived, gitVars, pipe, chained, due, laterVars, boundVars>>

\* Another active task has the branch, according to its sidecar.
BranchTaken == marker \cap work # {}

ReturnToOpen(t) ==
  /\ QueueLockFree /\ place[t] = "pending" /\ t \notin marker /\ BranchTaken
  /\ place' = [place EXCEPT ![t] = "open"]
  /\ UNCHANGED <<fileVars, marker, sentinel, archived, gitVars, pipe, chained, due, laterVars, boundVars>>

\* No worktree has the branch checked out (existingBranchPreconditionsPass).
BranchFree == work = {}

\* A task that continues the chain's branch.  Repositories that a task introduces into the
\* chain (branchChainActivation.ts:251-284) get a branch of their own, which has no earlier
\* commits to lose: they are left out with the other repositories.
Activate(t) ==
  /\ QueueLockFree /\ place[t] = "pending" /\ t \notin marker /\ pipe[t] = "none"
  /\ BranchFree
  /\ marker' = marker \cup {t} /\ work' = work \cup {t}
  /\ base' = [base EXCEPT ![t] = branch]
  /\ pipe' = [pipe EXCEPT ![t] = "running"]
  /\ UNCHANGED <<fileVars, place, sentinel, archived, branch, retain, chained, due, laterVars, boundVars>>

-----------------------------------------------------------------------------
\* The pipeline and its closeout (completePendingItem)

\* It ends without a closeout, or its closeout throws; its exit handler is told.
Ends(t) == pipe' = [pipe EXCEPT ![t] = "none"] /\ due' = due \cup {t} /\ chained' = chained \ {t}

At(t, s)   == pipe[t] = s
Goes(t, s) == pipe' = [pipe EXCEPT ![t] = s] /\ UNCHANGED <<due, chained>>

AgentFails(t) ==
  /\ At(t, "running") /\ Fault("agent") /\ Ends(t)
  /\ UNCHANGED <<fileVars, queueVars, gitVars, laterVars>>

\* Without an intake there is nothing that tells of a chain.
InChain(t) == place[t] = "pending"

\* prepareChildTaskChainCloseout, after the policy and with the sidecar.
Closable(t) ==
  /\ t \in marker /\ t \in work
  /\ InChain(t) => record[t] \in {"planned", "completed"} /\ tip = t

CloseBegin(t) ==
  /\ At(t, "running") /\ QueueLockFree /\ Closable(t)
  /\ pipe' = [pipe EXCEPT ![t] = "prepared"] /\ branch' = branch \cup {t}
  /\ chained' = IF InChain(t) THEN chained \cup {t} ELSE chained
  /\ UNCHANGED <<fileVars, queueVars, work, base, retain, due, laterVars, boundVars>>

CloseRefused(t) ==
  /\ At(t, "running") /\ QueueLockFree /\ ~Closable(t)
  /\ Ends(t)
  /\ UNCHANGED <<fileVars, queueVars, gitVars, laterVars, boundVars>>

CloseThrows(t) ==
  /\ At(t, "prepared") \/ (At(t, "unmarked") /\ t \in chained)
  /\ Fault("closeout") /\ Ends(t)
  /\ UNCHANGED <<fileVars, queueVars, gitVars, laterVars>>

CloseFile(t) ==
  /\ At(t, "prepared") /\ Goes(t, "filed")
  /\ archived' = archived \cup {t}
  /\ UNCHANGED <<fileVars, place, marker, sentinel, gitVars, laterVars, boundVars>>

CloseStamp(t) ==
  /\ At(t, "filed") /\ Goes(t, "stamped")
  /\ sentinel' = sentinel \cup {t}
  /\ UNCHANGED <<fileVars, place, marker, archived, gitVars, laterVars, boundVars>>

\* The intake of a completed task goes, wherever a deletion has left it.
RemoveIntake(t) == place' = [place EXCEPT ![t] = IF @ = "pending" THEN "none" ELSE @]

CloseRemove(t) ==
  /\ At(t, "stamped") /\ Goes(t, "removed")
  /\ RemoveIntake(t)
  /\ UNCHANGED <<fileVars, marker, sentinel, archived, gitVars, laterVars, boundVars>>

CloseUnmark(t) ==
  /\ At(t, "removed") /\ Goes(t, "unmarked")
  /\ marker' = marker \ {t} /\ Keep(work \ {t})
  /\ UNCHANGED <<fileVars, place, sentinel, archived, branch, retain, laterVars, boundVars>>

\* advanceCompletedChildTaskChain.  The record may have become "failed" by now.
Advanceable(t) == tip = t /\ record[t] # "failed"

CloseAdvance(t) ==
  /\ At(t, "unmarked")
  /\ \/ t \in chained /\ Advanceable(t)
        /\ record' = [record EXCEPT ![t] = "completed"] /\ tip' = t /\ Goes(t, "advanced")
     \/ t \in chained /\ ~Advanceable(t) /\ Ends(t) /\ UNCHANGED <<record, tip>>
     \/ t \notin chained /\ Goes(t, "advanced") /\ UNCHANGED <<record, tip>>
  /\ UNCHANGED <<ids, parent, queueVars, gitVars, laterVars, boundVars>>

CloseEnd(t) ==
  /\ At(t, "advanced")
  /\ pipe' = [pipe EXCEPT ![t] = "none"] /\ chained' = chained \ {t}
  /\ sentinel' = sentinel \ {t}
  /\ UNCHANGED <<fileVars, place, marker, archived, gitVars, due, laterVars, boundVars>>

Dies(t) ==
  /\ pipe[t] # "none" /\ Fault("crash") /\ Ends(t)
  /\ UNCHANGED <<fileVars, queueVars, gitVars, laterVars>>

\* resumeCloseoutFromSentinel, which the next activation begins with.  The chain is
\* not advanced.  (The operator's repair command, recoverStuckMidCompletion, runs
\* completePendingItem again and does advance it from the sentinel's childChainCloseout,
\* completePendingItem.ts:391: that command is not modelled.)
Resume(t) ==
  /\ QueueLockFree /\ t \in sentinel
  /\ IF t \in marker THEN RemoveIntake(t) ELSE UNCHANGED place
  /\ marker' = marker \ {t} /\ Keep(work \ {t}) /\ sentinel' = sentinel \ {t}
  /\ UNCHANGED <<fileVars, archived, branch, retain, pipe, chained, due, laterVars, boundVars>>

-----------------------------------------------------------------------------
\* Failure (moveFailedItemToErrorItems, then markChildTaskChainTaskFailed)

Undisposed(t) == t \in marker \/ place[t] = "pending"

ToError(t) ==
  /\ place' = [place EXCEPT ![t] = "error"] /\ marker' = marker \ {t}
  /\ due' = due \ {t} /\ marking' = marking \cup {t}
  /\ UNCHANGED <<fileVars, sentinel, archived, retain, pipe, chained, deleting, discarding>>

\* A mutant: the branch goes back to where the chain began.
FailToRoot(t) ==
  /\ t \in due /\ QueueLockFree /\ Undisposed(t)
  /\ branch' = IF t \in work THEN {} ELSE branch
  /\ Keep(IF retain THEN work ELSE work \ {t})
  /\ ToError(t) /\ UNCHANGED boundVars

\* The branch goes back to where the task has found it.
Fail(t) ==
  /\ t \in due /\ QueueLockFree /\ Undisposed(t)
  /\ branch' = IF t \in work THEN base[t] ELSE branch
  /\ Keep(IF retain THEN work ELSE work \ {t})
  /\ ToError(t) /\ UNCHANGED boundVars

FailAlreadyTerminal(t) ==
  /\ t \in due /\ QueueLockFree /\ ~Undisposed(t)
  /\ due' = due \ {t}
  /\ UNCHANGED <<fileVars, queueVars, gitVars, pipe, chained, laterVars, boundVars>>

\* The snapshot has been committed; the preflight of the rollback refuses.  With one
\* repository it refuses everywhere or nowhere; the code rolls back one repository after the
\* other, and skips those whose worktree retention has evicted.
FailWithoutRollback(t) ==
  /\ t \in due /\ QueueLockFree /\ Undisposed(t) /\ t \in work /\ Fault("rollback")
  /\ branch' = branch \cup {t} /\ UNCHANGED <<work, base>>
  /\ ToError(t)

\* A mutant: a record is marked whatever it says by now.
MarkFailedAnyway(t) ==
  /\ t \in marking
  /\ marking' = marking \ {t}
  /\ record' = IF record[t] # "none" /\ tip = t
               THEN [record EXCEPT ![t] = "failed"] ELSE record
  /\ UNCHANGED <<ids, tip, parent, queueVars, gitVars, pipe, chained, due, deleting, discarding, boundVars>>

\* Outside the queue lock; a task without a record, or behind the tip, is left alone.
MarkFailed(t) ==
  /\ t \in marking
  /\ marking' = marking \ {t}
  /\ record' = IF record[t] # "none" /\ tip = t /\ record[t] # "completed"
               THEN [record EXCEPT ![t] = "failed"] ELSE record
  /\ UNCHANGED <<ids, tip, parent, queueVars, gitVars, pipe, chained, due, deleting, discarding, boundVars>>

\* The main process ends, and with it what it was going to do.
MainStops ==
  /\ Fault("crash")
  /\ due' = {} /\ marking' = {} /\ deleting' = {} /\ discarding' = {}
  /\ UNCHANGED <<fileVars, queueVars, gitVars, pipe, chained>>

\* The operator kills an active task that has no process, or recovery fails it.
Recover(t) ==
  /\ t \in marker /\ pipe[t] = "none" /\ t \notin due
  /\ due' = due \cup {t}
  /\ UNCHANGED <<fileVars, queueVars, gitVars, pipe, chained, laterVars, boundVars>>

-----------------------------------------------------------------------------
\* The operator

\* moveErrorItemToDropbox; the reset throws after the rename for a task that is not a
\* tip that may be reopened.
Reopenable(t) == record[t] = "none" \/ (tip = t /\ record[t] # "completed")

MoveToOpen(t) ==
  /\ QueueLockFree /\ place[t] = "error" /\ Moved
  /\ place' = [place EXCEPT ![t] = "open"]
  /\ IF Reopenable(t)
     THEN /\ record' = [record EXCEPT ![t] = IF @ = "failed" THEN "planned" ELSE @]
          /\ sentinel' = sentinel \ {t} /\ discarding' = discarding \cup {t}
     ELSE UNCHANGED <<record, sentinel, discarding>>
  /\ UNCHANGED <<ids, tip, parent, marker, archived, gitVars, pipe, chained, due, marking, deleting>>

\* requeueErrorItem: the intake goes on under a retry id that the chain does not know.
Requeue(t, r) ==
  /\ QueueLockFree /\ place[t] = "error" /\ place[r] = "new" /\ Moved
  /\ place' = [place EXCEPT ![t] = "retried", ![r] = "pending"]
  /\ parent' = [parent EXCEPT ![r] = parent[t]]
  /\ discarding' = discarding \cup {t}
  /\ UNCHANGED <<ids, tip, record, marker, sentinel, archived, gitVars, pipe, chained, due, marking, deleting>>

\* cleanupDeletedChildTaskChainTask: only the tip may go, back to its parent.
Deletable(t) ==
  record[t] # "none" =>
    /\ record[t] # "completed" /\ tip = t
    /\ parent[t] \in {Root} \cup Completed

\* A mutant: the file goes and the chain keeps its tip.
DeleteFileOnly(t) ==
  /\ place' = [place EXCEPT ![t] = "none"] /\ discarding' = discarding \cup {t}
  /\ UNCHANGED <<ids, tip, record, parent, marker, sentinel, archived, gitVars, pipe, chained, due, marking, boundVars>>
Delete(t) ==
  /\ place' = [place EXCEPT ![t] = "none"] /\ discarding' = discarding \cup {t}
  /\ IF record[t] = "none" THEN UNCHANGED <<ids, tip, record>>
     ELSE ids' = ids \ {t} /\ tip' = parent[t] /\ record' = [record EXCEPT ![t] = "none"]
  /\ UNCHANGED <<parent, marker, sentinel, archived, gitVars, pipe, chained, due, marking, boundVars>>

DeleteOpenOrError(t) ==
  /\ QueueLockFree /\ place[t] \in {"open", "error"} /\ Deletable(t)
  /\ Delete(t) /\ UNCHANGED deleting

\* deletePendingItem looks for the marker before it takes the queue lock.
DeletePendingCheck(t) ==
  /\ place[t] = "pending" /\ t \notin marker /\ t \notin deleting
  /\ deleting' = deleting \cup {t}
  /\ UNCHANGED <<fileVars, queueVars, gitVars, pipe, chained, due, marking, discarding, boundVars>>

DeletePending(t) ==
  /\ QueueLockFree /\ t \in deleting
  /\ deleting' = deleting \ {t}
  /\ IF place[t] = "pending" /\ Deletable(t) THEN Delete(t)
     ELSE UNCHANGED <<fileVars, queueVars, gitVars, pipe, chained, due, marking, discarding, boundVars>>

\* discardRetainedTaskWorktrees, after the queue lock has been released.
Discard(t) ==
  /\ t \in discarding
  /\ discarding' = discarding \ {t} /\ Keep(work \ {t})
  /\ UNCHANGED <<fileVars, queueVars, branch, retain, pipe, chained, due, marking, deleting, boundVars>>

-----------------------------------------------------------------------------
Closeout(t) ==
  \/ CloseBegin(t) \/ CloseRefused(t) \/ CloseThrows(t) \/ CloseFile(t) \/ CloseStamp(t)
  \/ CloseRemove(t) \/ CloseUnmark(t) \/ CloseAdvance(t) \/ CloseEnd(t)

Failure(t) ==
  \/ AgentFails(t) \/ Dies(t) \/ Fail(t) \/ FailAlreadyTerminal(t) \/ FailWithoutRollback(t)
  \/ MarkFailed(t) \/ Recover(t)

Operator(t) ==
  \/ Publish(t) \/ MoveToOpen(t) \/ DeleteOpenOrError(t) \/ DeletePendingCheck(t)
  \/ DeletePending(t) \/ Discard(t)
  \/ \E r \in Task : Requeue(t, r)
  \/ \E p \in Task \cup {Root} : PlanChild(t, p) \/ PlanCrashes(t, p)

Next ==
  \/ \E t \in Task :
       ReturnToOpen(t) \/ Activate(t) \/ Closeout(t) \/ Resume(t) \/ Failure(t) \/ Operator(t)
  \/ MainStops

Spec == Init /\ [][Next]_vars

-----------------------------------------------------------------------------
\* Properties

\* The file is what readChildTaskChains accepts, and a line: only the tip may be other
\* than completed, and it continues a completed task.
LinearHistory ==
  /\ \A t \in Task : t \in ids <=> record[t] # "none"
  /\ tip \in ids \cup {Root} /\ (tip = Root <=> ids = {})
  /\ \A t \in ids : t # tip => record[t] = "completed"
  /\ tip # Root => parent[tip] # tip /\ parent[tip] \in {Root} \cup Completed

\* The chain goes on only from work that has been archived.
CompletedIsArchived == Completed \subseteq archived

\* The rollback of a failed task never takes the work of a completed one from the
\* branch, although any number of tasks have failed, been retried or deleted on it.
CompletedWorkStays == Completed \subseteq branch

\* A tip that is not completed has an intake the operator or the queue can go on with.
\* It has none only when its intake goes on under a retry id, and when it was archived by
\* a closeout that another process has resumed: the chain then stands still for ever.
TipIsReachable ==
  (tip # Root /\ tip \notin Completed)
    => place[tip] \in {"open", "pending", "error", "retried"} \/ tip \in archived

\* The chain implements its promise: no completed task is ever taken back, and nothing is
\* planned beside an open task, whoever fails, reopens or deletes what in the meantime.
Open == tip # Root /\ tip \notin Completed
Log == INSTANCE ChainLog WITH
  done <- Completed,
  open <- IF Open THEN tip ELSE NoTask,
  last <- IF Open THEN parent[tip] ELSE tip
ImplementsChainLog == Log!Spec

-----------------------------------------------------------------------------
\* The inductive invariant

\* Why a deletion may go back to the parent: it is completed, or nothing else is left.
ParentsCompleted ==
  /\ \A t \in ids : parent[t] # t /\ parent[t] \in {Root} \cup Completed
  /\ Open /\ parent[tip] = Root => ids = {tip}
  /\ \A t \in Task : place[t] = "new" => record[t] = "none"

\* What each stage of a closeout has done, as long as it holds the queue lock.
StagesHold ==
  \A t \in Task : pipe[t] \in Closing =>
    /\ \A u \in Task : pipe[u] \in Closing => u = t
    /\ t \in branch /\ work \subseteq {t}
    /\ pipe[t] # "prepared" => t \in archived
    /\ pipe[t] \in {"unmarked", "advanced"} => work = {}

\* One task at a time works on the branch, from a base with all that was completed.
BasesHold ==
  /\ \A t, u \in work : t = u
  /\ \A t \in work : Completed \subseteq base[t]

\* The types, with all that the other invariants and the refinement rest on.
ChainInv ==
  /\ TypeOK /\ LinearHistory /\ CompletedIsArchived /\ CompletedWorkStays
  /\ ParentsCompleted /\ StagesHold /\ BasesHold
=============================================================================
