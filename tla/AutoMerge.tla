----------------------------- MODULE AutoMerge -----------------------------
(***************************************************************************)
(* The closeout of a task stages its branch in the repositories the        *)
(* operator works in (queue/autoMerge.ts, called by completePendingItem).  *)
(*                                                                         *)
(* The repositories are checked one after the other, then the task's patch *)
(* is applied to the index of each.  A patch that fails is rolled back     *)
(* everywhere, with git reset --hard and git clean.  The closeouts of      *)
(* several tasks exclude each other by the queue lock; the operator works  *)
(* in the repositories whenever he likes, and TaskSail has no lock for     *)
(* that.  What git holds is abstracted to the patches of tasks and the     *)
(* presence of the operator's own changes.                                 *)
(***************************************************************************)
EXTENDS Naturals

CONSTANTS
  Task, NoTask,
  N,          \* the repositories of a task, in the order of its bindings
  Faults,     \* the kinds of fault that may happen
  MaxFaults,  \* bound on the faults of one behaviour
  MaxMoves    \* bound on what the operator does

Repo == 1..N

FaultKind == {"git", "reset", "archive", "crash"}

ASSUME MergeAssumption ==
  /\ NoTask \notin Task
  /\ N \in Nat \ {0}
  /\ Faults \subseteq FaultKind
  /\ MaxFaults \in Nat /\ MaxMoves \in Nat

VARIABLES
  task,     \* where a task is
  index,    \* the tasks whose patch is in the index of a repository
  edits,    \* the operator's own changes there, in the working tree or staged
  blocked,  \* those with a detached HEAD, an operation in progress, or no source branch
  merged,   \* the tasks whose patch is in HEAD
  moved,    \* the repositories whose HEAD is not the base of a task any more
  status,   \* the auto-merge status of a task in a repository
  overlooked,  \* history: the dirty repositories that git did not report when a task was activated
  closer,   \* the task whose closeout holds the queue lock
  pc, at,   \* how far it is, and in which repository
  started,  \* the repositories it has staged and would have to roll back
  bad,      \* the repositories where a precondition has failed, or a rollback
  touched,  \* the repositories the operator has touched since the closeout began
  faults, moves

gitVars   == <<index, edits, blocked, merged, moved>>
closeVars == <<closer, pc, at, started, bad>>
vars == <<task, gitVars, status, overlooked, closeVars, touched, faults, moves>>

Status == {"none", "applied", "noop", "skipped"}

\* A task whose closeout has thrown is "thrown" until the exit handler has failed it; one
\* that the operator completes nevertheless is "repaired".
TaskState == {"waiting", "active", "thrown", "archived", "repaired", "failed"}

TypeOK ==
  /\ task \in [Task -> TaskState]
  /\ index \in [Repo -> SUBSET Task] /\ merged \in [Repo -> SUBSET Task]
  /\ edits \in [Repo -> {"none", "tree", "index"}]
  /\ blocked \in SUBSET Repo /\ moved \in [Task -> SUBSET Repo]
  /\ status \in [Task -> [Repo -> Status]]
  /\ overlooked \in [Task -> SUBSET Repo]
  /\ closer \in Task \cup {NoTask}
  /\ pc \in {"idle", "check", "apply", "diff", "clear", "cleared", "undo", "undone", "archive"}
  /\ at \in Repo
  /\ started \in SUBSET Repo /\ touched \in SUBSET Repo /\ bad \in SUBSET Repo
  /\ faults \in 0..MaxFaults /\ moves \in 0..MaxMoves

AllOf(s) == [r \in Repo |-> s]

Init ==
  /\ task = [t \in Task |-> "waiting"]
  /\ index = AllOf({}) /\ edits = AllOf("none") /\ blocked = {}
  /\ merged = AllOf({}) /\ moved = [t \in Task |-> {}]
  /\ status = [t \in Task |-> AllOf("none")]
  /\ overlooked = [t \in Task |-> {}]
  /\ closer = NoTask /\ pc = "idle" /\ at = 1 /\ started = {} /\ bad = {}
  /\ touched = {} /\ faults = 0 /\ moves = 0

--------------------------------------------------------------------------
\* Helpers

Fault(f) == f \in Faults /\ faults < MaxFaults /\ faults' = faults + 1

\* git status --porcelain reports nothing.
Clean(r) == index[r] = {} /\ edits[r] = "none"
Dirty == {r \in Repo : ~Clean(r)}

Report(r, s) == status' = [status EXCEPT ![closer][r] = s]

\* The closeout throws and its lock is released.
Abandon ==
  /\ task' = [task EXCEPT ![closer] = "thrown"]
  /\ status' = [status EXCEPT ![closer] = AllOf("none")]
  /\ closer' = NoTask /\ pc' = "idle" /\ started' = {} /\ bad' = {}
  /\ UNCHANGED <<at, overlooked, touched, moves>>

\* The closeout goes on in the same repository, with the next one, or to the archive.
Goes(l) == pc' = l /\ UNCHANGED <<closer, at, bad>>

NextRepo ==
  /\ IF at < N THEN pc' = "apply" /\ at' = at + 1 ELSE pc' = "archive" /\ at' = at
  /\ UNCHANGED <<closer, bad>>

SkipAll ==
  /\ pc' = "archive" /\ started' = {} /\ bad' = {}
  /\ status' = [status EXCEPT ![closer] = AllOf("skipped")]
  /\ UNCHANGED <<closer, at>>

\* git reset --hard HEAD and git clean -fd.
Reset(r) ==
  /\ index' = [index EXCEPT ![r] = {}] /\ edits' = [edits EXCEPT ![r] = "none"]
  /\ UNCHANGED <<blocked, merged, moved>>

--------------------------------------------------------------------------
\* The activation, with the rejection of dirty repositories

Starts(t) ==
  /\ task' = [task EXCEPT ![t] = "active"] /\ moved' = [moved EXCEPT ![t] = {}]
  /\ merged' = [r \in Repo |-> merged[r] \ {t}]

\* Mutated: a task is activated whatever its repositories look like.
ActivateAnyway(t) ==
  /\ task[t] = "waiting" /\ closer = NoTask /\ Starts(t)
  /\ UNCHANGED <<index, edits, blocked, status, overlooked, closeVars, touched, faults, moves>>

\* findDirtyTargetRepos: a repository in which git fails counts as clean, so that `seen` may
\* be less than what is dirty.  The new attempt works on a branch of its own, which starts
\* at HEAD.
Activate(t) ==
  /\ task[t] = "waiting" /\ closer = NoTask
  /\ \E seen \in SUBSET Dirty :
       /\ \/ seen = Dirty /\ UNCHANGED faults
          \/ seen # Dirty /\ Fault("git")
       /\ \/ /\ seen = {} /\ Starts(t)
             /\ overlooked' = [overlooked EXCEPT ![t] = Dirty]
          \/ /\ seen # {} /\ task' = [task EXCEPT ![t] = "failed"]
             /\ UNCHANGED <<moved, merged, overlooked>>
  /\ UNCHANGED <<index, edits, blocked, status, closeVars, touched, moves>>

--------------------------------------------------------------------------
\* The closeout (stageAutoMergeCloseout)

\* By the pipeline; once more by the operator, with complete-active-item, if it has thrown.
BeginCloseout(t) ==
  /\ task[t] \in {"active", "thrown"} /\ closer = NoTask
  /\ closer' = t /\ pc' = "check" /\ at' = 1 /\ touched' = {}
  /\ UNCHANGED <<task, gitVars, status, overlooked, started, bad, faults, moves>>

\* After the last check, one failed precondition skips all repositories.
Checked(fails) ==
  \/ /\ at < N /\ at' = at + 1 /\ bad' = bad \cup fails
     /\ UNCHANGED <<closer, pc, started, status>>
  \/ /\ at = N /\ bad \cup fails # {} /\ SkipAll
  \/ /\ at = N /\ bad \cup fails = {} /\ pc' = "apply" /\ at' = 1
     /\ UNCHANGED <<closer, started, bad, status>>

\* Mutated: only what the operator has changed himself counts as dirty.
CheckEdits ==
  /\ pc = "check" /\ Checked({at} \cap (blocked \cup {r \in Repo : edits[r] # "none"}))
  /\ UNCHANGED <<task, gitVars, overlooked, touched, faults, moves>>
\* Mutated: changes that are not staged are not looked for.
CheckIndex ==
  /\ pc = "check"
  /\ Checked({at} \cap (blocked \cup {r \in Repo : index[r] # {} \/ edits[r] = "index"}))
  /\ UNCHANGED <<task, gitVars, overlooked, touched, faults, moves>>
\* evaluatePreconditions of one repository.
Check ==
  /\ pc = "check" /\ Checked({at} \cap (blocked \cup Dirty))
  /\ UNCHANGED <<task, gitVars, overlooked, touched, faults, moves>>

\* The index with the patch of the closeout.
Patched == [index EXCEPT ![at] = @ \cup {closer}]

\* stageBranchPatch.  A patch that is empty, or in HEAD already, changes nothing.
Apply ==
  /\ pc = "apply" /\ Goes("diff")
  /\ index' = index \/ (closer \notin merged[at] /\ index' = Patched)
  /\ UNCHANGED <<task, edits, blocked, merged, moved, status, started, overlooked, touched, faults,
                 moves>>

\* It fails where HEAD has moved on or the operator is in the way, or because git does,
\* with or without conflicts left in the index.
ApplyFails ==
  /\ pc = "apply" /\ Goes("undo")
  /\ \/ (at \in moved[closer] \/ edits[at] # "none" \/ at \in blocked) /\ UNCHANGED faults
     \/ Fault("git")
  /\ index' = index \/ index' = Patched
  /\ UNCHANGED <<task, edits, blocked, merged, moved, status, started, overlooked, touched, moves>>

\* git diff --cached tells whether the patch has changed anything.
Staged ==
  /\ pc = "diff" /\ (index[at] # {} \/ edits[at] = "index")
  /\ started' = started \cup {at} /\ Report(at, "applied") /\ NextRepo
  /\ UNCHANGED <<task, gitVars, overlooked, touched, faults, moves>>

StagedNothing ==
  /\ pc = "diff" /\ index[at] = {} /\ edits[at] # "index"
  /\ Goes("clear")
  /\ UNCHANGED <<task, gitVars, status, started, overlooked, touched, faults, moves>>

\* What is staged in the repositories before stays there.
DiffFails ==
  /\ pc = "diff" /\ Fault("git") /\ Abandon
  /\ UNCHANGED gitVars

\* rollbackStagedApplyAndCheckClean after a patch that changed nothing.
Clear ==
  /\ pc = "clear" /\ Reset(at) /\ Goes("cleared")
  /\ UNCHANGED <<task, status, started, overlooked, touched, faults, moves>>

\* One of the three commands fails, before or after the reset.
ResetFails(r) == Fault("reset") /\ (Reset(r) \/ UNCHANGED gitVars)

ClearFails == pc = "clear" /\ ResetFails(at) /\ Abandon

Cleared ==
  /\ pc = "cleared"
  /\ \/ Clean(at) /\ Report(at, "noop") /\ NextRepo
        /\ UNCHANGED <<task, started, overlooked, touched, moves>>
     \/ ~Clean(at) /\ Abandon
  /\ UNCHANGED <<gitVars, faults>>

\* rollbackFailedAndStarted: first the repository that failed, then those that were
\* staged, the last one first.  Failures are collected and thrown at the end.
\* Mutated: only the repository that failed is rolled back.
UndoFirst(failed) ==
  IF bad \cup failed # {} THEN Abandon ELSE SkipAll /\ UNCHANGED <<task, overlooked, touched, moves>>
UndoNext(failed) ==
  \/ /\ \E r \in started :
          /\ \A s \in started : s <= r
          /\ at' = r /\ started' = started \ {r}
     /\ pc' = "undo" /\ bad' = bad \cup failed
     /\ UNCHANGED <<task, status, closer, overlooked, touched, moves>>
  \/ /\ started = {} /\ bad \cup failed # {} /\ Abandon
  \/ /\ started = {} /\ bad \cup failed = {} /\ SkipAll
     /\ UNCHANGED <<task, overlooked, touched, moves>>

Undo ==
  /\ pc = "undo" /\ Reset(at) /\ Goes("undone")
  /\ UNCHANGED <<task, status, started, overlooked, touched, faults, moves>>

UndoFails == pc = "undo" /\ ResetFails(at) /\ UndoNext({at})

Undone ==
  /\ pc = "undone" /\ UndoNext({at} \cap Dirty)
  /\ UNCHANGED <<gitVars, faults>>

--------------------------------------------------------------------------
\* The rest of the closeout: the handoff metadata with the status, and the archive

Archive ==
  /\ pc = "archive"
  /\ task' = [task EXCEPT ![closer] = IF @ = "active" THEN "archived" ELSE "repaired"]
  /\ closer' = NoTask /\ pc' = "idle" /\ started' = {}
  /\ UNCHANGED <<gitVars, status, at, bad, overlooked, touched, faults, moves>>

\* Nobody takes back what is staged.
ArchiveFails ==
  /\ pc = "archive" /\ Fault("archive") /\ Abandon
  /\ UNCHANGED gitVars

Crash ==
  /\ closer # NoTask /\ Fault("crash") /\ Abandon
  /\ UNCHANGED gitVars

\* The exit handler moves the task to error-items.
ChildExits(t) ==
  /\ task[t] = "thrown" /\ closer = NoTask
  /\ task' = [task EXCEPT ![t] = "failed"]
  /\ UNCHANGED <<gitVars, status, closeVars, overlooked, touched, faults, moves>>

--------------------------------------------------------------------------
\* The operator in his repositories, and in the queue

Moves == moves < MaxMoves /\ moves' = moves + 1 /\ UNCHANGED <<closeVars, status, overlooked, faults>>

In(r) == Moves /\ touched' = (IF closer = NoTask THEN touched ELSE touched \cup {r}) /\ UNCHANGED task

HeadMoves(r) ==
  moved' = [t \in Task |-> IF task[t] \in {"active", "thrown"} THEN moved[t] \cup {r} ELSE moved[t]]

Edit(r) ==
  /\ edits[r] # "index" /\ In(r)
  /\ edits' = [edits EXCEPT ![r] = IF @ = "none" THEN "tree" ELSE "index"]
  /\ UNCHANGED <<index, blocked, merged, moved>>

\* git commit -a: the patches that are staged are in HEAD now.
Commit(r) ==
  /\ ~Clean(r) /\ In(r)
  /\ index' = [index EXCEPT ![r] = {}] /\ edits' = [edits EXCEPT ![r] = "none"]
  /\ merged' = [merged EXCEPT ![r] = @ \cup index[r]] /\ HeadMoves(r)
  /\ UNCHANGED blocked

DiscardChanges(r) == ~Clean(r) /\ In(r) /\ Reset(r)

\* The operator merges the branch of a task himself.
Merge(t, r) ==
  /\ Clean(r) /\ task[t] # "waiting" /\ t \notin merged[r] /\ In(r)
  /\ merged' = [merged EXCEPT ![r] = @ \cup {t}] /\ HeadMoves(r)
  /\ UNCHANGED <<index, edits, blocked>>

Block(r) ==
  /\ In(r) /\ blocked' = IF r \in blocked THEN blocked \ {r} ELSE blocked \cup {r}
  /\ UNCHANGED <<index, edits, merged, moved>>

Retry(t) ==
  /\ task[t] = "failed" /\ Moves
  /\ task' = [task EXCEPT ![t] = "waiting"]
  /\ UNCHANGED <<gitVars, touched>>

--------------------------------------------------------------------------
Staging == Check \/ Apply \/ ApplyFails \/ Staged \/ StagedNothing \/ Clear \/ Cleared

Undoing == Undo \/ Undone

Failing == DiffFails \/ ClearFails \/ UndoFails \/ ArchiveFails \/ Crash

Operator ==
  \/ \E r \in Repo : Edit(r) \/ Commit(r) \/ DiscardChanges(r) \/ Block(r)
  \/ \E t \in Task : Retry(t) \/ \E r \in Repo : Merge(t, r)

Next ==
  \/ \E t \in Task : Activate(t) \/ BeginCloseout(t) \/ ChildExits(t)
  \/ Staging \/ Undoing \/ Archive \/ Failing \/ Operator

Spec == Init /\ [][Next]_vars

--------------------------------------------------------------------------
\* Properties

\* Two tasks never have their patches in the index of a repository at a time, however
\* many are active there: the second closeout finds the first one's patch and skips
\* (evaluatePreconditions, under the queue lock), also when the activation has overlooked
\* what a closeout that threw had left there (findDirtyTargetRepos).
OneTaskPerIndex == \A r \in Repo : \A t, u \in index[r] : t = u

\* A rollback takes away what this closeout has staged and nothing else: no other
\* task's patch, and none of the operator's changes (git reset --hard and git clean -fd
\* in autoMerge.ts).  The exception is the code's: a change that the operator makes in
\* the repository after it has been checked.
RollbackTakesOnlyItsOwn ==
  [][moves' = moves =>
       \A r \in Repo :
         /\ index[r] \ index'[r] \subseteq {closer}
         /\ edits[r] # "none" /\ edits'[r] = "none" => r \in touched]_vars

\* What the archive says of a repository is true: a task that was skipped, there or
\* as a whole, has left nothing in the index, and one that was applied has its patch
\* there when the archive is written, if the operator has not touched the repository
\* meanwhile (buildBranchHandoffsForArchive).  The exceptions are the code's.  A task takes
\* its own patch, left by a closeout that threw, for a dirty repository and is archived as
\* skipped when it is completed once more, or when it is activated once more while git does
\* not report the repository (findDirtyTargetRepos takes a failure for a clean one).
ArchiveTellsTheTruth ==
  \A t \in Task, r \in Repo :
    task[t] = "archived" \/ (t = closer /\ task[t] = "active" /\ pc = "archive") =>
      /\ status[t][r] = "noop" => t \notin index[r]
      /\ status[t][r] = "skipped" => t \notin index[r] \/ r \in overlooked[t]
      /\ status[t][r] = "applied" /\ t = closer /\ r \notin touched => t \in index[r]

--------------------------------------------------------------------------
\* The inductive invariant

\* A patch in an index is that of the closeout under way or of an attempt that is over; the
\* next attempt is active beside it only where the activation has overlooked it.
CloserIsActive ==
  /\ pc = "idle" <=> closer = NoTask
  /\ closer # NoTask => task[closer] \in {"active", "thrown"}
  /\ pc \in {"idle", "check"} => started = {}
  /\ \A t \in Task, r \in Repo :
       task[t] = "active" /\ t \in index[r] =>
         (t = closer /\ pc # "check") \/ r \in overlooked[t]

\* The closeout stages only in repositories that it has found clean: what is there
\* is its own patch, or the operator has come since.
CheckedRepo(r) ==
  \/ pc = "check" /\ bad = {} /\ r < at
  \/ pc \in {"apply", "diff", "clear", "cleared", "undo", "undone"}

CheckedIsClean ==
  \A r \in Repo : CheckedRepo(r) =>
    /\ index[r] \subseteq {closer}
    /\ pc = "check" => index[r] = {}
    /\ edits[r] # "none" => r \in touched

\* Going forward: repositories before this one are staged or no-ops.
ForwardHolds ==
  pc \in {"apply", "diff", "clear", "cleared"} =>
    /\ bad = {}
    /\ \A r \in started : r < at /\ status[closer][r] = "applied"
                          /\ (r \notin touched => closer \in index[r])
    /\ \A r \in Repo \ started : r < at => status[closer][r] = "noop" /\ closer \notin index[r]
    /\ \A r \in Repo : r > at \/ (r = at /\ pc # "diff") => closer \notin index[r]

\* Going back: the repositories that are neither started nor this one are clean of it.
BackwardHolds ==
  pc \in {"undo", "undone"} /\ bad = {} =>
    \A r \in Repo \ (started \cup {at}) : closer \notin index[r]

MergeInv ==
  /\ TypeOK /\ OneTaskPerIndex /\ ArchiveTellsTheTruth
  /\ CloserIsActive /\ CheckedIsClean /\ ForwardHolds /\ BackwardHolds
==========================================================================
