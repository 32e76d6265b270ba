----------------------------- MODULE DirLock -----------------------------
(***************************************************************************)
(* The directory lock of queue/dirLock.ts, which serialises every mutation *)
(* of the queue (and, through registryLock.ts, of the task registry).      *)
(*                                                                         *)
(* A client takes the lock by creating the lock directory (mkdir is        *)
(* atomic) and then writes owner.json with its process id.  A client that  *)
(* finds the directory reads owner.json and, when the process named there  *)
(* is dead, or when there is no owner and the directory is older than the  *)
(* TTL, removes the directory and tries again.  Each file operation is a   *)
(* step of its own: between any two of them other clients run and          *)
(* processes crash.                                                        *)
(***************************************************************************)
EXTENDS Naturals, FiniteSets

CONSTANTS
  Client,         \* the calls of acquireDirLock: async operations of all processes
  Proc,           \* the processes; a process id names one of them and is never reused
  pidOf,          \* the process in which each client runs
  MaxRetries,     \* the maxRetries argument of acquireDirLock
  PromptWrite,    \* TRUE: a live creator writes owner.json, or gives up, within the TTL
  MaxCrashes,     \* bound on the number of processes that crash
  NoDir, NoOwner  \* owner values: no lock directory; a directory without owner.json

ASSUME DirLockAssumption ==
  /\ pidOf \in [Client -> Proc]
  /\ MaxRetries \in Nat \ {0}
  /\ MaxCrashes \in Nat
  /\ PromptWrite \in BOOLEAN
  /\ NoDir \notin Proc /\ NoOwner \notin Proc /\ NoDir # NoOwner

VARIABLES
  owner,    \* NoDir, NoOwner, or the process id in owner.json
  aged,     \* TRUE when the directory has no owner and is older than the TTL
  alive,    \* the processes that run
  crashes,  \* how many processes have crashed
  pc,       \* where each client is
  tries,    \* attempts each client has used up
  \* Two history variables: no action depends on them.
  overtaken,  \* the clients about to remove or to name the directory that they have found
              \* stale, or have made, although somebody else has changed it since, or may
              \* have: its age no longer protects it
  strayed     \* one of them has done so to a directory that was there

history == <<overtaken, strayed>>
vars == <<owner, aged, alive, crashes, pc, tries, history>>

Location == {"idle", "mkdir", "writeOwner", "undoMkdir", "held",
             "readOwner", "stat", "reclaim", "backoff", "checkOwner", "rmdir"}

\* The places where a client has created the directory and not yet removed it.
Creating  == {"writeOwner", "undoMkdir"}
Releasing == {"checkOwner", "rmdir"}
Owning    == {"held"} \cup Releasing

TypeOK ==
  /\ owner \in Proc \cup {NoDir, NoOwner}
  /\ aged \in BOOLEAN
  /\ alive \subseteq Proc
  /\ crashes \in 0..MaxCrashes
  /\ pc \in [Client -> Location]
  /\ tries \in [Client -> 0..(MaxRetries - 1)]
  /\ overtaken \subseteq Client
  /\ strayed \in BOOLEAN

Init ==
  /\ owner = NoDir
  /\ aged = FALSE
  /\ alive = Proc
  /\ crashes = 0
  /\ pc = [c \in Client |-> "idle"]
  /\ tries = [c \in Client |-> 0]
  /\ overtaken = {}
  /\ strayed = FALSE

--------------------------------------------------------------------------
Runs(c)    == pidOf[c] \in alive
At(c, l)   == Runs(c) /\ pc[c] = l
Goto(c, l) == pc' = [pc EXCEPT ![c] = l]
KeepDir    == UNCHANGED <<owner, aged, history>>
KeepProcs  == UNCHANGED <<alive, crashes>>

\* rm -rf of the lock directory: a no-op when it is gone already.
RemoveDir  == owner' = NoDir /\ aged' = FALSE

Reclaimers == {c \in Client : pc[c] = "reclaim"}
Creators   == {c \in Client : pc[c] \in Creating}

\* The client removes or names the directory: does it stray?
Acts(c) == strayed' = (strayed \/ (c \in overtaken /\ owner # NoDir))

\* A mutant: any recorded owner counts as dead.
HolderDeadAlways == owner \in Proc

\* isHolderDead: signal 0 reports that there is no such process.
HolderDead == owner \in Proc /\ owner \notin alive

\* An attempt is over: `continue`, or null when maxRetries is reached.
EndAttempt(c) ==
  IF tries[c] + 1 = MaxRetries
  THEN Goto(c, "idle")  /\ tries' = [tries EXCEPT ![c] = 0]
  ELSE Goto(c, "mkdir") /\ tries' = [tries EXCEPT ![c] = tries[c] + 1]

Start(c) ==
  /\ At(c, "idle")
  /\ Goto(c, "mkdir")
  /\ KeepDir /\ KeepProcs /\ UNCHANGED tries

\* A mutant: mkdir with `recursive`, which succeeds on an existing directory.
MakeDirRecursive(c) ==
  /\ At(c, "mkdir")
  /\ owner' = (IF owner = NoDir THEN NoOwner ELSE owner) /\ UNCHANGED <<aged, strayed>>
  /\ overtaken' = overtaken \cup Reclaimers
  /\ Goto(c, "writeOwner")
  /\ KeepProcs /\ UNCHANGED tries

\* mkdir succeeds: the directory is ours, still without an owner.  Whoever was about to
\* remove an earlier one is overtaken.
MakeDir(c) ==
  /\ At(c, "mkdir")
  /\ owner = NoDir
  /\ owner' = NoOwner /\ aged' = FALSE
  /\ overtaken' = overtaken \cup Reclaimers /\ UNCHANGED strayed
  /\ Goto(c, "writeOwner")
  /\ KeepProcs /\ UNCHANGED tries

\* mkdir fails with EEXIST.
DirExists(c) ==
  /\ At(c, "mkdir")
  /\ owner # NoDir
  /\ Goto(c, "readOwner")
  /\ KeepDir /\ KeepProcs /\ UNCHANGED tries

\* writeTextFileAtomic re-creates a missing directory and replaces the
\* owner.json of anybody else.  After the TTL, or when the directory was gone, it overtakes
\* those who were about to remove it.
WriteOwner(c) ==
  /\ At(c, "writeOwner")
  /\ owner' = pidOf[c] /\ aged' = FALSE
  /\ Acts(c)
  /\ overtaken' = (IF aged \/ owner = NoDir THEN overtaken \cup Reclaimers ELSE overtaken) \ {c}
  /\ Goto(c, "held")
  /\ tries' = [tries EXCEPT ![c] = 0]
  /\ KeepProcs

WriteOwnerFails(c) ==
  /\ At(c, "writeOwner")
  /\ Goto(c, "undoMkdir")
  /\ KeepDir /\ KeepProcs /\ UNCHANGED tries

UndoMkdir(c) ==
  /\ At(c, "undoMkdir")
  /\ RemoveDir
  /\ Acts(c) /\ overtaken' = overtaken \ {c}
  /\ EndAttempt(c)
  /\ KeepProcs

\* A mutant: a directory without owner.json is taken for a stale one at once.
ReadOwnerNoStat(c) ==
  /\ At(c, "readOwner")
  /\ IF owner \in Proc /\ ~HolderDead THEN Goto(c, "backoff") ELSE Goto(c, "reclaim")
  /\ KeepDir /\ KeepProcs /\ UNCHANGED tries

\* tryReclaimStaleLock: a dead owner leads to rm, a live one to backoff; with
\* no readable owner.json the age of the directory decides.
ReadOwner(c) ==
  /\ At(c, "readOwner")
  /\ \/ owner \in Proc /\ HolderDead /\ Goto(c, "reclaim")
     \/ owner \in Proc /\ ~HolderDead /\ Goto(c, "backoff")
     \/ owner \notin Proc /\ Goto(c, "stat")
  /\ KeepDir /\ KeepProcs /\ UNCHANGED tries

\* Two mutants: the age is not looked at; a directory without owner.json is
\* never reclaimed.
StatDirAnyAge(c) ==
  /\ At(c, "stat")
  /\ IF owner = NoOwner THEN Goto(c, "reclaim") ELSE Goto(c, "backoff")
  /\ KeepDir /\ KeepProcs /\ UNCHANGED tries

StatDirNever(c) ==
  /\ At(c, "stat")
  /\ Goto(c, "backoff")
  /\ KeepDir /\ KeepProcs /\ UNCHANGED tries

\* stat: a missing or young directory is left alone.  An owner.json written
\* since the read makes the directory young again.
StatDir(c) ==
  /\ At(c, "stat")
  /\ IF owner = NoOwner /\ aged THEN Goto(c, "reclaim") ELSE Goto(c, "backoff")
  /\ KeepDir /\ KeepProcs /\ UNCHANGED tries

\* A creator slower than the TTL is overtaken by the reclaimer of its directory.
Reclaim(c) ==
  /\ At(c, "reclaim")
  /\ RemoveDir
  /\ Acts(c)
  /\ overtaken' = (IF aged THEN overtaken \cup Creators ELSE overtaken) \ {c}
  /\ EndAttempt(c)
  /\ KeepProcs

Backoff(c) ==
  /\ At(c, "backoff")
  /\ EndAttempt(c)
  /\ KeepDir /\ KeepProcs

\* The critical section ends and the release function starts.
Finish(c) ==
  /\ At(c, "held")
  /\ Goto(c, "checkOwner")
  /\ KeepDir /\ KeepProcs /\ UNCHANGED tries

\* Somebody else's owner.json: return without removing anything.  A missing or
\* unreadable owner.json counts as ours.
CheckOwner(c) ==
  /\ At(c, "checkOwner")
  /\ IF owner \in Proc /\ owner # pidOf[c] THEN Goto(c, "idle") ELSE Goto(c, "rmdir")
  /\ KeepDir /\ KeepProcs /\ UNCHANGED tries

Release(c) ==
  /\ At(c, "rmdir")
  /\ RemoveDir
  /\ Goto(c, "idle")
  /\ KeepProcs /\ UNCHANGED <<tries, history>>

\* A process dies with all its clients; what it left on disk stays.
Crash(p) ==
  /\ p \in alive
  /\ crashes < MaxCrashes
  /\ crashes' = crashes + 1
  /\ alive' = alive \ {p}
  /\ pc' = [c \in Client |-> IF pidOf[c] = p THEN "idle" ELSE pc[c]]
  /\ tries' = [c \in Client |-> IF pidOf[c] = p THEN 0 ELSE tries[c]]
  /\ overtaken' = {c \in overtaken : pidOf[c] # p}
  /\ UNCHANGED <<owner, aged, strayed>>

\* The TTL of a directory without owner.json runs out.
AgeDir ==
  /\ owner = NoOwner /\ ~aged
  /\ PromptWrite => \A c \in Client : pc[c] \notin Creating
  /\ aged' = TRUE
  /\ UNCHANGED <<owner, pc, tries, history>> /\ KeepProcs

\* The steps of one client that its process takes without help.
Step(c) ==
  \/ Start(c) \/ MakeDir(c) \/ DirExists(c) \/ WriteOwner(c) \/ UndoMkdir(c)
  \/ ReadOwner(c) \/ StatDir(c) \/ Reclaim(c) \/ Backoff(c)
  \/ Finish(c) \/ CheckOwner(c) \/ Release(c)

Next ==
  \/ \E c \in Client : Step(c) \/ WriteOwnerFails(c)
  \/ \E p \in Proc : Crash(p)
  \/ AgeDir

Spec == Init /\ [][Next]_vars

\* Every live client goes on (the callers poll: watchers and the recovery
\* interval retry the operation), and time passes.
FairSpec == Spec /\ WF_vars(AgeDir) /\ \A c \in Client : WF_vars(Step(c))

--------------------------------------------------------------------------
\* Two clients are never in the critical section together: what withDirLock
\* offers to every queue mutation (dirLock.ts, withDirLock).
MutualExclusion ==
  \A c, d \in Client : pc[c] = "held" /\ pc[d] = "held" => c = d

\* Whoever holds the lock, or is about to remove it on release, still finds its
\* own process id in owner.json: no reclaimer, failed writer or slow releaser
\* has removed or replaced the directory under it.
HolderOwnsDir ==
  \A c \in Client : pc[c] \in Owning => owner = pidOf[c]

\* dirLock.ts looks at a directory and removes it later, without looking again, and writes
\* owner.json into a directory that it made some time ago.  These two windows are the only
\* holes: as long as no overtaken client has acted on a directory that was there, two
\* clients are never in the critical section together, however slow reclaimers and
\* writers are and whoever crashes.
ExclusiveUnlessStrayed == strayed \/ MutualExclusion

\* Until then, too, nobody takes a holder's directory away or writes over its owner.json.
DirectoryKeptUnlessStrayed == strayed \/ HolderOwnsDir

\* The clients between their mkdir and the end of their release, those left aside that
\* are overtaken.  There is at most one; the directory is without an owner in its window
\* before owner.json, or after a crash in that window.
Current == {c \in Client : pc[c] \in Creating \cup Owning} \ overtaken
SingleOwner ==
  /\ \A c, d \in Current : c = d
  /\ \A c \in Current : pc[c] \in Creating => owner = NoOwner

\* A reclaimer that is about to remove the directory and has not been overtaken looks at
\* one that nobody alive has named: its owner is dead, or it aged without an owner, or
\* another reclaimer removed it already.
ReclaimIsSafe ==
  \A c \in Client : pc[c] = "reclaim" /\ c \notin overtaken =>
    owner = NoDir \/ HolderDead \/ (owner = NoOwner /\ aged)

\* The strengthening that is inductive.
LockInv ==
  /\ TypeOK
  /\ \A c \in Client : ~Runs(c) => pc[c] = "idle"
  /\ (aged => owner = NoOwner)
  /\ overtaken \subseteq Reclaimers \cup Creators
  /\ strayed \/ (SingleOwner /\ HolderOwnsDir /\ ReclaimIsSafe)

\* A lock left behind by a crashed holder, or by a crash before owner.json, is
\* taken away again as long as somebody alive keeps trying (tryReclaimStaleLock).
Abandoned == \/ HolderDead
             \/ owner = NoOwner /\ \A c \in Client : pc[c] \notin Creating
AbandonedIsReclaimed == Abandoned ~> ~Abandoned

\* The lock the queue code relies on.  It is implemented until a client strays.
Inside == IF strayed THEN {} ELSE {c \in Client : pc[c] = "held"}
Lock == INSTANCE QueueLock WITH inside <- Inside
ImplementsQueueLock == Lock!Spec
==========================================================================
