-------------------------- MODULE DirLockProofs --------------------------
(***************************************************************************)
(* Proofs about DirLock, for every set of clients and processes, every     *)
(* retry budget and every number of crashes, whatever the timing.          *)
(*                                                                         *)
(* The lock is exclusive, keeps its holder's directory and implements      *)
(* QueueLock until a client strays: removes or names a directory that has  *)
(* been changed since the client looked at it or made it.  LockInv is the  *)
(* invariant that shows it.  A client can stray only after a crash, when   *)
(* writers keep to the TTL (ExclusiveUntilCrash).                          *)
(***************************************************************************)
EXTENDS DirLock, TLAPS

\* The end of an attempt (the two exits of the loop of acquireDirLock) sends the
\* client back to mkdir or to idle and keeps the attempt count within bounds.
LEMMA EndOfAttempt ==
  ASSUME TypeOK, NEW c \in Client, EndAttempt(c)
  PROVE  /\ tries' \in [Client -> 0..(MaxRetries - 1)]
         /\ \E l \in {"idle", "mkdir"} : pc' = [pc EXCEPT ![c] = l]
<1>1. MaxRetries \in Nat /\ MaxRetries > 0
  BY DirLockAssumption
<1>2. tries[c] \in 0..(MaxRetries - 1)
  BY DEF TypeOK
<1>3. CASE tries[c] + 1 = MaxRetries
  BY <1>1, <1>3 DEF EndAttempt, Goto, TypeOK
<1>4. CASE tries[c] + 1 # MaxRetries
  <2>1. tries[c] + 1 \in 0..(MaxRetries - 1)
    BY <1>1, <1>2, <1>4
  <2> QED
    BY <2>1, <1>4 DEF EndAttempt, Goto, TypeOK
<1> QED
  BY <1>3, <1>4

\* Nobody has the lock at first.
LEMMA LockStart == ASSUME Init PROVE LockInv
<1> USE DirLockAssumption
<1>0. 0 \in 0..(MaxRetries - 1)
  OBVIOUS
<1>1. crashes \in 0..MaxCrashes
  BY DEF Init
<1>2. tries \in [Client -> 0..(MaxRetries - 1)]
  BY <1>0 DEF Init
<1>3. TypeOK
  BY <1>1, <1>2 DEF Init, TypeOK, Location
<1> QED
  BY <1>3 DEF Init, LockInv, SingleOwner, Current, HolderOwnsDir, ReclaimIsSafe, Creating,
              Owning, Releasing, Runs

\* Every step keeps LockInv.
LEMMA LockStep == ASSUME LockInv, [Next]_vars PROVE LockInv'
<1> USE DirLockAssumption
<1>0. 0 \in 0..(MaxRetries - 1)
  OBVIOUS
<1> USE DEF LockInv, TypeOK, SingleOwner, Current, HolderOwnsDir, ReclaimIsSafe, Location,
            Creating, Owning, Releasing, Runs, At, Goto, KeepDir, KeepProcs, HolderDead,
            history, Reclaimers, Creators, Acts
<1> DEFINE Typed == /\ TypeOK /\ \A d \in Client : ~Runs(d) => pc[d] = "idle"
                    /\ aged => owner = NoOwner
                    /\ overtaken \subseteq Reclaimers \cup Creators
<1>1. ASSUME NEW c \in Client, Start(c) PROVE LockInv'
  BY <1>1 DEF Start
<1>2. ASSUME NEW c \in Client, MakeDir(c) PROVE LockInv'
  <2>1. Typed'
    BY <1>2 DEF MakeDir
  <2>2. ASSUME ~strayed' PROVE SingleOwner' /\ HolderOwnsDir' /\ ReclaimIsSafe'
    <3>1. SingleOwner /\ HolderOwnsDir /\ ReclaimIsSafe
      BY <1>2, <2>2 DEF MakeDir
    <3>2. SingleOwner'
      BY <1>2, <2>2, <3>1 DEF MakeDir
    <3>3. HolderOwnsDir'
      BY <1>2, <2>2, <3>1 DEF MakeDir
    <3>4. ReclaimIsSafe'
      BY <1>2, <2>2, <3>1 DEF MakeDir
    <3> QED
      BY <3>2, <3>3, <3>4
  <2> QED
    BY <2>1, <2>2
<1>3. ASSUME NEW c \in Client, DirExists(c) PROVE LockInv'
  BY <1>3 DEF DirExists
<1>4. ASSUME NEW c \in Client, WriteOwner(c) PROVE LockInv'
  <2>1. tries' \in [Client -> 0..(MaxRetries - 1)]
    BY <1>4, <1>0 DEF WriteOwner
  <2>2. pidOf[c] \in Proc /\ owner' = pidOf[c] /\ aged' = FALSE
    BY <1>4 DEF WriteOwner
  <2>3. pc[c] = "writeOwner" /\ pc' = [pc EXCEPT ![c] = "held"] /\ UNCHANGED <<alive, crashes>>
    BY <1>4 DEF WriteOwner
  <2>4. overtaken' \subseteq (overtaken \cup Reclaimers) \ {c} /\ strayed' \in BOOLEAN
    BY <1>4 DEF WriteOwner
  <2>5. Typed'
    <3>1. TypeOK'
      BY <2>1, <2>2, <2>3, <2>4
    <3>2. \A d \in Client : ~Runs(d)' => pc'[d] = "idle"
      BY <1>4, <2>3 DEF WriteOwner
    <3>3. overtaken' \subseteq (Reclaimers \cup Creators)'
      BY <2>3, <2>4
    <3> QED
      BY <2>2, <3>1, <3>2, <3>3
  <2>6. ASSUME ~strayed' PROVE SingleOwner' /\ HolderOwnsDir' /\ ReclaimIsSafe'
    <3>1. SingleOwner /\ HolderOwnsDir /\ ReclaimIsSafe /\ (c \in overtaken => owner = NoDir)
      BY <2>1, <1>4, <2>6 DEF WriteOwner
    <3>2. SingleOwner'
      BY <2>1, <1>4, <2>6, <3>1 DEF WriteOwner
    <3>3. HolderOwnsDir'
      BY <2>1, <1>4, <2>6, <3>1 DEF WriteOwner
    <3>4. ReclaimIsSafe'
      BY <2>1, <1>4, <2>6, <3>1 DEF WriteOwner
    <3> QED
      BY <3>2, <3>3, <3>4
  <2> QED
    BY <2>5, <2>6
<1>5. ASSUME NEW c \in Client, WriteOwnerFails(c) PROVE LockInv'
  BY <1>5 DEF WriteOwnerFails
<1>6. ASSUME NEW c \in Client, UndoMkdir(c) PROVE LockInv'
  <2>1. PICK l \in {"idle", "mkdir"} : pc' = [pc EXCEPT ![c] = l]
    BY <1>6, EndOfAttempt DEF UndoMkdir
  <2>2. tries' \in [Client -> 0..(MaxRetries - 1)]
    BY <1>6, EndOfAttempt DEF UndoMkdir
  <2>3. Typed'
    BY <2>1, <2>2, <1>6 DEF UndoMkdir, RemoveDir
  <2>4. ASSUME ~strayed' PROVE SingleOwner' /\ HolderOwnsDir' /\ ReclaimIsSafe'
    <3>1. SingleOwner /\ HolderOwnsDir /\ ReclaimIsSafe /\ (c \in overtaken => owner = NoDir)
      BY <2>1, <2>2, <1>6, <2>4 DEF UndoMkdir, RemoveDir
    <3>2. SingleOwner'
      BY <2>1, <2>2, <1>6, <2>4, <3>1 DEF UndoMkdir, RemoveDir
    <3>3. HolderOwnsDir'
      BY <2>1, <2>2, <1>6, <2>4, <3>1 DEF UndoMkdir, RemoveDir
    <3>4. ReclaimIsSafe'
      BY <2>1, <2>2, <1>6, <2>4, <3>1 DEF UndoMkdir, RemoveDir
    <3> QED
      BY <3>2, <3>3, <3>4
  <2> QED
    BY <2>3, <2>4
<1>7. ASSUME NEW c \in Client, ReadOwner(c) PROVE LockInv'
  BY <1>7 DEF ReadOwner
<1>8. ASSUME NEW c \in Client, StatDir(c) PROVE LockInv'
  BY <1>8 DEF StatDir
<1>9. ASSUME NEW c \in Client, Reclaim(c) PROVE LockInv'
  <2>1. PICK l \in {"idle", "mkdir"} : pc' = [pc EXCEPT ![c] = l]
    BY <1>9, EndOfAttempt DEF Reclaim
  <2>2. tries' \in [Client -> 0..(MaxRetries - 1)]
    BY <1>9, EndOfAttempt DEF Reclaim
  <2>3. Typed'
    BY <2>1, <2>2, <1>9 DEF Reclaim, RemoveDir
  <2>4. ASSUME ~strayed' PROVE SingleOwner' /\ HolderOwnsDir' /\ ReclaimIsSafe'
    <3>1. SingleOwner /\ HolderOwnsDir /\ ReclaimIsSafe /\ (c \in overtaken => owner = NoDir)
      BY <2>1, <2>2, <1>9, <2>4 DEF Reclaim, RemoveDir
    <3>2. SingleOwner'
      BY <2>1, <2>2, <1>9, <2>4, <3>1 DEF Reclaim, RemoveDir
    <3>3. HolderOwnsDir'
      BY <2>1, <2>2, <1>9, <2>4, <3>1 DEF Reclaim, RemoveDir
    <3>4. ReclaimIsSafe'
      BY <2>1, <2>2, <1>9, <2>4, <3>1 DEF Reclaim, RemoveDir
    <3> QED
      BY <3>2, <3>3, <3>4
  <2> QED
    BY <2>3, <2>4
<1>10. ASSUME NEW c \in Client, Backoff(c) PROVE LockInv'
  BY <1>10, EndOfAttempt DEF Backoff
<1>11. ASSUME NEW c \in Client, Finish(c) PROVE LockInv'
  BY <1>11 DEF Finish
<1>12. ASSUME NEW c \in Client, CheckOwner(c) PROVE LockInv'
  BY <1>12 DEF CheckOwner
<1>13. ASSUME NEW c \in Client, Release(c) PROVE LockInv'
  <2>1. Typed'
    BY <1>13 DEF Release, RemoveDir
  <2>2. ASSUME ~strayed' PROVE SingleOwner' /\ HolderOwnsDir' /\ ReclaimIsSafe'
    <3>1. SingleOwner /\ HolderOwnsDir /\ ReclaimIsSafe
      BY <1>13, <2>2 DEF Release
    <3>2. \A d \in Client \ {c} : d \in Current => FALSE
      BY <1>13, <3>1 DEF Release
    <3>3. SingleOwner' /\ HolderOwnsDir'
      BY <1>13, <3>2 DEF Release, RemoveDir
    <3>4. ReclaimIsSafe'
      BY <1>13, <3>1 DEF Release, RemoveDir
    <3> QED
      BY <3>3, <3>4
  <2> QED
    BY <2>1, <2>2
<1>14. ASSUME NEW p \in Proc, Crash(p) PROVE LockInv'
  <2>1. Typed'
    BY <1>14 DEF Crash
  <2>2. ASSUME ~strayed' PROVE SingleOwner' /\ HolderOwnsDir' /\ ReclaimIsSafe'
    <3>1. SingleOwner /\ HolderOwnsDir /\ ReclaimIsSafe
      BY <1>14, <2>2 DEF Crash
    <3>2. SingleOwner'
      BY <1>14, <2>2, <3>1 DEF Crash
    <3>3. HolderOwnsDir'
      BY <1>14, <2>2, <3>1 DEF Crash
    <3>4. ReclaimIsSafe'
      BY <1>14, <2>2, <3>1 DEF Crash
    <3> QED
      BY <3>2, <3>3, <3>4
  <2> QED
    BY <2>1, <2>2
<1>15. CASE AgeDir
  BY <1>15 DEF AgeDir
<1>16. CASE UNCHANGED vars
  BY <1>16 DEF vars
<1> QED
  BY <1>1, <1>2, <1>3, <1>4, <1>5, <1>6, <1>7, <1>8, <1>9, <1>10, <1>11, <1>12,
     <1>13, <1>14, <1>15, <1>16 DEF Next, Step

\* Every reachable state is well typed and satisfies the strengthening LockInv
\* (dirLock.ts: acquire, reclaim and release together).
THEOREM LockInvariance == Spec => []LockInv
<1>1. Init => LockInv
  BY LockStart
<1>2. LockInv /\ [Next]_vars => LockInv'
  BY LockStep
<1> QED
  BY <1>1, <1>2, PTL DEF Spec

\* Two clients in the critical section of withDirLock together: one of them, or a third,
\* has strayed.
THEOREM LockIsExclusive == Spec => []ExclusiveUnlessStrayed
<1>1. LockInv => ExclusiveUnlessStrayed
  BY DEF LockInv, SingleOwner, Current, Reclaimers, Creators, Creating, Owning, MutualExclusion,
     ExclusiveUnlessStrayed
<1> QED
  BY <1>1, LockInvariance, PTL

\* The directory of a lock that is held, or being released, names its holder: nobody
\* has reclaimed it or written over it, unless a client has strayed.
THEOREM HolderKeepsDirectory == Spec => []DirectoryKeptUnlessStrayed
<1>1. LockInv => DirectoryKeptUnlessStrayed
  BY DEF LockInv, DirectoryKeptUnlessStrayed
<1> QED
  BY <1>1, LockInvariance, PTL

\* The history does not forget that a client has strayed.
LEMMA StrayedStays ==
  ASSUME LockInv, [Next]_vars, strayed
  PROVE  strayed'
  BY DEF Next, Step, Start, MakeDir, DirExists, WriteOwner, WriteOwnerFails, UndoMkdir, ReadOwner,
     StatDir, Reclaim, Backoff, Finish, CheckOwner, Release, Crash, AgeDir, KeepDir, history,
     Acts, vars

\* The directory lock implements the lock the queue code relies on, until a client strays.
THEOREM LockRefinement == Spec => ImplementsQueueLock
<1> DEFINE Held == {c \in Client : pc[c] = "held"}
<1>1. Init => Lock!Init
  BY DEF Init, Lock!Init, Inside
<1>2. LockInv /\ LockInv' /\ [Next]_vars => [Lock!Next]_Inside
  <2> SUFFICES ASSUME LockInv, LockInv', [Next]_vars PROVE [Lock!Next]_Inside
    OBVIOUS
  <2>1. CASE strayed'
    BY <2>1 DEF Inside, Lock!Next, Lock!Leave
  <2>2. CASE ~strayed'
    <3>1. ~strayed /\ Inside = Held /\ Inside' = Held'
      BY <2>2, StrayedStays DEF Inside
    <3>2. pc \in [Client -> Location]
      BY DEF LockInv, TypeOK
    <3>3. \A c, d \in Client : pc[c] \in {"held"} /\ pc[d] \in {"held"} => c = d
      BY <3>1 DEF LockInv, SingleOwner, Current, Reclaimers, Creators, Creating, Owning
    <3>4. ASSUME NEW c \in Client, WriteOwner(c) PROVE Held = {} /\ Held' = {c}
      <4>1. pc[c] = "writeOwner" /\ pc' = [pc EXCEPT ![c] = "held"]
        BY <3>4 DEF WriteOwner, At, Goto
      <4>2. Held = {}
        <5>1. ASSUME NEW d \in Client, pc[d] = "held" PROVE FALSE
          <6>1. owner = pidOf[d] /\ owner \notin {NoDir, NoOwner}
            BY <3>1, <5>1, DirLockAssumption DEF LockInv, HolderOwnsDir, Owning
          <6>2. c \in overtaken
            BY <3>1, <4>1, <6>1 DEF LockInv, SingleOwner, Current, Creating
          <6> QED
            BY <2>2, <3>4, <6>1, <6>2 DEF WriteOwner, Acts
        <5> QED
          BY <5>1
      <4>3. Held' = {c}
        BY <3>2, <4>1, <4>2
      <4> QED
        BY <4>2, <4>3
    <3>5. ASSUME NEW c \in Client, Finish(c) PROVE Held' = {}
      <4>1. pc[c] = "held" /\ pc' = [pc EXCEPT ![c] = "checkOwner"]
        BY <3>5 DEF Finish, At, Goto
      <4> QED
        BY <3>2, <3>3, <4>1
    <3>6. ASSUME NEW p \in Proc, Crash(p) PROVE Held' = {} \/ Held' = Held
      <4>1. pc' = [c \in Client |-> IF pidOf[c] = p THEN "idle" ELSE pc[c]]
        BY <3>6 DEF Crash
      <4>2. CASE \E c \in Client : pc[c] = "held" /\ pidOf[c] = p
        BY <3>3, <4>1, <4>2
      <4>3. CASE ~ \E c \in Client : pc[c] = "held" /\ pidOf[c] = p
        BY <4>1, <4>3
      <4> QED
        BY <4>2, <4>3
    <3>7. ASSUME NEW c \in Client,
                 \/ Start(c) \/ MakeDir(c) \/ DirExists(c) \/ WriteOwnerFails(c)
                 \/ UndoMkdir(c) \/ ReadOwner(c) \/ StatDir(c) \/ Reclaim(c)
                 \/ Backoff(c) \/ CheckOwner(c) \/ Release(c)
          PROVE  Held' = Held
      <4>1. /\ pc[c] # "held"
            /\ \E l \in Location \ {"held"} : pc' = [pc EXCEPT ![c] = l]
        BY <3>7 DEF Start, MakeDir, DirExists, WriteOwnerFails, UndoMkdir, ReadOwner, StatDir,
           Reclaim, Backoff, CheckOwner, Release, EndAttempt, At, Goto, Location
      <4> QED
        BY <3>2, <4>1
    <3>8. ASSUME AgeDir \/ UNCHANGED vars PROVE Held' = Held
      BY <3>8 DEF AgeDir, vars
    <3> HIDE DEF Held
    <3>9. \/ Held' = {} \/ Held' = Held
          \/ Held = {} /\ \E c \in Client : Held' = {c}
      BY <3>4, <3>5, <3>6, <3>7, <3>8 DEF Next, Step
    <3> QED
      BY <3>1, <3>9 DEF Lock!Next, Lock!Enter, Lock!Leave
  <2> QED
    BY <2>1, <2>2
<1> QED
  BY <1>1, <1>2, LockInvariance, PTL DEF Spec, ImplementsQueueLock, Lock!Spec

--------------------------------------------------------------------------
\* Before the first crash.  Whoever has made a directory without owner.json is still
\* about to write it, and the owner named in one is alive: no reclaimer gets as far as
\* its rm, and nobody is overtaken.
SafeUntilCrash ==
  crashes = 0 =>
    /\ LockInv
    /\ alive = Proc
    /\ overtaken = {} /\ ~strayed /\ ~aged
    /\ \A c \in Client : pc[c] # "reclaim"
    /\ owner = NoOwner => \E c \in Client : pc[c] \in Creating

\* Crashes are never undone.
LEMMA CrashesCount ==
  ASSUME crashes \in Nat, [Next]_vars
  PROVE  crashes' \in Nat /\ (crashes' = 0 => crashes = 0 /\ alive' = alive)
<1>1. ASSUME NEW p \in Proc, Crash(p) PROVE crashes' = crashes + 1
  BY <1>1 DEF Crash
<1>2. ASSUME NEW c \in Client, Step(c) \/ WriteOwnerFails(c) PROVE UNCHANGED <<crashes, alive>>
  BY <1>2 DEF Step, WriteOwnerFails, Start, MakeDir, DirExists, WriteOwner, UndoMkdir, ReadOwner,
     StatDir, Reclaim, Backoff, Finish, CheckOwner, Release, KeepProcs
<1> QED
  BY <1>1, <1>2 DEF Next, AgeDir, KeepProcs, vars

LEMMA SafeStep ==
  ASSUME PromptWrite, SafeUntilCrash, crashes \in Nat, [Next]_vars
  PROVE  SafeUntilCrash'
<1> SUFFICES ASSUME crashes' = 0 PROVE SafeUntilCrash'
  BY DEF SafeUntilCrash
<1> USE DirLockAssumption
<1>1. crashes = 0 /\ alive' = alive
  BY CrashesCount
<1>2. LockInv /\ alive = Proc /\ \A c \in Client : pc[c] # "reclaim"
  BY <1>1 DEF SafeUntilCrash
<1>3. owner = NoOwner => \E c \in Client : pc[c] \in Creating
  BY <1>1 DEF SafeUntilCrash
<1>4. LockInv'
  BY <1>2, LockStep
<1>5. ~HolderDead /\ overtaken = {} /\ ~strayed /\ ~aged
  BY <1>1, <1>2 DEF HolderDead, SafeUntilCrash
<1> DEFINE Quiet == /\ \A c \in Client : pc'[c] # "reclaim"
                    /\ owner' = NoOwner => \E c \in Client : pc'[c] \in Creating
                    /\ overtaken' = {} /\ ~strayed' /\ ~aged'
<1> USE DEF At, Goto, KeepDir, KeepProcs, Creating, history, Reclaimers, Acts
<1>t. pc \in [Client -> Location]
  BY <1>2 DEF LockInv, TypeOK
<1>6. ASSUME NEW c \in Client, Start(c) PROVE Quiet
  BY <1>2, <1>3, <1>5, <1>t, <1>6 DEF Start
<1>7. ASSUME NEW c \in Client, MakeDir(c) PROVE Quiet
  BY <1>2, <1>5, <1>t, <1>7 DEF MakeDir
<1>8. ASSUME NEW c \in Client, DirExists(c) PROVE Quiet
  BY <1>2, <1>3, <1>5, <1>t, <1>8 DEF DirExists
<1>9. ASSUME NEW c \in Client, WriteOwner(c) PROVE Quiet
  BY <1>2, <1>5, <1>t, <1>9 DEF WriteOwner
<1>10. ASSUME NEW c \in Client, WriteOwnerFails(c) PROVE Quiet
  BY <1>2, <1>3, <1>5, <1>t, <1>10 DEF WriteOwnerFails
<1>11. ASSUME NEW c \in Client, UndoMkdir(c) PROVE Quiet
  <2>1. PICK l \in {"idle", "mkdir"} : pc' = [pc EXCEPT ![c] = l]
    BY <1>2, <1>11, EndOfAttempt DEF UndoMkdir, LockInv
  <2> QED
    BY <1>2, <1>5, <1>t, <1>11, <2>1 DEF UndoMkdir, RemoveDir
<1>12. ASSUME NEW c \in Client, ReadOwner(c) PROVE Quiet
  BY <1>2, <1>3, <1>5, <1>t, <1>12 DEF ReadOwner
<1>13. ASSUME NEW c \in Client, StatDir(c) PROVE Quiet
  BY <1>2, <1>3, <1>5, <1>t, <1>13 DEF StatDir
<1>14. ASSUME NEW c \in Client, Backoff(c) PROVE Quiet
  <2>1. PICK l \in {"idle", "mkdir"} : pc' = [pc EXCEPT ![c] = l]
    BY <1>2, <1>14, EndOfAttempt DEF Backoff, LockInv
  <2> QED
    BY <1>2, <1>3, <1>5, <1>t, <1>14, <2>1 DEF Backoff
<1>15. ASSUME NEW c \in Client, Finish(c) \/ CheckOwner(c) PROVE Quiet
  BY <1>2, <1>3, <1>5, <1>t, <1>15 DEF Finish, CheckOwner
<1>16. ASSUME NEW c \in Client, Release(c) PROVE Quiet
  BY <1>2, <1>5, <1>t, <1>16 DEF Release, RemoveDir
<1>17. ASSUME NEW c \in Client, Reclaim(c) PROVE FALSE
  BY <1>2, <1>17 DEF Reclaim
<1>18. ASSUME NEW p \in Proc, Crash(p) PROVE FALSE
  BY <1>1, <1>18 DEF Crash
<1>19. ASSUME AgeDir PROVE FALSE
  BY <1>3, <1>19 DEF AgeDir
<1>20. ASSUME UNCHANGED vars PROVE Quiet
  BY <1>2, <1>3, <1>5, <1>20 DEF vars
<1>21. Quiet
  <2> HIDE DEF Quiet
  <2> QED
    BY <1>6, <1>7, <1>8, <1>9, <1>10, <1>11, <1>12, <1>13, <1>14, <1>15, <1>16, <1>17, <1>18,
       <1>19, <1>20 DEF Next, Step
<1> QED
  BY <1>1, <1>2, <1>4, <1>21 DEF SafeUntilCrash

\* As long as no process has crashed, no two clients are in the critical section together,
\* and nobody's directory is taken away, however slow reclaimers are: two of them can only
\* fall over each other (finding 1 of the README) on what a crash has left behind.
THEOREM ExclusiveUntilCrash ==
  ASSUME PromptWrite
  PROVE  Spec => [](crashes = 0 => MutualExclusion /\ HolderOwnsDir)
<1> DEFINE Counted == crashes \in Nat
           Safe    == crashes = 0 => MutualExclusion /\ HolderOwnsDir
<1>1. ASSUME Init PROVE SafeUntilCrash /\ Counted
  <2>1. LockInv
    BY <1>1, LockStart
  <2>2. alive = Proc /\ crashes = 0 /\ owner # NoOwner
    BY <1>1, DirLockAssumption DEF Init
  <2>3. \A c \in Client : pc[c] # "reclaim"
    BY <1>1 DEF Init
  <2> QED
    BY <1>1, <2>1, <2>2, <2>3 DEF SafeUntilCrash, Init
<1>2. SafeUntilCrash /\ Counted /\ [Next]_vars => SafeUntilCrash' /\ Counted'
  BY SafeStep, CrashesCount
<1>3. SafeUntilCrash => Safe
  BY DEF SafeUntilCrash, LockInv, SingleOwner, Current, MutualExclusion, Owning
<1>4. Spec => []Safe
  <2> HIDE DEF Counted, Safe
  <2> QED
    BY <1>1, <1>2, <1>3, PTL DEF Spec
<1> QED
  BY <1>4
==========================================================================
