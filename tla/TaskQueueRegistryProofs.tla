---------------------- MODULE TaskQueueRegistryProofs ----------------------
(***************************************************************************)
(* Proofs about the task registry in TaskQueue: what it says of a task the *)
(* operator has not moved agrees with the files of that task.  The         *)
(* registry is mostly written in a step of its own, after the files, so    *)
(* UnmovedAreListed says for each stage which entry there is; that nobody  *)
(* else works on the task meanwhile is SlotInv.                            *)
(***************************************************************************)
EXTENDS TaskQueueSlotProofs

\* Stages in which a task must be listed as active, once its activation has said so.
ListedAt == BusyAt \cup {"closeRegister"}

\* A step that leaves the entry of t, and brings t to no stage that it was not in, keeps
\* what is known of the entry.
LEMMA EntryFrame ==
  ASSUME NEW t \in Task, RegistryHolds(t), reg'[t] = reg[t],
         moves > 0 => moves' > 0, t \in issued => t \in issued',
         place'[t] = {"dropbox"} => place[t] = {"dropbox"},
         place'[t] = {"pending"} /\ t \notin marker' => place[t] = {"pending"} /\ t \notin marker,
         \A th \in Thread :
           \/ pc'[th] = pc[th] /\ arg'[th] = arg[th]
           \/ arg'[th] # t
           \/ pc'[th] \notin StartingAt
           \/ arg[th] = t /\ pc[th] \in StartingAt \ {"actRegister"} /\ pc'[th] # "actRegister",
         pc'[Pipe(t)] \in ListedAt => pc[Pipe(t)] \in ListedAt
  PROVE  RegistryHolds(t)'
<1>1. \A s : Listed(t, s) => Listed(t, s)'
  BY DEF Listed
<1>2. ASSUME NEW th \in Thread, arg'[th] = t
      PROVE  /\ pc'[th] = "actRegister" => Listed(t, "pending")
             /\ pc'[th] \in StartingAt \ {"actRegister"} => Listed(t, "active")
  BY <1>2 DEF RegistryHolds, StartingAt, At
<1> QED
  BY <1>1, <1>2 DEF RegistryHolds, ListedAt, At

\* An activation that has come to its task finds it queued, with nobody else there.
LEMMA EntryAlone ==
  ASSUME Base, NEW t \in Task, SlotHolds(t), NEW th \in Thread, arg[th] = t,
         pc[th] \in ClaimingAt \cup StartingAt
  PROVE  /\ place[t] = {"pending"} /\ At(Pipe(t), "idle")
         /\ \A o \in Thread \ {th} : arg[o] = t => pc[o] \notin ClaimingAt \cup StartingAt
         /\ pc[th] \in ClaimingAt <=> t \notin marker
<1> USE SlotThreads DEF Base, TypeOK
<1>1. place[t] = {"pending"} /\ (pc[th] \in ClaimingAt <=> t \notin marker)
  BY DEF SlotHolds, StartHolds, ClaimingAt, StartingAt
<1>2. Fresh(t)
  BY <1>1 DEF SlotHolds, StartHolds, PlaceHolds, Over
<1>3. ASSUME NEW o \in Thread, o # th, arg[o] = t, pc[o] \in ClaimingAt \cup StartingAt
      PROVE  FALSE
  BY <1>3 DEF SlotHolds, StartHolds
<1> QED
  BY <1>1, <1>2, <1>3 DEF Fresh

\* The entry of a task that is open or queued: nobody has begun with it.
LEMMA EntryIdle ==
  ASSUME NEW t \in Task, SlotHolds(t), t \notin marker, place[t] \in {{"dropbox"}, {"pending"}}
  PROVE  Fresh(t)
BY DEF SlotHolds, PlaceHolds, Over

\* The entry of a task nobody works on after a step: only its files matter.
LEMMA EntryAtRest ==
  ASSUME NEW t \in Task, t \in issued', pc'[Pipe(t)] \notin ListedAt,
         \A th \in Thread : arg'[th] = t => pc'[th] \notin StartingAt,
         place'[t] = {"dropbox"} => reg'[t] \subseteq {"open"},
         place'[t] = {"pending"} /\ t \notin marker' => Listed(t, "pending")'
  PROVE  RegistryHolds(t)'
BY DEF RegistryHolds, ListedAt, StartingAt, At

\* One step per action: it keeps the entry of u and all that is said of it, or it
\* is one of the few that write the registry or bring u to another stage.
LEMMA EntryStep ==
  ASSUME Base, SlotInv, [Next]_vars, NEW u \in Task \ moved, u \notin moved',
         RegistryHolds(u)
  PROVE  RegistryHolds(u)'
<1> USE SlotThreads
    DEF Base, TypeOK, LockDiscipline, LockedAt, At, Goto, Item, Finish, Rest,
        Acquire, Release, fileVars, processVars, boundVars
<1>a. SlotHolds(u) /\ OwnTask /\ UnissuedHold
  BY DEF SlotInv, Unmoved
<1> DEFINE
      EntryKept ==
        /\ reg'[u] = reg[u] /\ (moves > 0 => moves' > 0) /\ (u \in issued => u \in issued')
        /\ place'[u] = {"dropbox"} => place[u] = {"dropbox"}
        /\ place'[u] = {"pending"} /\ u \notin marker' => place[u] = {"pending"} /\ u \notin marker
      ThreadsKept ==
        /\ \A o \in Thread :
             \/ pc'[o] = pc[o] /\ arg'[o] = arg[o]
             \/ arg'[o] # u
             \/ pc'[o] \notin StartingAt
             \/ arg[o] = u /\ pc[o] \in StartingAt \ {"actRegister"} /\ pc'[o] # "actRegister"
        /\ pc'[Pipe(u)] \in ListedAt => pc[Pipe(u)] \in ListedAt
      Shown == RegistryHolds(u)'
<1>b. ASSUME EntryKept, ThreadsKept PROVE Shown
  BY <1>b, EntryFrame
<1>1. ASSUME NEW th \in Thread, ActScan(th) PROVE Shown
  <2>1. EntryKept
    BY <1>1 DEF ActScan
  <2>2. ThreadsKept
    BY <1>1 DEF ActScan, StartingAt, ListedAt, BusyAt
  <2> QED
    BY <2>1, <2>2, <1>b
<1>2. ASSUME NEW th \in Thread, ActLock(th) PROVE Shown
  <2>1. EntryKept
    BY <1>2 DEF ActLock, Finish, Rest, Acquire
  <2>2. ThreadsKept
    BY <1>2 DEF ActLock, Finish, Rest, Acquire, StartingAt, ListedAt, BusyAt
  <2> QED
    BY <2>1, <2>2, <1>b
<1>3. ASSUME NEW th \in Thread, ActPick(th) PROVE Shown
  <2>1. EntryKept
    BY <1>3 DEF ActPick, Finish, Rest, Candidates
  <2>2. ThreadsKept
    BY <1>3 DEF ActPick, Finish, Rest, Candidates, StartingAt, ListedAt, BusyAt
  <2> QED
    BY <2>1, <2>2, <1>b
<1>4. ASSUME NEW th \in Thread, ActNotReady(th) PROVE Shown
  <2>1. EntryKept
    BY <1>4 DEF ActNotReady, Finish, Rest
  <2>2. ThreadsKept
    BY <1>4 DEF ActNotReady, Finish, Rest, StartingAt, ListedAt, BusyAt
  <2> QED
    BY <2>1, <2>2, <1>b
<1>5. ASSUME NEW th \in Thread, ActDirty(th) PROVE Shown
  <2>1. CASE u = arg[th]
    <3>1. place[u] = {"pending"} /\ At(Pipe(u), "idle")
          /\ \A o \in Thread \ {th} : arg[o] = u => pc[o] \notin StartingAt
      BY <1>5, <1>a, <2>1, EntryAlone DEF ActDirty, ClaimingAt
    <3>2. place'[u] = {"error"} /\ pc'[th] \notin StartingAt /\ pc'[Pipe(u)] \notin ListedAt
      BY <1>5, <2>1, <3>1 DEF ActDirty, Move, Fault, StartingAt, ListedAt, BusyAt
    <3>3. \A o \in Thread \ {th} : pc'[o] = pc[o] /\ arg'[o] = arg[o]
      BY <1>5 DEF ActDirty
    <3>4. u \in issued /\ u \in issued'
      BY <1>5, <1>a, <3>1 DEF ActDirty, UnissuedHold
    <3>7. \A o \in Thread : arg'[o] = u => pc'[o] \notin StartingAt
      BY <3>1, <3>2, <3>3
    <3>8. place'[u] # {"pending"} /\ place'[u] # {"dropbox"}
      BY <3>2
    <3> QED
      BY <3>2, <3>4, <3>7, <3>8, EntryAtRest
  <2>2. CASE u # arg[th]
    <3>1. EntryKept
      BY <1>5, <2>2 DEF ActDirty, Move, Transit, Fault
    <3>2. ThreadsKept
      BY <1>5, <2>2 DEF ActDirty, StartingAt, ListedAt, BusyAt
    <3> QED
      BY <3>1, <3>2, <1>b
  <2> QED
    BY <2>1, <2>2
<1>6. ASSUME NEW th \in Thread, ActConflict(th) PROVE Shown
  <2>1. CASE u = arg[th]
    <3>1. place[u] = {"pending"} /\ At(Pipe(u), "idle") /\ u \notin marker
          /\ \A o \in Thread \ {th} : arg[o] = u => pc[o] \notin StartingAt
      BY <1>6, <1>a, <2>1, EntryAlone DEF ActConflict, ClaimingAt
    <3>2. place'[u] = {"dropbox"} /\ pc'[th] \notin StartingAt /\ pc'[Pipe(u)] \notin ListedAt
      BY <1>6, <2>1, <3>1 DEF ActConflict, Move, Fault, StartingAt, ListedAt, BusyAt
    <3>3. \A o \in Thread \ {th} : pc'[o] = pc[o] /\ arg'[o] = arg[o]
      BY <1>6 DEF ActConflict
    <3>4. u \in issued /\ u \in issued'
      BY <1>6, <1>a, <3>1 DEF ActConflict, UnissuedHold
    <3>5. Listed(u, "pending")
      BY <3>1 DEF RegistryHolds
    <3>6. reg'[u] \subseteq {"open"}
      BY <1>6, <2>1, <3>5 DEF ActConflict, Transit, Listed
    <3>7. \A o \in Thread : arg'[o] = u => pc'[o] \notin StartingAt
      BY <3>1, <3>2, <3>3
    <3>8. place'[u] # {"pending"}
      BY <3>2
    <3> QED
      BY <3>2, <3>4, <3>6, <3>7, <3>8, EntryAtRest
  <2>2. CASE u # arg[th]
    <3>1. EntryKept
      BY <1>6, <2>2 DEF ActConflict, Move, Transit, Fault
    <3>2. ThreadsKept
      BY <1>6, <2>2 DEF ActConflict, StartingAt, ListedAt, BusyAt
    <3> QED
      BY <3>1, <3>2, <1>b
  <2> QED
    BY <2>1, <2>2
<1>7. ASSUME NEW th \in Thread, ActThrow(th) PROVE Shown
  <2>1. EntryKept
    BY <1>7 DEF ActThrow, Finish, Rest, Fault
  <2>2. ThreadsKept
    BY <1>7 DEF ActThrow, Finish, Rest, Fault, StartingAt, ListedAt, BusyAt
  <2> QED
    BY <2>1, <2>2, <1>b
<1>8. ASSUME NEW th \in Thread, ActClaim(th) PROVE Shown
  <2>1. EntryKept
    BY <1>8 DEF ActClaim
  <2>2. ThreadsKept
    BY <1>8 DEF ActClaim, StartingAt, ListedAt, BusyAt
  <2> QED
    BY <2>1, <2>2, <1>b
<1>9. ASSUME NEW th \in Thread, ActMark(th) PROVE Shown
  <2>1. CASE u = arg[th]
    <3>1. place[u] = {"pending"} /\ At(Pipe(u), "idle") /\ u \notin marker
          /\ \A o \in Thread \ {th} : arg[o] = u => pc[o] \notin StartingAt
      BY <1>9, <1>a, <2>1, EntryAlone DEF ActMark, ClaimingAt
    <3>2. /\ UNCHANGED <<place, reg, moves, issued, arg>> /\ pc'[th] = "actRegister"
          /\ u \in marker' /\ pc'[Pipe(u)] \notin ListedAt
      BY <1>9, <2>1, <3>1 DEF ActMark, ListedAt, BusyAt
    <3>3. \A o \in Thread \ {th} : pc'[o] = pc[o]
      BY <1>9 DEF ActMark
    <3>4. Listed(u, "pending")
      BY <3>1 DEF RegistryHolds
    <3>5. Listed(u, "pending")'
      BY <3>2, <3>4 DEF Listed
    <3> QED
      BY <3>1, <3>2, <3>3, <3>5 DEF RegistryHolds, ListedAt, StartingAt
  <2>2. CASE u # arg[th]
    <3>1. EntryKept
      BY <1>9, <2>2 DEF ActMark
    <3>2. ThreadsKept
      BY <1>9, <2>2 DEF ActMark, StartingAt, ListedAt, BusyAt
    <3> QED
      BY <3>1, <3>2, <1>b
  <2> QED
    BY <2>1, <2>2
<1>10. ASSUME NEW th \in Thread, ActRegister(th) PROVE Shown
  <2>1. CASE u = arg[th]
    <3>1. place[u] = {"pending"} /\ At(Pipe(u), "idle") /\ u \in marker
          /\ \A o \in Thread \ {th} : arg[o] = u => pc[o] \notin StartingAt
      BY <1>10, <1>a, <2>1, EntryAlone DEF ActRegister, ClaimingAt, StartingAt
    <3>2. /\ UNCHANGED <<place, marker, moves, issued, arg>> /\ pc'[th] = "actStart"
          /\ pc'[Pipe(u)] \notin ListedAt
      BY <1>10, <2>1, <3>1 DEF ActRegister, ListedAt, BusyAt
    <3>3. \A o \in Thread \ {th} : pc'[o] = pc[o]
      BY <1>10 DEF ActRegister
    <3>4. Listed(u, "pending")
      BY <1>10, <2>1 DEF ActRegister, RegistryHolds
    <3>5. Listed(u, "active")'
      BY <1>10, <2>1, <3>2, <3>4 DEF ActRegister, Transit, Listed
    <3>6. u \in issued
      BY <1>a, <3>1 DEF UnissuedHold
    <3> QED
      BY <3>1, <3>2, <3>3, <3>5, <3>6 DEF RegistryHolds, ListedAt, StartingAt
  <2>2. CASE u # arg[th]
    <3>1. EntryKept
      BY <1>10, <2>2 DEF ActRegister, Transit
    <3>2. ThreadsKept
      BY <1>10, <2>2 DEF ActRegister, StartingAt, ListedAt, BusyAt
    <3> QED
      BY <3>1, <3>2, <1>b
  <2> QED
    BY <2>1, <2>2
<1>11. ASSUME NEW th \in Thread, ActStart(th) PROVE Shown
  <2>1. EntryKept
    BY <1>11 DEF ActStart
  <2>2. CASE u = arg[th]
    <3>1. place[u] = {"pending"} /\ At(Pipe(u), "idle") /\ u \in marker
          /\ \A o \in Thread \ {th} : arg[o] = u => pc[o] \notin StartingAt
      BY <1>11, <1>a, <2>2, EntryAlone DEF ActStart, ClaimingAt, StartingAt
    <3>2. Listed(u, "active")
      BY <1>11, <2>2 DEF ActStart, RegistryHolds, StartingAt
    <3>3. Listed(u, "active")' /\ UNCHANGED <<place, marker, issued, reg>>
      BY <1>11, <3>2 DEF ActStart, Listed
    <3>4. \A o \in Thread : arg'[o] = u => pc'[o] \notin StartingAt
      BY <1>11, <2>2, <3>1 DEF ActStart, StartingAt
    <3> QED
      BY <3>1, <3>3, <3>4 DEF RegistryHolds, StartingAt
  <2>3. CASE u # arg[th]
    <3>1. arg[th] \in Task /\ Pipe(arg[th]) # Pipe(u)
      BY <1>11, <2>3 DEF ActStart, OnTask
    <3>2. \A o \in Thread : \/ pc'[o] = pc[o] /\ arg'[o] = arg[o]
                           \/ arg'[o] # u
      BY <1>11, <2>3, QueueAssumption DEF ActStart, OnTask
    <3>3. pc'[Pipe(u)] \in ListedAt => pc[Pipe(u)] \in ListedAt
      BY <1>11, <3>1 DEF ActStart, ListedAt, BusyAt
    <3> QED
      BY <2>1, <3>2, <3>3, <1>b
  <2> QED
    BY <2>2, <2>3
<1>12. ASSUME NEW th \in Thread, ActStartFails(th) PROVE Shown
  <2>1. EntryKept
    BY <1>12 DEF ActStartFails, Fault
  <2>2. ThreadsKept
    BY <1>12 DEF ActStartFails, Fault, StartingAt, ListedAt, BusyAt
  <2> QED
    BY <2>1, <2>2, <1>b
<1>13. ASSUME NEW th \in Thread, RollbackWorkspace(th) PROVE Shown
  <2>1. EntryKept
    BY <1>13 DEF RollbackWorkspace
  <2>2. ThreadsKept
    BY <1>13 DEF RollbackWorkspace, StartingAt, ListedAt, BusyAt
  <2> QED
    BY <2>1, <2>2, <1>b
<1>14. ASSUME NEW th \in Thread, RollbackMarker(th) PROVE Shown
  <2>1. CASE u = arg[th]
    <3>1. place[u] = {"pending"} /\ At(Pipe(u), "idle") /\ u \in marker
          /\ \A o \in Thread \ {th} : arg[o] = u => pc[o] \notin StartingAt
      BY <1>14, <1>a, <2>1, EntryAlone DEF RollbackMarker, ClaimingAt, StartingAt
    <3>2. /\ UNCHANGED <<place, moves, issued>> /\ pc'[th] \notin StartingAt
          /\ pc'[Pipe(u)] \notin ListedAt
      BY <1>14, <2>1, <3>1 DEF RollbackMarker, ListedAt, BusyAt, StartingAt
    <3>3. \A o \in Thread \ {th} : pc'[o] = pc[o] /\ arg'[o] = arg[o]
      BY <1>14 DEF RollbackMarker
    <3>4. Listed(u, "active")
      BY <1>14, <2>1 DEF RollbackMarker, RegistryHolds, StartingAt
    <3>5. Listed(u, "pending")'
      BY <1>14, <2>1, <3>2, <3>4 DEF RollbackMarker, Transit, Listed
    <3>6. u \in issued
      BY <1>a, <3>1 DEF UnissuedHold
    <3> QED
      BY <3>1, <3>2, <3>3, <3>5, <3>6 DEF RegistryHolds, ListedAt, StartingAt
  <2>2. CASE u # arg[th]
    <3>1. EntryKept
      BY <1>14, <2>2 DEF RollbackMarker, Transit
    <3>2. ThreadsKept
      BY <1>14, <2>2 DEF RollbackMarker, StartingAt, ListedAt, BusyAt
    <3> QED
      BY <3>1, <3>2, <1>b
  <2> QED
    BY <2>1, <2>2
<1>15. ASSUME NEW t \in Task, PipeBoot(t) PROVE Shown
  <2>1. EntryKept
    BY <1>15 DEF PipeBoot
  <2>2. ThreadsKept
    BY <1>15 DEF PipeBoot, StartingAt, ListedAt, BusyAt
  <2> QED
    BY <2>1, <2>2, <1>b
<1>16. ASSUME NEW t \in Task, PipeDone(t) PROVE Shown
  <2>1. EntryKept
    BY <1>16 DEF PipeDone
  <2>2. ThreadsKept
    BY <1>16 DEF PipeDone, StartingAt, ListedAt, BusyAt
  <2> QED
    BY <2>1, <2>2, <1>b
<1>17. ASSUME NEW t \in Task, PipeFails(t) PROVE Shown
  <2>1. EntryKept
    BY <1>17 DEF PipeFails, Fault
  <2>2. ThreadsKept
    BY <1>17 DEF PipeFails, Fault, StartingAt, ListedAt, BusyAt
  <2> QED
    BY <2>1, <2>2, <1>b
<1>18. ASSUME NEW t \in Task, PipeExit(t) PROVE Shown
  <2>1. EntryKept
    BY <1>18 DEF PipeExit
  <2>2. ThreadsKept
    BY <1>18, ExitStep DEF PipeExit, StartingAt, ListedAt, BusyAt
  <2> QED
    BY <2>1, <2>2, <1>b
<1>19. ASSUME NEW t \in Task, PipeDies(t) PROVE Shown
  <2>1. EntryKept
    BY <1>19 DEF PipeDies, Fault
  <2>2. ThreadsKept
    BY <1>19, ExitStep DEF PipeDies, Fault, StartingAt, ListedAt, BusyAt
  <2> QED
    BY <2>1, <2>2, <1>b
<1>20. ASSUME NEW t \in Task, CloseLock(t) PROVE Shown
  <2>1. EntryKept
    BY <1>20 DEF CloseLock, CloseStep
  <2>2. ThreadsKept
    BY <1>20 DEF CloseLock, CloseStep, StartingAt, ListedAt, BusyAt
  <2> QED
    BY <2>1, <2>2, <1>b
<1>21. ASSUME NEW t \in Task, CloseVerify(t) PROVE Shown
  <2>1. EntryKept
    BY <1>21 DEF CloseVerify, CloseStep
  <2>2. ThreadsKept
    BY <1>21 DEF CloseVerify, CloseStep, StartingAt, ListedAt, BusyAt
  <2> QED
    BY <2>1, <2>2, <1>b
<1>22. ASSUME NEW t \in Task, CloseArchive(t) PROVE Shown
  <2>1. EntryKept
    BY <1>22 DEF CloseArchive, CloseStep
  <2>2. ThreadsKept
    BY <1>22 DEF CloseArchive, CloseStep, StartingAt, ListedAt, BusyAt
  <2> QED
    BY <2>1, <2>2, <1>b
<1>23. ASSUME NEW t \in Task, CloseMerge(t) PROVE Shown
  <2>1. EntryKept
    BY <1>23 DEF CloseMerge, CloseStep
  <2>2. ThreadsKept
    BY <1>23 DEF CloseMerge, CloseStep, StartingAt, ListedAt, BusyAt
  <2> QED
    BY <2>1, <2>2, <1>b
<1>24. ASSUME NEW t \in Task, ClosePending(t) PROVE Shown
  <2>1. EntryKept
    BY <1>24, <1>a DEF ClosePending, CloseStep, CompleteItem, SlotHolds, PlaceHolds
  <2>2. ThreadsKept
    BY <1>24 DEF ClosePending, CloseStep, CompleteItem, StartingAt, ListedAt, BusyAt
  <2> QED
    BY <2>1, <2>2, <1>b
<1>25. ASSUME NEW t \in Task, CloseMarker(t) PROVE Shown
  <2>1. EntryKept
    BY <1>25, <1>a DEF CloseMarker, CloseStep, SlotHolds, PipelineHolds
  <2>2. ThreadsKept
    BY <1>25 DEF CloseMarker, CloseStep, StartingAt, ListedAt, BusyAt
  <2> QED
    BY <2>1, <2>2, <1>b
<1>26. ASSUME NEW t \in Task, CloseRegister(t) PROVE Shown
  <2>1. CASE u = t
    <3>1. u \notin marker /\ pc[Pipe(u)] = "closeRegister"
      BY <1>26, <1>a, <2>1 DEF CloseRegister, CloseStep, SlotHolds, PipelineHolds
    <3>2. ~Fresh(u)
      BY <3>1 DEF Fresh
    <3>3. place[u] \subseteq {"error"} /\ u \in issued
      BY <1>a, <3>1, <3>2 DEF SlotHolds, PlaceHolds, Over
    <3>a. "pending" \notin place[u] /\ "dropbox" \notin place[u]
      BY <3>3
    <3>4. \A o \in Thread : arg[o] = u => pc[o] \notin StartingAt
      <4>1. place[u] # {"pending"}
        BY <3>a
      <4>2. StartHolds(u)
        BY <1>a DEF SlotHolds
      <4> HIDE DEF Base, TypeOK, LockDiscipline
      <4> QED
        BY <4>1, <4>2, Zenon DEF StartHolds
    <3>5. /\ UNCHANGED <<place, marker, issued, arg>> /\ pc'[Pipe(u)] = "closeEnd"
          /\ \A o \in Thread \ {Pipe(u)} : pc'[o] = pc[o]
      BY <1>26, <2>1 DEF CloseRegister, CloseStep
    <3>6. place'[u] # {"pending"} /\ place'[u] # {"dropbox"} /\ u \in issued'
      BY <3>3, <3>5, <3>a
    <3>7. \A o \in Thread : arg'[o] = u => pc'[o] \notin StartingAt
      <4>1. "closeEnd" \notin StartingAt
        BY DEF StartingAt
      <4> HIDE DEF Base, TypeOK, LockDiscipline
      <4> QED
        BY <3>4, <3>5, <4>1
    <3>8. pc'[Pipe(u)] \notin ListedAt
      BY <3>5 DEF ListedAt, BusyAt
    <3> QED
      BY <3>6, <3>7, <3>8, EntryAtRest
  <2>2. CASE u # t
    <3>1. EntryKept
      BY <1>26, <2>2 DEF CloseRegister, CloseStep, Transit
    <3>2. ThreadsKept
      BY <1>26, <2>2 DEF CloseRegister, CloseStep, StartingAt, ListedAt, BusyAt
    <3> QED
      BY <3>1, <3>2, <1>b
  <2> QED
    BY <2>1, <2>2
<1>27. ASSUME NEW t \in Task, CloseEnd(t) PROVE Shown
  <2>1. EntryKept
    BY <1>27 DEF CloseEnd, CloseStep
  <2>2. ThreadsKept
    BY <1>27 DEF CloseEnd, CloseStep, StartingAt, ListedAt, BusyAt
  <2> QED
    BY <2>1, <2>2, <1>b
<1>28. ASSUME NEW t \in Task, CloseThrows(t) PROVE Shown
  <2>1. EntryKept
    BY <1>28 DEF CloseThrows, Fault
  <2>2. ThreadsKept
    BY <1>28 DEF CloseThrows, Fault, StartingAt, ListedAt, BusyAt
  <2> QED
    BY <2>1, <2>2, <1>b
<1>29. ASSUME NEW th \in Thread, FailLock(th) PROVE Shown
  <2>1. EntryKept
    BY <1>29 DEF FailLock, Undisposed, Finish, Rest
  <2>2. ThreadsKept
    BY <1>29 DEF FailLock, Undisposed, Finish, Rest, StartingAt, ListedAt, BusyAt
  <2> QED
    BY <2>1, <2>2, <1>b
<1>30. ASSUME NEW th \in Thread, FailRename(th) PROVE Shown
  <2>1. EntryKept
    BY <1>30, <1>a DEF FailRename, FailIntake, Move, SlotHolds, PlaceHolds
  <2>2. ThreadsKept
    BY <1>30 DEF FailRename, FailIntake, Move, StartingAt, ListedAt, BusyAt
  <2> QED
    BY <2>1, <2>2, <1>b
<1>31. ASSUME NEW th \in Thread, FailRegister(th) PROVE Shown
  <2>1. CASE u = arg[th]
    <3>1. place[u] = {"error"} /\ (th = Pipe(u) \/ At(Pipe(u), "idle"))
      BY <1>31, <1>a, <2>1 DEF FailRegister, SlotHolds, EndHolds, FailingAt
    <3>2. \A o \in Thread : arg[o] = u => pc[o] \notin StartingAt
      BY <1>a, <3>1 DEF SlotHolds, StartHolds
    <3>3. /\ UNCHANGED <<place, marker, issued, arg>> /\ pc'[th] = "failMarker"
          /\ \A o \in Thread \ {th} : pc'[o] = pc[o]
      BY <1>31 DEF FailRegister
    <3>4. u \in issued
      BY <1>a, <3>1 DEF UnissuedHold
    <3> QED
      BY <3>1, <3>2, <3>3, <3>4 DEF RegistryHolds, StartingAt, BusyAt
  <2>2. CASE u # arg[th]
    <3>1. EntryKept
      BY <1>31, <2>2 DEF FailRegister, Transit
    <3>2. ThreadsKept
      BY <1>31, <2>2 DEF FailRegister, StartingAt, ListedAt, BusyAt
    <3> QED
      BY <3>1, <3>2, <1>b
  <2> QED
    BY <2>1, <2>2
<1>32. ASSUME NEW th \in Thread, FailMarker(th) PROVE Shown
  <2>1. EntryKept
    BY <1>32, <1>a DEF FailMarker, Advance, SlotHolds, EndHolds, FailingAt
  <2>2. ThreadsKept
    BY <1>32 DEF FailMarker, Advance, StartingAt, ListedAt, BusyAt
  <2> QED
    BY <2>1, <2>2, <1>b
<1>33. ASSUME NEW th \in Thread, ResLock(th) PROVE Shown
  <2>1. EntryKept
    BY <1>33 DEF ResLock, Resumable
  <2>2. ThreadsKept
    BY <1>33 DEF ResLock, Resumable, StartingAt, ListedAt, BusyAt
  <2> QED
    BY <2>1, <2>2, <1>b
<1>34. ASSUME NEW th \in Thread, ResRegister(th) PROVE Shown
  <2>1. CASE u = arg[th]
    <3>1. sentinel[u] = "archived" /\ lock = th /\ ~Fresh(u)
      BY <1>34, <1>a, <2>1 DEF ResRegister, SlotHolds, EndHolds, ResumingAt, Fresh
    <3>2. u \in issued
      BY <1>34, <2>1, <1>a, <3>1 DEF ResRegister, SlotHolds, PlaceHolds, Over, UnissuedHold
    <3>3. ~(place[u] \in {{"dropbox"}, {"pending"}} /\ u \notin marker) /\ place[u] # {"dropbox"}
      BY <1>a, <3>1, EntryIdle DEF SlotHolds, PlaceHolds
    <3>4. \A o \in Thread : arg[o] = u => pc[o] \notin StartingAt
      BY <1>a, <3>1 DEF SlotHolds, StartHolds
    <3>5. pc[Pipe(u)] \notin ListedAt
      <4>1. CASE pc[Pipe(u)] \in {"boot", "bootFailed", "work", "closeLock", "closeVerify"}
        BY <1>a, <3>1, <4>1 DEF SlotHolds, PipelineHolds
      <4>2. CASE pc[Pipe(u)] \in {"closeArchive", "closeMerge", "closePending", "closeMarker",
                                  "closeRegister"}
        BY <1>34, <3>1, <4>2 DEF ResRegister
      <4> QED
        BY <4>1, <4>2 DEF ListedAt, BusyAt
    <3>6. /\ UNCHANGED <<place, marker, issued, arg>> /\ pc'[th] = "resPending"
          /\ \A o \in Thread \ {th} : pc'[o] = pc[o]
      BY <1>34 DEF ResRegister
    <3> QED
      BY <3>2, <3>3, <3>4, <3>5, <3>6 DEF RegistryHolds, StartingAt, ListedAt, BusyAt
  <2>2. CASE u # arg[th]
    <3>1. EntryKept
      BY <1>34, <2>2 DEF ResRegister, Transit
    <3>2. ThreadsKept
      BY <1>34, <2>2 DEF ResRegister, StartingAt, ListedAt, BusyAt
    <3> QED
      BY <3>1, <3>2, <1>b
  <2> QED
    BY <2>1, <2>2
<1>35. ASSUME NEW th \in Thread, ResPending(th) PROVE Shown
  <2>1. EntryKept
    BY <1>35, <1>a DEF ResPending, CompleteItem, SlotHolds, PlaceHolds
  <2>2. ThreadsKept
    BY <1>35 DEF ResPending, CompleteItem, StartingAt, ListedAt, BusyAt
  <2> QED
    BY <2>1, <2>2, <1>b
<1>36. ASSUME NEW th \in Thread, ResMarker(th) PROVE Shown
  <2>1. EntryKept
    BY <1>36, <1>a DEF ResMarker, SlotHolds, EndHolds
  <2>2. ThreadsKept
    BY <1>36 DEF ResMarker, StartingAt, ListedAt, BusyAt
  <2> QED
    BY <2>1, <2>2, <1>b
<1>37. ASSUME NEW th \in Thread, ResEnd(th) PROVE Shown
  <2>1. EntryKept
    BY <1>37 DEF ResEnd, Advance
  <2>2. ThreadsKept
    BY <1>37 DEF ResEnd, Advance, StartingAt, ListedAt, BusyAt
  <2> QED
    BY <2>1, <2>2, <1>b
<1>38. ASSUME NEW t \in Task, Publish(t) PROVE Shown
  <2>1. CASE u = t \/ "dropbox" \in place[u]
    <3>1. place[u] \in {{}, {"dropbox"}} /\ u \notin marker /\ reg[u] \subseteq {"open"}
      BY <1>38, <1>a, <2>1 DEF Publish, RegistryHolds, SlotHolds, PlaceHolds, UnissuedHold
    <3>2. place'[u] = {"pending"} /\ reg'[u] = reg[u] \cup {"pending"} /\ u \in issued'
      BY <1>38, <1>a, <2>1, <3>1 DEF Publish, UnissuedHold
    <3>3. Listed(u, "pending")'
      BY <3>1, <3>2 DEF Listed
    <3>4. (\A o \in Thread : arg[o] = u => pc[o] \notin StartingAt) /\ pc[Pipe(u)] \notin ListedAt
      <4>1. \A o \in Thread : arg[o] = u => pc[o] \notin StartingAt
        BY <1>a, <3>1 DEF SlotHolds, StartHolds
      <4>2. pc[Pipe(u)] \notin BusyAt
        BY <1>a, <3>1 DEF SlotHolds, PipelineHolds
      <4>3. lock = Nobody
        BY <1>38 DEF Publish
      <4> QED
        BY <4>1, <4>2, <4>3 DEF ListedAt
    <3>5. arg' = arg /\ pc' = [pc EXCEPT ![Main] = "actScan"]
      BY <1>38 DEF Publish, MainGoes
    <3>6. /\ \A o \in Thread : arg'[o] = u => pc'[o] \notin StartingAt
          /\ pc'[Pipe(u)] \notin ListedAt
      BY <3>4, <3>5 DEF StartingAt
    <3>7. place'[u] # {"dropbox"}
      BY <3>2
    <3> QED
      BY <3>2, <3>3, <3>6, <3>7, EntryAtRest
  <2>2. CASE ~(u = t \/ "dropbox" \in place[u])
    <3>1. EntryKept
      BY <1>38, <2>2 DEF Publish
    <3>2. ThreadsKept
      BY <1>38 DEF Publish, MainFree, MainGoes, StartingAt, ListedAt, BusyAt
    <3> QED
      BY <3>1, <3>2, <1>b
  <2> QED
    BY <2>1, <2>2
<1>39. ASSUME NEW t \in Task, MoveToPending(t) PROVE Shown
  <2>1. CASE u = t
    <3>1. place[u] = {"dropbox"} /\ u \in issued
      BY <1>39, <1>a, <2>1 DEF MoveToPending, SlotHolds, PlaceHolds, UnissuedHold
    <3>2. place'[u] = {"pending"} /\ reg'[u] = {"pending"} /\ u \in issued'
      BY <1>39, <2>1, <3>1 DEF MoveToPending, Move
    <3>3. Listed(u, "pending")'
      BY <3>2 DEF Listed
    <3>4. (\A o \in Thread : arg[o] = u => pc[o] \notin StartingAt) /\ pc[Pipe(u)] \notin ListedAt
      <4>1. \A o \in Thread : arg[o] = u => pc[o] \notin StartingAt
        BY <1>a, <3>1 DEF SlotHolds, StartHolds
      <4>2. pc[Pipe(u)] \notin BusyAt
        BY <1>a, <3>1 DEF SlotHolds, PlaceHolds, PipelineHolds
      <4>3. lock = Nobody
        BY <1>39 DEF MoveToPending
      <4> QED
        BY <4>1, <4>2, <4>3 DEF ListedAt
    <3>5. arg' = arg /\ pc' = [pc EXCEPT ![Main] = "actScan"]
      BY <1>39 DEF MoveToPending, MainGoes
    <3>6. /\ \A o \in Thread : arg'[o] = u => pc'[o] \notin StartingAt
          /\ pc'[Pipe(u)] \notin ListedAt
      BY <3>4, <3>5 DEF StartingAt
    <3>7. place'[u] # {"dropbox"}
      BY <3>2
    <3> QED
      BY <3>2, <3>3, <3>6, <3>7, EntryAtRest
  <2>2. CASE u # t
    <3>1. EntryKept
      BY <1>39, <2>2 DEF MoveToPending, Move
    <3>2. ThreadsKept
      BY <1>39 DEF MoveToPending, MainFree, MainGoes, StartingAt, ListedAt, BusyAt
    <3> QED
      BY <3>1, <3>2, <1>b
  <2> QED
    BY <2>1, <2>2
<1>40. ASSUME NEW t \in Task, ReturnToOpen(t) PROVE Shown
  <2>1. CASE u = t
    <3>1. place[u] = {"pending"} /\ u \in issued /\ u \notin marker
      BY <1>40, <1>a, <2>1 DEF ReturnToOpen, SlotHolds, PlaceHolds, UnissuedHold
    <3>2. Listed(u, "pending") /\ Fresh(u)
      BY <1>a, <3>1, EntryIdle DEF RegistryHolds
    <3>3. place'[u] = {"dropbox"} /\ reg'[u] \subseteq {"open"} /\ u \in issued'
      BY <1>40, <2>1, <3>1, <3>2 DEF ReturnToOpen, Move, Transit, Listed
    <3>4. \A o \in Thread : arg[o] = u => pc[o] \notin StartingAt
      BY <1>a, <3>1 DEF SlotHolds, StartHolds
    <3>5. UNCHANGED <<pc, arg, marker>>
      BY <1>40 DEF ReturnToOpen
    <3> QED
      BY <3>2, <3>3, <3>4, <3>5 DEF RegistryHolds, StartingAt, Fresh, BusyAt
  <2>2. CASE u # t
    <3>1. EntryKept
      BY <1>40, <2>2 DEF ReturnToOpen, Move, Transit
    <3>2. ThreadsKept
      BY <1>40 DEF ReturnToOpen, StartingAt, ListedAt, BusyAt
    <3> QED
      BY <3>1, <3>2, <1>b
  <2> QED
    BY <2>1, <2>2
<1>41. ASSUME NEW t \in Task, NEW v \in Task, Requeue(t, v) PROVE Shown
  <2>1. u # t
    BY <1>41 DEF Requeue, ByOperator
  <2>2. CASE u = v
    <3>1. place[u] = {} /\ u \notin marker /\ reg[u] = {} /\ moves' > 0
      BY <1>41, <1>a, <2>2 DEF Requeue, RegistryHolds, UnissuedHold, ByOperator
    <3>2. place'[u] = {"pending"} /\ reg'[u] = {} /\ u \in issued'
      BY <1>41, <2>1, <2>2, <3>1 DEF Requeue, RetryIntake
    <3>3. Listed(u, "pending")'
      BY <3>1, <3>2 DEF Listed
    <3>4. (\A o \in Thread : arg[o] = u => pc[o] \notin StartingAt) /\ pc[Pipe(u)] \notin ListedAt
      <4>1. \A o \in Thread : arg[o] = u => pc[o] \notin StartingAt
        BY <1>a, <3>1 DEF SlotHolds, StartHolds
      <4>2. pc[Pipe(u)] \notin BusyAt
        BY <1>a, <3>1 DEF SlotHolds, PipelineHolds
      <4>3. lock = Nobody
        BY <1>41 DEF Requeue
      <4> QED
        BY <4>1, <4>2, <4>3 DEF ListedAt
    <3>5. /\ arg' = [arg EXCEPT ![Main] = t] /\ pc' = [pc EXCEPT ![Main] = "discard"]
          /\ marker' = marker
      BY <1>41 DEF Requeue, MainGoes
    <3> QED
      BY <2>1, <3>2, <3>3, <3>4, <3>5 DEF RegistryHolds, StartingAt, ListedAt, BusyAt
  <2>3. CASE u # v
    <3>1. EntryKept
      BY <1>41, <2>1, <2>3 DEF Requeue, RetryIntake, ByOperator
    <3>2. ThreadsKept
      BY <1>41 DEF Requeue, MainFree, MainGoes, StartingAt, ListedAt, BusyAt
    <3> QED
      BY <3>1, <3>2, <1>b
  <2> QED
    BY <2>2, <2>3
<1>42. ASSUME NEW t \in Task, MoveToOpen(t) PROVE Shown
  <2>1. u # t
    BY <1>42 DEF MoveToOpen, ByOperator
  <2>2. EntryKept
    BY <1>42, <2>1 DEF MoveToOpen, Move, Transit, ByOperator
  <2>3. ThreadsKept
    BY <1>42 DEF MoveToOpen, StartingAt, ListedAt, BusyAt
  <2> QED
    BY <2>2, <2>3, <1>b
<1>43. ASSUME NEW t \in Task, Discard(t) PROVE Shown
  <2>1. EntryKept
    BY <1>43 DEF Discard
  <2>2. ThreadsKept
    BY <1>43 DEF Discard, StartingAt, ListedAt, BusyAt
  <2> QED
    BY <2>1, <2>2, <1>b
<1>44. ASSUME NEW t \in Task, RepairMarker(t) PROVE Shown
  <2>1. EntryKept
    BY <1>44 DEF RepairMarker, MainFree, Stranded
  <2>2. ThreadsKept
    BY <1>44 DEF RepairMarker, MainFree, Stranded, StartingAt, ListedAt, BusyAt
  <2> QED
    BY <2>1, <2>2, <1>b
<1>45. ASSUME NEW t \in Task, RecoveryFails(t) PROVE Shown
  <2>1. EntryKept
    BY <1>45 DEF RecoveryFails, MainFree, MainGoes, Starting, Fixable
  <2>2. ThreadsKept
    BY <1>45 DEF RecoveryFails, MainFree, MainGoes, Starting, Fixable, StartingAt, ListedAt,
       BusyAt
  <2> QED
    BY <2>1, <2>2, <1>b
<1>46. CASE MainStops
  <2>1. EntryKept
    BY <1>46 DEF MainStops, Fault
  <2>2. ThreadsKept
    BY <1>46 DEF MainStops, Fault, StartingAt, ListedAt, BusyAt
  <2> QED
    BY <2>1, <2>2, <1>b
<1>47. CASE MainStarts
  <2>1. CASE lock = Nobody
    <3>1. reg'[u] = RepairedEntry(u) /\ UNCHANGED <<place, marker, issued, moves, pc, arg>>
      BY <1>47, <2>1 DEF MainStarts
    <3>2. u \notin issued => reg'[u] = {}
      BY <1>a, <3>1 DEF RepairedEntry, UnissuedHold
    <3>3. place[u] = {"dropbox"} => reg'[u] \subseteq {"open"}
      BY <3>1 DEF RepairedEntry
    <3>4. place[u] = {"pending"} /\ u \notin marker => reg'[u] = {"pending"}
      BY <3>1 DEF RepairedEntry
    <3>5. place[u] = {"pending"} /\ u \in marker => reg'[u] = {"active"}
      BY <3>1 DEF RepairedEntry
    <3>6. ASSUME NEW o \in Thread, arg[o] = u, pc[o] \in StartingAt
          PROVE  pc[o] # "actRegister" /\ reg'[u] = {"active"}
      BY <1>a, <2>1, <3>5, <3>6 DEF SlotHolds, StartHolds
    <3>7. ASSUME pc[Pipe(u)] \in ListedAt PROVE reg'[u] = {"active"}
      <4>1. pc[Pipe(u)] \in {"boot", "bootFailed", "work", "closeLock"}
        BY <2>1, <3>7 DEF ListedAt, BusyAt
      <4> QED
        BY <1>a, <3>5, <4>1 DEF SlotHolds, PipelineHolds, BusyAt
    <3> QED
      BY <3>1, <3>2, <3>3, <3>4, <3>6, <3>7 DEF RegistryHolds, Listed, ListedAt, StartingAt
  <2>2. CASE lock # Nobody
    <3>1. EntryKept
      BY <1>47, <2>2 DEF MainStarts
    <3>2. ThreadsKept
      BY <1>47 DEF MainStarts, StartingAt, ListedAt, BusyAt
    <3> QED
      BY <3>1, <3>2, <1>b
  <2> QED
    BY <2>1, <2>2
<1>48. CASE UNCHANGED vars
  <2>1. EntryKept
    BY <1>48 DEF vars
  <2>2. ThreadsKept
    BY <1>48 DEF vars, StartingAt, ListedAt, BusyAt
  <2> QED
    BY <2>1, <2>2, <1>b
<1>49. ASSUME NEW t \in Task, RecoveryFailsRuntime(t) PROVE Shown
  <2>1. EntryKept
    BY <1>49 DEF RecoveryFailsRuntime, MainFree, MainGoes, Fixable
  <2>2. ThreadsKept
    BY <1>49 DEF RecoveryFailsRuntime, MainFree, MainGoes, Fixable, StartingAt, ListedAt,
       BusyAt
  <2> QED
    BY <2>1, <2>2, <1>b
<1> HIDE DEF Base, TypeOK, LockDiscipline
<1> QED
  BY <1>1, <1>2, <1>3, <1>4, <1>5, <1>6, <1>7, <1>8, <1>9, <1>10, <1>11, <1>12, <1>13, <1>14,
     <1>15, <1>16, <1>17, <1>18, <1>19, <1>20, <1>21, <1>22, <1>23, <1>24, <1>25, <1>26, <1>27,
     <1>28, <1>29, <1>30, <1>31, <1>32, <1>33, <1>34, <1>35, <1>36, <1>37, <1>38, <1>39, <1>40,
     <1>41, <1>42, <1>43, <1>44, <1>45, <1>46, <1>47, <1>48,
     <1>49, Zenon DEF Next, Progress, Operator, Failing, Activation, Failure, Resume, Pipeline,
     Closeout

\* The registry lists every open, queued and running task the operator has not moved as
\* what it is; only the id of a retry may have no entry at all.
THEOREM RegistryInvariance == Spec => []UnmovedAreListed
<1>1. Init => UnmovedAreListed
  BY SlotThreads DEF Init, UnmovedAreListed, Unmoved, RegistryHolds, StartingAt, BusyAt, At
<1>2. IInv /\ SlotInv /\ SlotInv' /\ UnmovedAreListed /\ [Next]_vars => UnmovedAreListed'
  <2> SUFFICES ASSUME IInv, SlotInv, UnmovedAreListed, [Next]_vars,
                      NEW u \in Task, u \notin moved'
               PROVE  RegistryHolds(u)'
    BY DEF UnmovedAreListed, Unmoved
  <2>1. Base
    BY DEF IInv, QueueInv, Base
  <2>2. moved \subseteq moved'
    BY <2>1, MovesStep DEF SlotInv, Base
  <2>3. RegistryHolds(u)
    BY <2>2 DEF UnmovedAreListed, Unmoved
  <2> QED
    BY <2>1, <2>2, <2>3, EntryStep
<1> QED
  BY <1>1, <1>2, Invariance, SlotInvariance, PTL DEF Spec

\* When the operator moves nothing, every running task is listed as active: what finding 3
\* of the README shows to go wrong takes a requeue.
THEOREM EveryRunningIsRegistered == ASSUME MaxMoves = 0 PROVE Spec => []RunningIsRegistered
<1>1. IInv /\ SlotInv /\ UnmovedAreListed => RunningIsRegistered
  <2> SUFFICES ASSUME IInv, SlotInv, UnmovedAreListed, NEW t \in Task, At(Pipe(t), "work")
               PROVE  "active" \in reg[t]
    BY DEF RunningIsRegistered
  <2>1. moves = 0 /\ moved = {}
    BY DEF IInv, QueueInv, TypeOK, SlotInv, MovesKnown
  <2>2. RegistryHolds(t)
    BY <2>1 DEF UnmovedAreListed, Unmoved
  <2> QED
    BY <2>1, <2>2 DEF RegistryHolds, Listed, BusyAt, At
<1> QED
  BY <1>1, Invariance, SlotInvariance, RegistryInvariance, PTL
============================================================================
