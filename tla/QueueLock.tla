---------------------------- MODULE QueueLock ----------------------------
(***************************************************************************)
(* What the queue lock promises to the code that runs under it             *)
(* (withDirLock in queue/dirLock.ts): at any moment at most one client is  *)
(* inside the critical section.  A client leaves it by releasing the lock  *)
(* or by dying with it.  DirLock implements this specification with a      *)
(* directory and an owner file; TaskQueue uses the lock at this level.     *)
(***************************************************************************)
CONSTANT Client

VARIABLE inside        \* the clients that are in the critical section

Init == inside = {}

Enter == /\ inside = {}
         /\ \E c \in Client : inside' = {c}

\* Release, or the death of the process the client runs in.
Leave == inside' = {}

Next == Enter \/ Leave

Spec == Init /\ [][Next]_inside
==========================================================================
