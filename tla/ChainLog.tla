------------------------------ MODULE ChainLog ------------------------------
(***************************************************************************)
(* What a chain of child tasks promises: one task at a time is open on it, *)
(* a completed task is never taken back, and each task continues the one   *)
(* completed last.                                                         *)
(***************************************************************************)
CONSTANTS Task, Root, NoTask

VARIABLES
  done,  \* the completed tasks
  last,  \* the one completed last, or the root
  open   \* the task that is planned on top of it

Init == done = {} /\ last = Root /\ open = NoTask

Plan(t) ==
  /\ open = NoTask /\ t \notin done
  /\ open' = t
  /\ UNCHANGED <<done, last>>

Complete ==
  /\ open # NoTask
  /\ done' = done \cup {open} /\ last' = open /\ open' = NoTask

Withdraw ==
  /\ open # NoTask
  /\ open' = NoTask
  /\ UNCHANGED <<done, last>>

Next == Complete \/ Withdraw \/ \E t \in Task : Plan(t)

Spec == Init /\ [][Next]_<<done, last, open>>
=============================================================================
