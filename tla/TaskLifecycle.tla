-------------------------- MODULE TaskLifecycle --------------------------
(***************************************************************************)
(* What the queue promises about one task, whatever happens in between:    *)
(* which stages it goes through and which it never leaves or skips.  A     *)
(* task that was submitted is always in exactly one stage; it is completed *)
(* only out of the active stage, and completion is final.  A failed task   *)
(* the operator moves is out of its hands from then on, when one looks at  *)
(* the tasks it answers for alone ("moved").                               *)
(***************************************************************************)
CONSTANT Task

VARIABLE life

Stage == {"none", "open", "queued", "active", "failed", "completed", "moved"}

Init == life = [t \in Task |-> "none"]

Become(S, stage) == life' = [t \in Task |-> IF t \in S THEN stage ELSE life[t]]

\* A new task enters the queue and takes the open tasks in S along with it.
Submit(t, S) ==
  /\ life[t] \in {"none", "open"}
  /\ \A s \in S : life[s] = "open"
  /\ Become(S \cup {t}, "queued")

Activate(t) == life[t] = "queued" /\ Become({t}, "active")
Rollback(t) == life[t] = "active" /\ Become({t}, "queued")
Complete(t) == life[t] = "active" /\ Become({t}, "completed")
Fail(t)     == life[t] \in {"active", "queued"} /\ Become({t}, "failed")
Reopen(t)   == life[t] \in {"queued", "failed"} /\ Become({t}, "open")

\* A failed task goes on under a new id; its own record ends, as completed if
\* its archive was filed before it failed.
Retry(t, u) ==
  /\ life[t] = "failed" /\ life[u] = "none"
  /\ \E stage \in {"none", "completed"} :
       life' = [life EXCEPT ![t] = stage, ![u] = "queued"]

\* The operator takes a failed task over, whose marker may still be there, and in
\* a retry gives it a new id; that id is a task of the queue like any other.
TakeOver(t) == life[t] \in {"active", "failed"} /\ Become({t}, "moved")
TakeOverAs(t, u) ==
  /\ life[t] \in {"active", "failed", "moved"} /\ life[u] = "none"
  /\ life' = [life EXCEPT ![t] = "moved", ![u] = "queued"]

Next ==
  \/ \E t \in Task, S \in SUBSET Task : Submit(t, S)
  \/ \E t \in Task : Activate(t) \/ Rollback(t) \/ Complete(t) \/ Fail(t) \/ Reopen(t) \/ TakeOver(t)
  \/ \E t, u \in Task : Retry(t, u) \/ TakeOverAs(t, u)

Spec == Init /\ [][Next]_life
==========================================================================
