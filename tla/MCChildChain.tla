---------------------------- MODULE MCChildChain ----------------------------
(* Instances of ChildChain for TLC. *)
EXTENDS ChildChain, TLC

AllFaults == FaultKind
Tasks     == Permutations(Task)
=============================================================================
