--------------------------- MODULE MCTaskQueue ---------------------------
(* Instances of TaskQueue for TLC. *)
EXTENDS TaskQueue, TLC

CONSTANTS t1, t2, t3

TwoTasks   == {t1, t2}
ThreeTasks == {t1, t2, t3}
Tasks2     == Permutations(TwoTasks)
Tasks3     == Permutations(ThreeTasks)
==========================================================================
