---- MODULE MCAutoMerge ----
\* Two tasks that share two repositories.
EXTENDS AutoMerge, TLC

AllFaults == FaultKind
TaskSymmetry == Permutations(Task)
====
