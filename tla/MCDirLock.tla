---------------------------- MODULE MCDirLock ----------------------------
(* Instances of DirLock for TLC: three clients, of which two share a process. *)
EXTENDS DirLock, TLC

CONSTANTS c1, c2, c3, p1, p2

MCClient == {c1, c2, c3}
MCProc   == {p1, p2}
MCPidOf  == c1 :> p1 @@ c2 :> p2 @@ c3 :> p2
==========================================================================
