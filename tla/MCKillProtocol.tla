-------------------------- MODULE MCKillProtocol --------------------------
(* The instance of KillProtocol for TLC. *)
EXTENDS KillProtocol

AllFaults == FaultKind
==========================================================================
