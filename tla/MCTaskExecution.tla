--------------------------- MODULE MCTaskExecution --------------------------
(***************************************************************************)
(* Instances of TaskExecution for TLC: one workflow of one node with two   *)
(* attempts, so that a second claim follows a failed or recovered one.     *)
(***************************************************************************)
EXTENDS TaskExecution

CONSTANTS w1, a1, a2, x1, x2

AllInW1 == [n \in Nodes |-> w1]
NoneOf == [n \in Nodes |-> {}]
TwoAttempts == [n \in Nodes |-> 2]
AllAgents == [n \in Nodes |-> Agents]
=============================================================================
