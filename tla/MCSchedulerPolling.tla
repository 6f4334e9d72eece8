------------------------ MODULE MCSchedulerPolling --------------------------
(***************************************************************************)
(* An instance of SchedulerPolling for TLC: one workflow of two            *)
(* independent nodes; node 1 may be retried once, node 2 only a1 may do.   *)
(***************************************************************************)
EXTENDS SchedulerPolling, TLC

CONSTANTS w1, a1, a2, p1, p2

OneWorkflow == [n \in Nodes |-> w1]
NoDeps == [n \in Nodes |-> {}]
RetriedOnce == [n \in Nodes |-> IF n = 1 THEN 2 ELSE 1]
NoFallback == [n \in Nodes |-> {}]
SecondForA1 == [n \in Nodes |-> IF n = 2 THEN {a1} ELSE Agents]
=============================================================================
