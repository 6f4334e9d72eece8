----------------------------- MODULE MCScheduler ----------------------------
(***************************************************************************)
(* Instances of Scheduler for TLC.                                         *)
(*   shared: w1 is 1 -> 3 with approval 2 also before 3; node 1 may be     *)
(*           retried once and has node 3 as its fallback, node 3 needs a   *)
(*           lease.  w2 is node 4, which operators drive too; both compete *)
(*           for the agents.                                               *)
(*   stale:  w1 as above, alone.                                           *)
(*   gate:   node 1 has fallback 2, which also depends on approval 3.      *)
(***************************************************************************)
EXTENDS Scheduler, TLC

CONSTANTS w1, w2, a1, a2

AllInW1 == [n \in Nodes |-> w1]
NoFallback == [n \in Nodes |-> {}]
AllEligible == [n \in Nodes |-> Agents]
AgentSymmetry == Permutations(Agents)

SharedWorkflowOf == [n \in Nodes |-> IF n = 4 THEN w2 ELSE w1]
SharedDeps == [n \in Nodes |-> IF n = 3 THEN {1, 2} ELSE {}]
SharedMaxAttempts == [n \in Nodes |-> IF n \in {1, 4} THEN 2 ELSE 1]
SharedFallback == [n \in Nodes |-> IF n = 1 THEN {3} ELSE {}]

GateDeps == [n \in Nodes |-> IF n = 2 THEN {3} ELSE {}]
GateFallback == [n \in Nodes |-> IF n = 1 THEN {2} ELSE {}]
=============================================================================
