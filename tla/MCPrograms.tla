------------------------------ MODULE MCPrograms ----------------------------
(***************************************************************************)
(* Three components that share no state, checked by one run: focus says     *)
(* which of them moves, and the others stay in one initial state.          *)
(*   workflows: 1 and approval 2 before 3; 1 has two attempts, and 4 is its*)
(*              fallback; 5 is a workflow of its own.                      *)
(*   kahn:      all graphs of three nodes, whose lists may repeat a name.  *)
(*   agents:    one agent, two terminals, programs that print one wide     *)
(*              character; one statement fails or the daemon restarts.     *)
(***************************************************************************)
EXTENDS Orchestration, KahnValidation, StandaloneAgents, FiniteSets

CONSTANTS w1, w2, c1, c2, p1, p2, r1, agent1

VARIABLES
  focus,
  failures    \* of the statements of agents

DiamondWorkflowOf == [n \in Nodes |-> IF n = 5 THEN w2 ELSE w1]
DiamondDeps == [n \in Nodes |-> IF n = 3 THEN {1, 2} ELSE IF n = 4 THEN {3} ELSE {}]
DiamondAttempts == [n \in Nodes |-> IF n = 1 THEN 2 ELSE 1]
DiamondFallback == [n \in Nodes |-> IF n = 1 THEN {4} ELSE {}]

WideCharacters == {<<"h", "l">>}

-----------------------------------------------------------------------------
modelVars == <<vars, kahnVars, agentVars, focus, failures>>

ModelInit ==
    /\ focus \in {"workflows", "kahn", "agents"}
    /\ focus = "kahn" \/ names = [n \in NodeIds |-> [d \in NodeIds |-> 0]]
    /\ Init /\ KahnInit /\ AgentInit /\ failures = 0

WorkflowsStep ==
    /\ focus = "workflows" /\ Next
    /\ UNCHANGED <<kahnVars, agentVars, focus, failures>>

KahnStep ==
    /\ focus = "kahn" /\ KahnNext
    /\ UNCHANGED <<vars, agentVars, focus, failures>>

\* A request that changed something ends with a step left to take.
RequestBreaksOff ==
    \E r \in Requests : /\ request[r].at \in {"bind", "activate", "record", "cancel"}
                        /\ request'[r] = NoRequest /\ UNCHANGED used

StatementFails ==
    \/ RequestBreaksOff
    \/ unrecorded' # unrecorded
    \/ \E p \in Ptys :
         \/ CaptureShares(p) /\ UNCHANGED messages
         \/ CaptureProgresses(p) /\ binding'[capture[p].agent].cursor # capture'[p].cursor

AgentsStep ==
    /\ focus = "agents" /\ AgentNext
    /\ failures' = failures + (IF StatementFails THEN 1 ELSE 0)
    /\ failures' + used'.restarts <= 1
    /\ UNCHANGED <<vars, kahnVars, focus>>

ModelNext == WorkflowsStep \/ KahnStep \/ AgentsStep

\* Only the agents' property is about what must happen.
ModelSpec == ModelInit /\ [][ModelNext]_modelVars /\ AgentFairness
=============================================================================
