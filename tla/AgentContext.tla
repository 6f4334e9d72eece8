---------------------------- MODULE AgentContext ----------------------------
(***************************************************************************)
(* What an agent is given to know: the packages that ContextBuilder packs  *)
(* and the index of the workspace.  The two share no state, so that both   *)
(* together are the conjunction of their specifications.                   *)
(***************************************************************************)
EXTENDS ContextPacking, WorkspaceIndex

ContextSpec == PackingSpec /\ IndexSpec

(* What an agent is given as context fits its budget and tells of the      *)
(* files as they are (ContextBuilder::build,                               *)
(* PollingWorkspaceWatcher::poll_once).                                    *)
ContextIsTrue == PackagesAreTight /\ IndexTellsTheTruth
=============================================================================
