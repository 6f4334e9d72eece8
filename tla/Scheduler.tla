------------------------------ MODULE Scheduler -----------------------------
(***************************************************************************)
(* The durable scheduler of crates/sessionweft-scheduler and               *)
(* crates/sessionweft-scheduler-sqlite over the tables it shares with the  *)
(* workflow and agent repositories: workflow_executions, agent_records,    *)
(* scheduler_claims and lock_leases.                                       *)
(*                                                                         *)
(* Every action is one committed SQLite transaction.  The scheduler's own  *)
(* operations hold claim_guard and compare versions when they save; the    *)
(* operations of the control plane API read first and save with a version  *)
(* check, so one that was overtaken commits nothing (Orchestration models  *)
(* the two halves and shows that they implement one atomic step).  A call  *)
(* that returns an error or None changes nothing and is a stuttering step. *)
(*                                                                         *)
(* A claim is identified by its idempotency key workflow:node:attempt,     *)
(* here <<node, attempt>>, which is also the task id given to the agent.   *)
(***************************************************************************)
EXTENDS Workflow

CONSTANTS Agents,       \* agents of the session
          Operator,     \* owner_id of a node started through the API
          ManualNodes,  \* nodes operators may drive through the API
          Eligible,     \* agents whose role and capabilities match the plan
          LockedNodes,  \* nodes with a registered lock requirement
          NoAgent,      \* agent of a claim that does not exist
          NoTask        \* current_task_id = None

ASSUME SchedulerAssumption ==
    /\ Agents \subseteq Owners
    /\ Operator \in Owners \ Agents
    /\ ManualNodes \subseteq Nodes
    /\ Eligible \in [Nodes -> SUBSET Agents]
    /\ LockedNodes \subseteq Nodes
    /\ NoAgent \notin Agents
    /\ NoTask \notin Nodes \X (1 .. 100)

VARIABLES status,   \* status of each workflow
          node,     \* state of each node
          agent,    \* agent_records
          claim,    \* scheduler_claims
          covers    \* <<a, n>>: a live lease of a meets n's lock requirement

vars == <<status, node, agent, claim, covers>>

-----------------------------------------------------------------------------
(* Types and initial state *)

Claims == {c \in Nodes \X (1 .. 100) : c[2] <= MaxAttempts[c[1]]}

AgentStates == [status : {"registered", "running", "stopped", "failed"},
                task   : Claims \cup {NoTask},
                stale  : BOOLEAN]   \* is_stale_at(now)

NoClaim == [status |-> "none", agent |-> NoAgent]

ClaimStates == [status : {"active", "completed", "failed", "released"},
                agent  : Agents] \cup {NoClaim}

TypeOK == /\ status \in [Workflows -> WorkflowStatuses]
          /\ node \in [Nodes -> NodeStates]
          /\ agent \in [Agents -> AgentStates]
          /\ claim \in [Claims -> ClaimStates]
          /\ covers \subseteq Agents \X Nodes

RegisteredAgent == [status |-> "registered", task |-> NoTask, stale |-> FALSE]

Init == /\ status = [w \in Workflows |-> "running"]
        /\ node = NewExecution
        /\ agent = [a \in Agents |-> RegisteredAgent]
        /\ claim = [c \in Claims |-> NoClaim]
        /\ covers = {}

-----------------------------------------------------------------------------
(* Agents *)

Available(a) == agent[a].status = "running" /\ agent[a].task = NoTask

StartAgent(a) ==
    /\ agent[a].status \in {"registered", "stopped"}
    /\ agent' = [agent EXCEPT ![a].status = "running", ![a].stale = FALSE]
    /\ UNCHANGED <<status, node, claim, covers>>

HeartbeatAgent(a) ==
    /\ agent[a].status = "running"
    /\ agent' = [agent EXCEPT ![a].stale = FALSE]
    /\ UNCHANGED <<status, node, claim, covers>>

\* A stopped agent is not stale: is_stale_at looks at running agents only.
StopAgent(a) ==
    /\ Available(a)
    /\ agent' = [agent EXCEPT ![a].status = "stopped", ![a].stale = FALSE]
    /\ UNCHANGED <<status, node, claim, covers>>

\* heartbeat_timeout_seconds pass without a heartbeat.
HeartbeatLapses(a) ==
    /\ agent[a].status = "running"
    /\ agent' = [agent EXCEPT ![a].stale = TRUE]
    /\ UNCHANGED <<status, node, claim, covers>>

-----------------------------------------------------------------------------
(* Workflow commands of the control plane API *)

Running(n) == status[WorkflowOf[n]] = "running"

StartNode(n) ==
    /\ n \in ManualNodes
    /\ Running(n) /\ node[n].status = "ready"
    /\ node' = Started(node, n, Operator)
    /\ UNCHANGED <<status, agent, claim, covers>>

\* complete_node and fail_node do not ask who owns the running node.
CompleteNode(n) ==
    /\ n \in ManualNodes
    /\ Running(n) /\ node[n].status = "running"
    /\ node' = Completed(node, n)
    /\ status' = [status EXCEPT ![WorkflowOf[n]] = StatusAfterSuccess(node', n)]
    /\ UNCHANGED <<agent, claim, covers>>

FailNode(n) ==
    /\ n \in ManualNodes
    /\ Running(n) /\ node[n].status = "running"
    /\ node' = FailedOrRetried(node, n)
    /\ status' = [status EXCEPT ![WorkflowOf[n]] = StatusAfterFailure(node', n)]
    /\ UNCHANGED <<agent, claim, covers>>

DecideApproval(n, approved) ==
    /\ n \in Approvals
    /\ Running(n) /\ node[n].status = "waiting_approval"
    /\ node' = Decided(node, n, approved)
    /\ status' = [status EXCEPT ![WorkflowOf[n]] =
                                    StatusAfterDecision(node', n, approved)]
    /\ UNCHANGED <<agent, claim, covers>>

-----------------------------------------------------------------------------
(* Leases, as far as lock_fence_for sees them; LockLease models the table *)

AcquireLease(a, n) == /\ n \in LockedNodes
                      /\ covers' = covers \cup {<<a, n>>}
                      /\ UNCHANGED <<status, node, agent, claim>>

\* Released or expired.
LoseLease(a, n) == /\ <<a, n>> \in covers
                   /\ covers' = covers \ {<<a, n>>}
                   /\ UNCHANGED <<status, node, agent, claim>>

-----------------------------------------------------------------------------
(* Claims *)

\* Fault: only the key of the next attempt is looked up.
HasActiveClaimOfAttempt(n) ==
    \E c \in Claims : c = <<n, node[n].attempts + 1>> /\ claim[c].status = "active"

HasActiveClaim(n) == \E c \in Claims : c[1] = n /\ claim[c].status = "active"

MayRun(a, n) == a \in Eligible[n] /\ (n \in LockedNodes => <<a, n>> \in covers)

NextClaim(n) == <<n, node[n].attempts + 1>>

(***************************************************************************)
(* The tail claim_next and handover share: start the node, assign the task *)
(* and insert the claim, whose key the table requires to be unused.        *)
(***************************************************************************)
Assign(n, a) ==
    /\ Running(n) /\ node[n].status = "ready"
    /\ Available(a)
    /\ claim[NextClaim(n)].status = "none"
    /\ node' = Started(node, n, a)
    /\ agent' = [agent EXCEPT ![a].task = NextClaim(n)]
    /\ claim' = [claim EXCEPT ![NextClaim(n)] = [status |-> "active", agent |-> a]]
    /\ UNCHANGED <<status, covers>>

\* The ready nodes claim_next_guarded does not pass over.
Claimable(w, a) ==
    {n \in ReadyNodes(node, w) : ~HasActiveClaim(n) /\ MayRun(a, n)}

\* claim_next_guarded; staleness of the agent is the caller's business.
ClaimNext(w, a) ==
    \E n \in Claimable(w, a) :
        /\ \A m \in Claimable(w, a) : n <= m
        /\ Assign(n, a)

\* finish_claim: the claim is active, and the agent owns its task.
OwnsActive(c) ==
    /\ claim[c].status = "active"
    /\ agent[claim[c].agent].task = c
    /\ Running(c[1]) /\ node[c[1]].status = "running"

ReleaseTask(c, claimStatus) ==
    /\ agent[claim[c].agent].status = "running"
    /\ agent' = [agent EXCEPT ![claim[c].agent].task = NoTask]
    /\ claim' = [claim EXCEPT ![c].status = claimStatus]
    /\ UNCHANGED covers

CompleteClaim(c) ==
    /\ OwnsActive(c)
    /\ ReleaseTask(c, "completed")
    /\ node' = Completed(node, c[1])
    /\ status' = [status EXCEPT ![WorkflowOf[c[1]]] = StatusAfterSuccess(node', c[1])]

FailClaim(c) ==
    /\ OwnsActive(c)
    /\ ReleaseTask(c, "failed")
    /\ node' = FailedOrRetried(node, c[1])
    /\ status' = [status EXCEPT ![WorkflowOf[c[1]]] = StatusAfterFailure(node', c[1])]

\* What stale_claim_ids selects.
StaleClaim(c) == /\ claim[c].status = "active"
                 /\ agent[claim[c].agent].status = "running"
                 /\ agent[claim[c].agent].stale

\* Fault: the claim stays active.
RecoverKeepingClaim(c) ==
    /\ StaleClaim(c)
    /\ OwnsActive(c)
    /\ node' = FailedOrRetried(node, c[1])
    /\ status' = [status EXCEPT ![WorkflowOf[c[1]]] = StatusAfterFailure(node', c[1])]
    /\ agent' = [agent EXCEPT ![claim[c].agent] =
                     [status |-> "failed", task |-> NoTask, stale |-> FALSE]]
    /\ UNCHANGED <<claim, covers>>

\* Fault: the agent that let its claim go stale stays in service.
RecoverKeepingAgent(c) ==
    /\ StaleClaim(c)
    /\ OwnsActive(c)
    /\ node' = FailedOrRetried(node, c[1])
    /\ status' = [status EXCEPT ![WorkflowOf[c[1]]] = StatusAfterFailure(node', c[1])]
    /\ agent' = [agent EXCEPT ![claim[c].agent].task = NoTask]
    /\ claim' = [claim EXCEPT ![c].status = "released"]
    /\ UNCHANGED covers

\* A failed agent never runs again: start accepts registered and stopped ones.
RecoverStaleClaim(c) ==
    /\ StaleClaim(c)
    /\ OwnsActive(c)
    /\ node' = FailedOrRetried(node, c[1])
    /\ status' = [status EXCEPT ![WorkflowOf[c[1]]] = StatusAfterFailure(node', c[1])]
    /\ agent' = [agent EXCEPT ![claim[c].agent] =
                     [status |-> "failed", task |-> NoTask, stale |-> FALSE]]
    /\ claim' = [claim EXCEPT ![c].status = "released"]
    /\ UNCHANGED covers

\* The agents replacement_agent_guarded accepts for released claim c.
Replacements(c) == {a \in Agents \ {claim[c].agent} :
                        Available(a) /\ ~agent[a].stale /\ MayRun(a, c[1])}

\* With an active claim on the node the call only returns that claim.
HandOver(c, a) ==
    /\ claim[c].status = "released"
    /\ ~HasActiveClaim(c[1])
    /\ a \in Replacements(c)
    /\ Assign(c[1], a)

-----------------------------------------------------------------------------
AgentStep == \E a \in Agents : \/ StartAgent(a) \/ HeartbeatAgent(a)
                               \/ StopAgent(a)  \/ HeartbeatLapses(a)

CommandStep == \E n \in Nodes : \/ StartNode(n) \/ CompleteNode(n) \/ FailNode(n)
                                \/ \E approved \in BOOLEAN : DecideApproval(n, approved)

LeaseStep == \E a \in Agents, n \in Nodes : AcquireLease(a, n) \/ LoseLease(a, n)

\* What scheduler workers do, and what execution workers ask for.
SchedulingStep ==
    \/ \E w \in Workflows, a \in Agents : ClaimNext(w, a)
    \/ \E c \in Claims : \/ RecoverStaleClaim(c)
                        \/ \E a \in Agents : HandOver(c, a)

FinishStep == \E c \in Claims : CompleteClaim(c) \/ FailClaim(c)

ClaimStep == SchedulingStep \/ FinishStep

Next == AgentStep \/ CommandStep \/ LeaseStep \/ ClaimStep

Spec == Init /\ [][Next]_vars
-----------------------------------------------------------------------------
(* Safety *)

Scheduled(n) == n \notin ManualNodes

(***************************************************************************)
(* Retries are bounded: no node is started more often than max_attempts,   *)
(* whoever starts and fails it, and one that waits to be started has an    *)
(* attempt left.                                                           *)
(***************************************************************************)
AttemptsBounded ==
    \A n \in Nodes :
        /\ node[n].attempts <= MaxAttempts[n]
        /\ node[n].status \in {"pending", "ready"} => node[n].attempts < MaxAttempts[n]

(***************************************************************************)
(* agent_records and scheduler_claims always tell the same story: the task *)
(* an agent owns is an active claim of its own, and every active claim is  *)
(* the task of its agent.  claim_next, finish_claim, recovery and handover *)
(* each change both tables; a claim whose agent lost the task could never  *)
(* be finished or recovered (finish_claim's ownership check).              *)
(***************************************************************************)
TaskIsActiveClaim ==
    /\ \A a \in Agents : agent[a].task # NoTask =>
            /\ agent[a].status = "running"
            /\ claim[agent[a].task] = [status |-> "active", agent |-> a]
    /\ \A c \in Claims : claim[c].status = "active" =>
            agent[claim[c].agent].task = c

(***************************************************************************)
(* "One Workflow node has at most one active claim", even when operators   *)
(* fail or complete nodes under a claim through the API.                   *)
(***************************************************************************)
OneActiveClaimPerNode ==
    \A c, d \in Claims :
        claim[c].status = "active" /\ claim[d].status = "active" /\ c[1] = d[1]
            => c = d

(***************************************************************************)
(* The UNIQUE idempotency key never refuses an insert: every claim of a    *)
(* node is for an attempt the node has already counted, so the next        *)
(* attempt is a new key.                                                   *)
(***************************************************************************)
KeysNotReused ==
    \A c \in Claims : claim[c].status # "none" => c[2] <= node[c[1]].attempts

(***************************************************************************)
(* Of the nodes operators leave alone, exactly those that run have an      *)
(* active claim: the one of the current attempt, held by the node's owner. *)
(***************************************************************************)
ClaimsMatchNodes ==
    /\ \A c \in Claims : claim[c].status = "active" /\ Scheduled(c[1]) =>
            node[c[1]] = [status   |-> "running",
                          attempts |-> c[2],
                          owner    |-> claim[c].agent]
    /\ \A n \in Nodes : node[n].status = "running" /\ Scheduled(n) =>
            \E c \in Claims : /\ c = <<n, node[n].attempts>>
                              /\ claim[c].status = "active"

(***************************************************************************)
(* The work of a node is accepted once: a completed claim is of the last   *)
(* attempt of a node that has succeeded, so no attempt follows it.         *)
(***************************************************************************)
CompletedOnce ==
    \A c \in Claims : claim[c].status = "completed" /\ Scheduled(c[1]) =>
        node[c[1]].status = "succeeded" /\ node[c[1]].attempts = c[2]

\* A workflow that succeeded has nothing left running: no scheduled claim is
\* active in it and every node satisfies its dependents.
SucceededIsQuiescent ==
    \A w \in Workflows : status[w] = "succeeded" =>
        /\ IsSuccessfullyComplete(node, w)
        /\ \A c \in Claims : WorkflowOf[c[1]] = w /\ Scheduled(c[1]) =>
                claim[c].status # "active"

(***************************************************************************)
(* A node leaves Pending only after its dependencies, or as the fallback   *)
(* of a node that exhausted its attempts.                                  *)
(***************************************************************************)
WorkWaitsForDependencies ==
    \A n \in Nodes : node[n].status # "pending" =>
        \/ DependenciesSatisfied(node, n)
        \/ \E m \in Nodes : n \in Fallback[m] /\ node[m].status = "failed"

(***************************************************************************)
(* The three tables agree on who works on what: agent_records and          *)
(* scheduler_claims name the same work, and a scheduled node runs exactly  *)
(* under an active claim.                                                  *)
(***************************************************************************)
WorkIsAgreed == TaskIsActiveClaim /\ ClaimsMatchNodes

\* An attempt of a node is claimed once, and not beside another attempt.
ClaimsAreDistinct == OneActiveClaimPerNode /\ KeysNotReused

(***************************************************************************)
(* Work is done in order and done once: a node starts after what it waits  *)
(* for and no more often than max_attempts allows, its accepted attempt is *)
(* the last, and a workflow that succeeded has nothing running.            *)
(***************************************************************************)
WorkIsOrdered ==
    /\ WorkWaitsForDependencies /\ AttemptsBounded
    /\ CompletedOnce /\ SucceededIsQuiescent

\* A claim that begins is guarded by its lease, and no agent gets a node back.
StartsGuarded ==
    \A c \in Claims : claim[c].status = "none" /\ claim'[c].status = "active" =>
        /\ c[1] \in LockedNodes => <<claim'[c].agent, c[1]>> \in covers
        /\ \A d \in Claims : d[1] = c[1] /\ claim[d].status = "released" =>
                claim[d].agent # claim'[c].agent

(***************************************************************************)
(* A claim of a locked node begins under a live lease of the agent that    *)
(* gets it (the lease may be lost later), and neither handover nor a new   *)
(* claim returns a node to an agent that let it go stale.                  *)
(***************************************************************************)
ClaimsStartGuarded == [][StartsGuarded]_vars

(***************************************************************************)
(* What the documents promise and the code does not keep                   *)
(***************************************************************************)

\* "A task depending on an approval node cannot become ready until that
\* approval is persisted as granted."
ApprovalBeforeDependents ==
    \A n \in Nodes : node[n].status = "ready" =>
        \A d \in Deps[n] \cap Approvals : node[d].status = "succeeded"

\* "An active scheduler claim is recoverable when its owning Agent is still
\* persisted as running but is_stale_at(now) returns true."
StaleClaimsRecoverable ==
    \A c \in Claims : StaleClaim(c) => OwnsActive(c)
=============================================================================
