------------------------------ MODULE Workflow ------------------------------
(***************************************************************************)
(* The workflow state machine of crates/sessionweft-orchestration: the     *)
(* definition of a workflow (its nodes, dependencies, retries, fallbacks   *)
(* and approvals) and, as operators on the node states, what start_node,   *)
(* complete_node, fail_node and decide_approval do to an execution.  The   *)
(* module has no variables: Orchestration puts an optimistic repository    *)
(* around these transitions, Scheduler puts claims around them.            *)
(*                                                                         *)
(* A node state function ns maps every node of every workflow to a record  *)
(* [status, attempts, owner].  Names, timestamps, error texts and events   *)
(* are abstracted: no transition reads them.                               *)
(***************************************************************************)
EXTENDS Integers

CONSTANTS Workflows,         \* workflow executions
          Nodes,             \* node ids, numbered in BTreeMap (id) order
          WorkflowOf,        \* the workflow a node belongs to
          Deps,              \* dependencies of a node
          Approvals,         \* the nodes of kind Approval; the others are Tasks
          MaxAttempts,       \* max_attempts of a node
          ContinueOnFailure, \* the nodes with continue_on_failure
          Fallback,          \* {} or {f}: the fallback of a node
          Owners,            \* who may own a running node
          NoOwner            \* owner_id = None

(***************************************************************************)
(* What WorkflowDefinition::validate guarantees of a definition, as far as *)
(* the transitions depend on it.  Acyclicity is KahnValidation's subject.  *)
(* A node may name itself as its fallback: validate only looks the id up.  *)
(***************************************************************************)
ASSUME WorkflowAssumption ==
    /\ Nodes \subseteq Nat
    /\ WorkflowOf \in [Nodes -> Workflows]
    /\ Deps \in [Nodes -> SUBSET Nodes]
    /\ Approvals \subseteq Nodes
    /\ MaxAttempts \in [Nodes -> 1 .. 100]
    /\ ContinueOnFailure \subseteq Nodes
    /\ Fallback \in [Nodes -> SUBSET Nodes]
    /\ \A n \in Nodes : \A d \in Deps[n] :
            d # n /\ WorkflowOf[d] = WorkflowOf[n]
    /\ \A n \in Nodes : \A f, g \in Fallback[n] :
            f = g /\ WorkflowOf[f] = WorkflowOf[n]
    /\ NoOwner \notin Owners

-----------------------------------------------------------------------------
(* Types *)

WorkflowStatuses == {"running", "succeeded", "failed"}

NodeStatuses == {"pending", "ready", "running", "waiting_approval",
                 "succeeded", "failed"}

NodeStates == [status   : NodeStatuses,
               attempts : 0 .. 100,
               owner    : Owners \cup {NoOwner}]

NodesOf(w) == {n \in Nodes : WorkflowOf[n] = w}

-----------------------------------------------------------------------------
(* Readiness *)

\* Skipped, the other status that satisfies a dependency, is never assigned.
SatisfiesDependency(ns, n) ==
    \/ ns[n].status = "succeeded"
    \/ n \in ContinueOnFailure /\ ns[n].status = "failed"

DependenciesSatisfied(ns, n) == \A d \in Deps[n] : SatisfiesDependency(ns, d)

\* The status a node takes when refresh_ready_nodes finds it can proceed.
EnabledStatus(n) == IF n \in Approvals THEN "waiting_approval" ELSE "ready"

\* Fault: one satisfied dependency is taken for all of them.
RefreshOnAnyDependency(ns, w) ==
    [n \in Nodes |->
        IF /\ WorkflowOf[n] = w
           /\ ns[n].status = "pending"
           /\ \E d \in Deps[n] : SatisfiesDependency(ns, d)
        THEN [ns[n] EXCEPT !.status = EnabledStatus(n)]
        ELSE ns[n]]

(***************************************************************************)
(* refresh_ready_nodes on workflow w.  The code walks the definitions in   *)
(* order and updates in place; as leaving Pending never satisfies a        *)
(* dependency, the walk has the effect of this simultaneous update.        *)
(***************************************************************************)
RefreshReadyNodes(ns, w) ==
    [n \in Nodes |->
        IF /\ WorkflowOf[n] = w
           /\ ns[n].status = "pending"
           /\ DependenciesSatisfied(ns, n)
        THEN [ns[n] EXCEPT !.status = EnabledStatus(n)]
        ELSE ns[n]]

IsSuccessfullyComplete(ns, w) == \A n \in NodesOf(w) : SatisfiesDependency(ns, n)

HasRecoverableWork(ns, w) ==
    \E n \in NodesOf(w) : ns[n].status \in {"ready", "running", "waiting_approval"}

-----------------------------------------------------------------------------
(* Executions *)

FreshNode == [status |-> "pending", attempts |-> 0, owner |-> NoOwner]

\* Node states of a new execution of every workflow.
NewExecution ==
    [n \in Nodes |-> IF Deps[n] = {}
                     THEN [FreshNode EXCEPT !.status = EnabledStatus(n)]
                     ELSE FreshNode]

ReadyNodes(ns, w) == {n \in NodesOf(w) : ns[n].status = "ready"}

Started(ns, n, o) ==
    [ns EXCEPT ![n] = [status   |-> "running",
                       attempts |-> ns[n].attempts + 1,
                       owner    |-> o]]

Completed(ns, n) ==
    RefreshReadyNodes([ns EXCEPT ![n].status = "succeeded", ![n].owner = NoOwner],
                      WorkflowOf[n])

\* Workflow status after node n of it completed, or was approved, leaving ns.
StatusAfterSuccess(ns, n) ==
    IF IsSuccessfullyComplete(ns, WorkflowOf[n]) THEN "succeeded" ELSE "running"

Retries(ns, n) == ns[n].attempts < MaxAttempts[n]

\* The fallback is made ready whatever its kind and its dependencies.
FallbackActivated(ns, n) ==
    [m \in Nodes |-> IF m \in Fallback[n] /\ ns[m].status = "pending"
                     THEN [ns[m] EXCEPT !.status = "ready"]
                     ELSE ns[m]]

FailedOrRetried(ns, n) ==
    LET over(s) == [ns EXCEPT ![n].status = s, ![n].owner = NoOwner]
    IN  IF Retries(ns, n)
        THEN over("ready")
        ELSE RefreshReadyNodes(FallbackActivated(over("failed"), n), WorkflowOf[n])

\* Workflow status after node n of it failed, leaving ns.
StatusAfterFailure(ns, n) ==
    IF /\ ns[n].status = "failed"
       /\ n \notin ContinueOnFailure
       /\ ~HasRecoverableWork(ns, WorkflowOf[n])
    THEN "failed"
    ELSE "running"

\* Fault: a rejected approval is skipped.
DecidedSkipping(ns, n, approved) ==
    RefreshReadyNodes(
        [ns EXCEPT ![n].status = IF approved THEN "succeeded" ELSE "skipped"],
        WorkflowOf[n])

Decided(ns, n, approved) ==
    RefreshReadyNodes(
        [ns EXCEPT ![n].status = IF approved THEN "succeeded" ELSE "failed"],
        WorkflowOf[n])

\* Workflow status after approval node n of it was decided, leaving ns.
StatusAfterDecision(ns, n, approved) ==
    IF approved THEN StatusAfterSuccess(ns, n) ELSE "failed"
=============================================================================
