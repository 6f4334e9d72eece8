---------------------------- MODULE Orchestration ---------------------------
(***************************************************************************)
(* OrchestrationService of crates/sessionweft-orchestration over the       *)
(* workflow_executions table: every command reads the execution, applies a *)
(* transition of Workflow to its copy, and saves the copy if the version   *)
(* is still the one it expected.  Clients run these two halves side by     *)
(* side.  Scheduler takes each command as one atomic step; the refinement  *)
(* Atomic says that this is what clients see.                              *)
(***************************************************************************)
EXTENDS Workflow, Sequences

CONSTANTS Clients,   \* concurrent callers of the service
          Operator,  \* the owner they give to the nodes they start
          NoAgent, NoTask

ASSUME OrchestrationAssumption == Operator \in Owners

VARIABLES status, node, version,  \* workflow_executions
          events,                 \* outbox: versions of the committed events
          client                  \* what each caller holds between its halves

vars == <<status, node, version, events, client>>

-----------------------------------------------------------------------------
(* Commands *)

Commands == {"start", "complete", "fail", "approve", "reject"}

RequiredStatus(op) == CASE op = "start" -> "ready"
                        [] op \in {"complete", "fail"} -> "running"
                        [] op \in {"approve", "reject"} -> "waiting_approval"

\* ensure_running, the kind of the node and its status.
Permits(st, ns, n, op) ==
    /\ st = "running"
    /\ op \in {"approve", "reject"} => n \in Approvals
    /\ ns[n].status = RequiredStatus(op)

NodesAfter(ns, n, op) == CASE op = "start"    -> Started(ns, n, Operator)
                           [] op = "complete" -> Completed(ns, n)
                           [] op = "fail"     -> FailedOrRetried(ns, n)
                           [] op = "approve"  -> Decided(ns, n, TRUE)
                           [] op = "reject"   -> Decided(ns, n, FALSE)

\* Workflow status after the command left the nodes at ns.
StatusAfter(ns, n, op) == CASE op = "start"    -> "running"
                            [] op = "complete" -> StatusAfterSuccess(ns, n)
                            [] op = "fail"     -> StatusAfterFailure(ns, n)
                            [] op = "approve"  -> StatusAfterDecision(ns, n, TRUE)
                            [] op = "reject"   -> StatusAfterDecision(ns, n, FALSE)

-----------------------------------------------------------------------------
(* The service *)

Free == [workflow |-> "none"]

Copies == [workflow : Workflows, expected : Nat \ {0},
           node : [Nodes -> NodeStates], status : WorkflowStatuses]

TypeOK == /\ status \in [Workflows -> WorkflowStatuses]
          /\ node \in [Nodes -> NodeStates]
          /\ version \in [Workflows -> Nat \ {0}]
          /\ events \in [Workflows -> Seq(Nat \ {0})]
          /\ client \in [Clients -> Copies \cup {Free}]

Init == /\ status = [w \in Workflows |-> "running"]
        /\ node = NewExecution
        /\ version = [w \in Workflows |-> 1]
        /\ events = [w \in Workflows |-> <<1>>]
        /\ client = [c \in Clients |-> Free]

\* get_workflow and the transition; a caller that expects another version, or
\* a command that is not permitted, is an error.
ReadAndApply(c, n, op) ==
    LET w == WorkflowOf[n]
        after == NodesAfter(node, n, op)
    IN  /\ client[c] = Free
        /\ Permits(status[w], node, n, op)
        /\ client' = [client EXCEPT ![c] = [workflow |-> w,
                                           expected |-> version[w],
                                           node     |-> after,
                                           status   |-> StatusAfter(after, n, op)]]
        /\ UNCHANGED <<status, node, version, events>>

\* Fault: a row that has moved on is overwritten.
CurrentOrBehind(copy) == version[copy.workflow] >= copy.expected

Current(copy) == version[copy.workflow] = copy.expected

\* Fault: the transition does not advance the version.
SameVersion(copy) == copy.expected

NextVersion(copy) == copy.expected + 1

\* save_workflow: the row and the events commit together.
Save(c) ==
    /\ client[c] # Free
    /\ LET copy == client[c]
           w == copy.workflow
       IN  /\ Current(copy)
           /\ version' = [version EXCEPT ![w] = NextVersion(copy)]
           /\ status' = [status EXCEPT ![w] = copy.status]
           /\ node' = [n \in Nodes |-> IF WorkflowOf[n] = w THEN copy.node[n]
                                       ELSE node[n]]
           /\ events' = [events EXCEPT ![w] = Append(@, NextVersion(copy))]
    /\ client' = [client EXCEPT ![c] = Free]

\* VersionConflict, or the caller went away between the two halves.
GiveUp(c) == /\ client[c] # Free
             /\ client' = [client EXCEPT ![c] = Free]
             /\ UNCHANGED <<status, node, version, events>>

Next == \E c \in Clients : \/ Save(c) \/ GiveUp(c)
                           \/ \E n \in Nodes, op \in Commands : ReadAndApply(c, n, op)

Spec == Init /\ [][Next]_vars

-----------------------------------------------------------------------------
(* Properties *)

\* The commands of Scheduler alone: no agents, every node driven by operators.
Atomic == INSTANCE Scheduler WITH
    Agents <- {}, ManualNodes <- Nodes, LockedNodes <- {},
    Eligible <- [n \in Nodes |-> {}],
    agent <- [a \in {} |-> Free],
    claim <- [c \in {k \in Nodes \X (1 .. 100) : k[2] <= MaxAttempts[k[1]]} |->
                 [status |-> "none", agent |-> NoAgent]],
    covers <- {}

(***************************************************************************)
(* Read, apply and save implement one atomic command: an update of another *)
(* caller in between is never lost or half applied, in whatever order      *)
(* callers read and save.  This is Atomic!Spec, asked of the steps that    *)
(* change the rows.                                                        *)
(***************************************************************************)
CommandsAreAtomic ==
    Atomic!Init /\ [][<<status, node>>' # <<status, node>> => Atomic!Next]_(Atomic!vars)

(***************************************************************************)
(* The outbox tells the history of the row without gap, repetition or      *)
(* disorder: one commit of events for each version up to the stored one.   *)
(***************************************************************************)
EventsFollowVersions ==
    \A w \in Workflows : events[w] = [v \in 1 .. version[w] |-> v]

(***************************************************************************)
(* A caller that still holds the current version holds a copy that was     *)
(* made by a command permitted right now: nothing it read has changed.     *)
(***************************************************************************)
CurrentCopiesAreFresh ==
    \A c \in Clients : client[c] # Free /\ Current(client[c]) =>
        \E n \in NodesOf(client[c].workflow), op \in Commands :
            /\ Permits(status[client[c].workflow], node, n, op)
            /\ \A m \in NodesOf(client[c].workflow) :
                  client[c].node[m] = NodesAfter(node, n, op)[m]

(***************************************************************************)
(* The row, the outbox and the copies of the callers tell one story:       *)
(* versions and their events have no gap, and a copy that can still be     *)
(* saved is the effect of one permitted command on the row as it is.       *)
(***************************************************************************)
RowsEventsAndCopiesAgree == TypeOK /\ EventsFollowVersions /\ CurrentCopiesAreFresh

(***************************************************************************)
(* "Workflow failures and retries are visible": a workflow that is shown   *)
(* as running has a node that is ready, running or awaiting approval.      *)
(***************************************************************************)
RunningHasWork ==
    \A w \in Workflows : status[w] = "running" => HasRecoverableWork(node, w)
=============================================================================
