---------------------------- MODULE TaskExecution ---------------------------
(***************************************************************************)
(* Execution workers: the ledger of crates/sessionweft-scheduler-sqlite    *)
(* (scheduler_task_executions), TaskExecutionService and the loop of       *)
(* apps/sessionweftd/src/bin/sessionweft-execution-worker.rs, on top of    *)
(* Scheduler, whose claims the workers execute and finish.                 *)
(*                                                                         *)
(* A worker acts on one claim at a time, and every action here is one      *)
(* transaction or the call of the adapter, so that it can crash between    *)
(* them.  The lists a worker reads before it acts only choose claims: each *)
(* transaction looks at the status again.                                  *)
(***************************************************************************)
EXTENDS Scheduler

CONSTANTS Workers,     \* execution worker processes
          SpecNodes,   \* nodes with a registered TaskExecutionSpec
          RiskyNodes,  \* nodes whose Tool requires explicit approval
          Permitted    \* agents with the capability or permissions of a node

ASSUME ExecutionAssumption == /\ SpecNodes \subseteq Nodes
                              /\ RiskyNodes \subseteq SpecNodes
                              /\ Permitted \in [Nodes -> SUBSET Agents]

VARIABLES exec,       \* status of the record of each claim
          finalized,  \* claims whose record has claim_finalized
          fence,      \* claims whose fence snapshot still validates
          approved,   \* claims with an unexpired Tool approval
          worker,     \* what each worker is doing
          calls       \* how often the adapter was called for each claim

ledger == <<exec, finalized, fence, approved, worker, calls>>

executionVars == <<vars, ledger>>

-----------------------------------------------------------------------------
(* Types and initial state *)

ExecStatuses == {"none", "prepared", "running", "succeeded", "failed", "uncertain"}

Idle == [step |-> "idle", claim |-> NoTask]

WorkerStates ==
    [step : {"starting", "calling", "finalizing"}, claim : Claims] \cup {Idle}

ExecutionTypeOK == /\ exec \in [Claims -> ExecStatuses]
                   /\ finalized \subseteq Claims
                   /\ fence \subseteq Claims
                   /\ approved \subseteq Claims
                   /\ worker \in [Workers -> WorkerStates]
                   /\ calls \in [Claims -> Nat]

ExecutionInit == /\ Init
                 /\ exec = [c \in Claims |-> "none"]
                 /\ finalized = {}
                 /\ fence = {}
                 /\ approved = {}
                 /\ worker = [w \in Workers |-> Idle]
                 /\ calls = [c \in Claims |-> 0]

-----------------------------------------------------------------------------
(* The rest of the system *)

Claimed == {c \in Claims : claim[c].status = "none" /\ claim'[c].status = "active"}

\* A claim of a locked node is inserted with a snapshot of the lease found for
\* it; losing that lease invalidates the snapshot.
FenceAfterMove ==
    {c \in Claimed : c[1] \in LockedNodes}
        \cup {c \in fence : <<claim[c].agent, c[1]>> \in covers'}

SystemMove == /\ AgentStep \/ CommandStep \/ LeaseStep \/ SchedulingStep
              /\ fence' = FenceAfterMove
              /\ UNCHANGED <<exec, finalized, approved, worker, calls>>

\* The expiry in the snapshot passes; a heartbeat of the lease does not move it.
FenceLapses(c) == /\ c \in fence
                  /\ fence' = fence \ {c}
                  /\ UNCHANGED <<vars, exec, finalized, approved, worker, calls>>

GrantToolApproval(c) ==
    /\ claim[c].status # "none" /\ c[1] \in RiskyNodes
    /\ approved' = approved \cup {c}
    /\ UNCHANGED <<vars, exec, finalized, fence, worker, calls>>

ApprovalExpires(c) ==
    /\ c \in approved
    /\ approved' = approved \ {c}
    /\ UNCHANGED <<vars, exec, finalized, fence, worker, calls>>

-----------------------------------------------------------------------------
(* The worker *)

FenceValid(c) == c[1] \in LockedNodes => c \in fence

\* With a record for the claim the call only returns that record.
PrepareClaim(w, c) ==
    /\ worker[w] = Idle
    /\ exec[c] = "none"
    /\ claim[c].status = "active" /\ c[1] \in SpecNodes
    /\ LET a == claim[c].agent
       IN  /\ agent[a].status = "running" /\ agent[a].task = c /\ ~agent[a].stale
           /\ a \in Permitted[c[1]]
    /\ c[1] \in RiskyNodes => c \in approved
    /\ FenceValid(c)
    /\ exec' = [exec EXCEPT ![c] = "prepared"]
    /\ UNCHANGED <<vars, finalized, fence, approved, worker, calls>>

\* Fault: a record that is already running is started again.
StartOrResume(w, c) ==
    /\ worker[w] = Idle
    /\ exec[c] \in {"prepared", "running"}
    /\ exec' = [exec EXCEPT ![c] = "running"]
    /\ worker' = [worker EXCEPT ![w] = [step |-> "starting", claim |-> c]]
    /\ UNCHANGED <<vars, finalized, fence, approved, calls>>

\* mark_execution_running: neither claim, agent nor fence is looked at again.
StartExecution(w, c) ==
    /\ worker[w] = Idle
    /\ exec[c] = "prepared"
    /\ exec' = [exec EXCEPT ![c] = "running"]
    /\ worker' = [worker EXCEPT ![w] = [step |-> "starting", claim |-> c]]
    /\ UNCHANGED <<vars, finalized, fence, approved, calls>>

CallAdapter(w) ==
    /\ worker[w].step = "starting"
    /\ worker' = [worker EXCEPT ![w].step = "calling"]
    /\ calls' = [calls EXCEPT ![worker[w].claim] = @ + 1]
    /\ UNCHANGED <<vars, exec, finalized, fence, approved>>

\* succeed_execution or fail_execution; a result that comes after the record
\* became uncertain is a Conflict, and is dropped.
SaveResult(w, result) ==
    /\ worker[w].step = "calling"
    /\ exec' = [exec EXCEPT ![worker[w].claim] = IF @ = "running" THEN result ELSE @]
    /\ worker' = [worker EXCEPT ![w] = Idle]
    /\ UNCHANGED <<vars, finalized, fence, approved, calls>>

\* Fault: only records of active claims are marked.
MarkUncertainUnderClaim(w, c) ==
    /\ worker[w] = Idle
    /\ exec[c] = "running" /\ claim[c].status = "active"
    /\ exec' = [exec EXCEPT ![c] = "uncertain"]
    /\ UNCHANGED <<vars, finalized, fence, approved, worker, calls>>

\* mark_stale_running_uncertain on a record older than the running timeout.
MarkUncertain(w, c) ==
    /\ worker[w] = Idle
    /\ exec[c] = "running"
    /\ exec' = [exec EXCEPT ![c] = "uncertain"]
    /\ UNCHANGED <<vars, finalized, fence, approved, worker, calls>>

\* Fault: the claim is completed and the workflow is not told.
FinishClaimOnly(w, c) ==
    /\ worker[w] = Idle
    /\ c \notin finalized
    /\ exec[c] = "succeeded" /\ OwnsActive(c) /\ ReleaseTask(c, "completed")
    /\ worker' = [worker EXCEPT ![w] = [step |-> "finalizing", claim |-> c]]
    /\ UNCHANGED <<status, node, exec, finalized, fence, approved, calls>>

\* finish_claim answers Ok again for a claim that is already in that state.
FinishClaim(w, c) ==
    /\ worker[w] = Idle
    /\ c \notin finalized
    /\ \/ exec[c] = "succeeded" /\ CompleteClaim(c)
       \/ exec[c] = "failed" /\ FailClaim(c)
       \/ exec[c] = "succeeded" /\ claim[c].status = "completed" /\ UNCHANGED vars
       \/ exec[c] = "failed" /\ claim[c].status = "failed" /\ UNCHANGED vars
    /\ worker' = [worker EXCEPT ![w] = [step |-> "finalizing", claim |-> c]]
    /\ UNCHANGED <<exec, finalized, fence, approved, calls>>

MarkClaimFinalized(w) ==
    /\ worker[w].step = "finalizing"
    /\ finalized' = finalized \cup {worker[w].claim}
    /\ worker' = [worker EXCEPT ![w] = Idle]
    /\ UNCHANGED <<vars, exec, fence, approved, calls>>

\* The process dies and is started again; only the tables remain.
CrashWorker(w) ==
    /\ worker[w] # Idle
    /\ worker' = [worker EXCEPT ![w] = Idle]
    /\ UNCHANGED <<vars, exec, finalized, fence, approved, calls>>

-----------------------------------------------------------------------------
WorkerStep(w) ==
    \/ CallAdapter(w) \/ MarkClaimFinalized(w) \/ CrashWorker(w)
    \/ \E result \in {"succeeded", "failed"} : SaveResult(w, result)
    \/ \E c \in Claims : \/ PrepareClaim(w, c)  \/ StartExecution(w, c)
                         \/ MarkUncertain(w, c) \/ FinishClaim(w, c)

ExecutionNext ==
    \/ SystemMove
    \/ \E c \in Claims : FenceLapses(c) \/ GrantToolApproval(c) \/ ApprovalExpires(c)
    \/ \E w \in Workers : WorkerStep(w)

ExecutionSpec == ExecutionInit /\ [][ExecutionNext]_executionVars

(***************************************************************************)
(* Every pass of the loop marks stale records, executes what is prepared   *)
(* and finalizes results, in this order, and a worker that crashed begins  *)
(* a new pass: so these steps are taken when they are possible again and   *)
(* again, however often workers crash later in a pass.  An adapter call    *)
(* that began ends, with an answer or with the worker.                     *)
(***************************************************************************)
Fairness ==
    /\ \A c \in Claims :
         /\ SF_executionVars(\E w \in Workers : MarkUncertain(w, c))
         /\ SF_executionVars(\E w \in Workers : StartExecution(w, c))
         /\ SF_executionVars(\E w \in Workers : FinishClaim(w, c))
    /\ \A w \in Workers :
         /\ WF_executionVars(CallAdapter(w))
         /\ WF_executionVars(\E r \in {"succeeded", "failed"} : SaveResult(w, r))
         /\ SF_executionVars(MarkClaimFinalized(w))

FairExecutionSpec == ExecutionSpec /\ Fairness

-----------------------------------------------------------------------------
(* Properties *)

(***************************************************************************)
(* The external action of a claim is called at most once, whatever number  *)
(* of workers race for it, crash or time out, and only after the intent    *)
(* was persisted.                                                          *)
(***************************************************************************)
CalledOnce ==
    \A c \in Claims : /\ calls[c] <= 1
                      /\ exec[c] \in {"none", "prepared"} => calls[c] = 0

\* A ledger result is one the adapter gave: no record ends without its call.
ResultsComeFromCalls ==
    \A c \in Claims : exec[c] \in {"succeeded", "failed"} => calls[c] = 1

(***************************************************************************)
(* Scheduler and ledger agree on how a claim ended: it is completed or     *)
(* failed only by a result of that kind, and finalized only once the claim *)
(* has ended the same way.                                                 *)
(***************************************************************************)
ClaimsEndByResult ==
    /\ \A c \in Claims : /\ claim[c].status = "completed" => exec[c] = "succeeded"
                         /\ claim[c].status = "failed" => exec[c] = "failed"
    /\ \A c \in finalized : claim[c].status \in {"completed", "failed"}

(***************************************************************************)
(* Workers move claims, workflows and agents only the way Scheduler says:  *)
(* the tables change by whole scheduler transactions however workers       *)
(* interleave, crash and repeat them.                                      *)
(***************************************************************************)
ImplementsScheduler == Spec

\* Two workers never execute the same record.
OneWorkerPerExecution ==
    \A v, w \in Workers :
        /\ v # w
        /\ worker[v].step \in {"starting", "calling"}
        /\ worker[w].step \in {"starting", "calling"}
        => worker[v].claim # worker[w].claim

(***************************************************************************)
(* The ledger tells what happened outside: an adapter is called at most    *)
(* once for a claim and by one worker, results are results of calls, and   *)
(* the claim ends the way its result says.                                 *)
(***************************************************************************)
CallsAreLedgered ==
    /\ ExecutionTypeOK
    /\ CalledOnce /\ OneWorkerPerExecution
    /\ ResultsComeFromCalls /\ ClaimsEndByResult

(***************************************************************************)
(* A prepared execution settles: it reaches a result or is left for        *)
(* reconciliation, though workers crash and stall.                         *)
(***************************************************************************)
ExecutionsSettle ==
    \A c \in Claims : exec[c] = "prepared" ~>
                          exec[c] \in {"succeeded", "failed", "uncertain"}

(***************************************************************************)
(* What the documents promise and the code does not keep                   *)
(***************************************************************************)

(***************************************************************************)
(* "Provider and Tool actions execute only for an active scheduler Claim", *)
(* and "must load and validate the persisted fence snapshot again          *)
(* immediately before any external or workspace side effect": the claim is *)
(* active and the fence valid when the record becomes running.             *)
(***************************************************************************)
ActionsStartGuarded ==
    [][\A c \in Claims : exec[c] = "prepared" /\ exec'[c] = "running" =>
            claim[c].status = "active" /\ FenceValid(c)]_executionVars

\* "A persisted terminal result is finalized into scheduler Claim completion or
\* failure."
ResultsAreFinalized ==
    \A c \in Claims : exec[c] \in {"succeeded", "failed"} ~> c \in finalized
=============================================================================
