--------------------------- MODULE SchedulerPolling ---------------------------
(***************************************************************************)
(* SchedulerPollingService and the worker that runs it: what a scheduler   *)
(* worker asks of the repository, in which order, on what it read before.  *)
(* A tick recovers stale claims, hands released ones over and offers ready *)
(* work to available agents; each list is read in a transaction of its own *)
(* and every entry is acted on in another, while agents, execution workers *)
(* and other scheduler workers go on.  An error ends the tick where it is. *)
(* The order of the lists and the batch limit, which no instance reaches,  *)
(* are left open.                                                          *)
(***************************************************************************)
EXTENDS Scheduler

CONSTANTS Pollers,    \* scheduler workers
          MaxUpsets   \* bound: agents stopped, and ticks ended by a crash or
                      \* a database error, in all

VARIABLES tick,       \* [Pollers -> where its tick is, what it still has to do]
          upsets      \* so far

pollVars == <<vars, tick, upsets>>

IdleTick == [at |-> "idle", claims |-> {}, workflows |-> {}, agents |-> {}]

PollInit == Init /\ tick = [p \in Pollers |-> IdleTick] /\ upsets = 0

-----------------------------------------------------------------------------
(* The lists a tick reads *)

\* Fault: the scan looks for agents that were already failed.
ClaimsOfFailed == {c \in Claims : /\ claim[c].status = "active"
                                 /\ agent[claim[c].agent].status = "failed"}

\* stale_claim_ids
StaleClaims == {c \in Claims : StaleClaim(c)}

IsReady(n) == Running(n) /\ node[n].status = "ready"

\* pending_handover_claim_ids
PendingHandovers ==
    {c \in Claims : claim[c].status = "released" /\ IsReady(c[1]) /\ ~HasActiveClaim(c[1])}

\* ready_workflows
ReadyWorkflows == {w \in Workflows : status[w] = "running" /\ ReadyNodes(node, w) # {}}

\* Fault: only agents that never held a claim are offered work.
UnusedAgents ==
    {a \in Agents : Available(a) /\ ~agent[a].stale /\ \A c \in Claims : claim[c].agent # a}

\* available_agent_ids
AvailableAgents == {a \in Agents : Available(a) /\ ~agent[a].stale}

-----------------------------------------------------------------------------
(* A tick *)

Goto(p, at, claims, workflows, agents) ==
    tick' = [tick EXCEPT ![p] = [at |-> at, claims |-> claims,
                                 workflows |-> workflows, agents |-> agents]]

\* An error of any stage is the error of the tick; the worker logs it, waits
\* and starts another.
TickFails(p) == tick' = [tick EXCEPT ![p] = IdleTick]

Skip(p, c) == tick' = [tick EXCEPT ![p].claims = @ \ {c}] /\ UNCHANGED vars

StartTick(p) ==
    /\ tick[p].at = "idle"
    /\ Goto(p, "recover", StaleClaims, {}, {})
    /\ UNCHANGED vars

\* Fault: the claim is recovered as listed.
RecoverListed(p, c) ==
    /\ tick[p].at = "recover" /\ c \in tick[p].claims
    /\ tick' = [tick EXCEPT ![p].claims = @ \ {c}]
    /\ \/ ~OwnsActive(c) /\ UNCHANGED vars
       \/ /\ OwnsActive(c)
          /\ ReleaseTask(c, "released")
          /\ node' = FailedOrRetried(node, c[1])
          /\ status' = [status EXCEPT ![WorkflowOf[c[1]]] = StatusAfterFailure(node', c[1])]

\* recover_stale_claim looks again at what the list said.
RecoverNext(p, c) ==
    /\ tick[p].at = "recover" /\ c \in tick[p].claims
    /\ \/ ~StaleClaim(c) /\ Skip(p, c)
       \/ RecoverStaleClaim(c) /\ tick' = [tick EXCEPT ![p].claims = @ \ {c}]
       \/ StaleClaim(c) /\ ~OwnsActive(c) /\ TickFails(p) /\ UNCHANGED vars

ListHandovers(p) ==
    /\ tick[p].at = "recover" /\ tick[p].claims = {}
    /\ Goto(p, "handover", PendingHandovers, {}, {})
    /\ UNCHANGED vars

\* handover_released_claim_guarded: an active claim is returned as if it were
\* the handover, no replacement is None, any other node is a conflict.
HandOverNext(p, c) ==
    /\ tick[p].at = "handover" /\ c \in tick[p].claims
    /\ \/ HasActiveClaim(c[1]) /\ Skip(p, c)
       \/ ~HasActiveClaim(c[1]) /\ IsReady(c[1]) /\ Replacements(c) = {} /\ Skip(p, c)
       \/ \E a \in Agents : HandOver(c, a) /\ tick' = [tick EXCEPT ![p].claims = @ \ {c}]
       \/ ~HasActiveClaim(c[1]) /\ ~IsReady(c[1]) /\ TickFails(p) /\ UNCHANGED vars

ListWorkflows(p) ==
    /\ tick[p].at = "handover" /\ tick[p].claims = {}
    /\ Goto(p, "workflows", {}, ReadyWorkflows, {})
    /\ UNCHANGED vars

\* The agents are listed for each workflow anew.
ListAgents(p, w) ==
    /\ tick[p].at = "workflows" /\ w \in tick[p].workflows
    /\ Goto(p, w, {}, tick[p].workflows \ {w}, AvailableAgents)
    /\ UNCHANGED vars

Offered(p, a) == tick' = [tick EXCEPT ![p].agents = @ \ {a}]

\* claim_next_guarded: an agent that is taken meanwhile is an error, one that
\* fits no ready node is None.
OfferWork(p, w, a) ==
    /\ tick[p].at = w /\ a \in tick[p].agents
    /\ \/ ClaimNext(w, a) /\ Offered(p, a)
       \/ Available(a) /\ Claimable(w, a) = {} /\ Offered(p, a) /\ UNCHANGED vars
       \/ ~Available(a) /\ TickFails(p) /\ UNCHANGED vars
       \/ Claimable(w, a) # {} /\ status[w] # "running" /\ TickFails(p) /\ UNCHANGED vars

NextWorkflow(p, w) ==
    /\ tick[p].at = w /\ tick[p].agents = {}
    /\ Goto(p, "workflows", {}, tick[p].workflows, {})
    /\ UNCHANGED vars

EndTick(p) ==
    /\ tick[p].at = "workflows" /\ tick[p].workflows = {}
    /\ tick' = [tick EXCEPT ![p] = IdleTick]
    /\ UNCHANGED vars

TickStep(p) ==
    /\ \/ StartTick(p) \/ ListHandovers(p) \/ ListWorkflows(p) \/ EndTick(p)
       \/ \E c \in Claims : RecoverNext(p, c) \/ HandOverNext(p, c)
       \/ \E w \in Workflows : \/ ListAgents(p, w) \/ NextWorkflow(p, w)
                               \/ \E a \in Agents : OfferWork(p, w, a)
    /\ UNCHANGED upsets

\* The worker is restarted, or the database refused a statement.
AbortTick(p) ==
    /\ tick[p].at # "idle" /\ upsets < MaxUpsets
    /\ upsets' = upsets + 1
    /\ TickFails(p)
    /\ UNCHANGED vars

-----------------------------------------------------------------------------
(* Everybody else *)

Stops(a) ==
    /\ upsets < MaxUpsets
    /\ StopAgent(a)
    /\ upsets' = upsets + 1

OtherStep ==
    /\ \/ /\ \/ \E a \in Agents : StartAgent(a) \/ HeartbeatAgent(a) \/ HeartbeatLapses(a)
             \/ CommandStep \/ LeaseStep \/ FinishStep
          /\ UNCHANGED upsets
       \/ \E a \in Agents : Stops(a)
    /\ UNCHANGED tick

PollNext == \/ \E p \in Pollers : TickStep(p) \/ AbortTick(p)
            \/ OtherStep

\* A worker waits at most its maximum backoff between two ticks.
PollSpec == PollInit /\ [][PollNext]_pollVars /\ \A p \in Pollers : WF_pollVars(TickStep(p))

-----------------------------------------------------------------------------
PollTypeOK ==
    /\ tick \in [Pollers -> [at        : {"idle", "recover", "handover", "workflows"} \cup Workflows,
                             claims    : SUBSET Claims,
                             workflows : SUBSET Workflows,
                             agents    : SUBSET Agents]]
    /\ upsets \in 0 .. MaxUpsets
    /\ \A p \in Pollers :
          /\ tick[p].claims # {} => tick[p].at \in {"recover", "handover"}
          /\ tick[p].agents # {} => tick[p].at \in Workflows
          /\ tick[p].workflows # {} => tick[p].at \in {"workflows"} \cup Workflows

(***************************************************************************)
(* Every tick is a sequence of the steps Scheduler allows: acting on lists *)
(* that may be out of date adds none.                                      *)
(***************************************************************************)
PollingImplementsScheduler == Spec

\* A claim that can be neither finished nor recovered: an operator moved its
\* node, or its workflow ended.
Stuck(c) == claim[c].status = "active" /\ ~OwnsActive(c)

\* A node and an agent that wait for each other.
Waiting(n, a) ==
    /\ IsReady(n) /\ ~HasActiveClaim(n)
    /\ Available(a) /\ ~agent[a].stale /\ MayRun(a, n)

(***************************************************************************)
(* Ready work and an agent that may do it do not wait for each other for   *)
(* ever, whoever else the tick meets on its way to them; unless a stale    *)
(* claim cannot be recovered, whose error ends every tick before it offers *)
(* anything.                                                               *)
(***************************************************************************)
ReadyWorkIsOffered ==
    (\A c \in Claims : []~Stuck(c)) => \A n \in Nodes, a \in Agents : []<>~Waiting(n, a)

(***************************************************************************)
(* A claim whose agent stays silent is taken away from it, unless another  *)
(* one is stuck.                                                           *)
(***************************************************************************)
StaleClaimsAreReleased ==
    (\A c \in Claims : []~Stuck(c)) => \A c \in Claims : []<>~StaleClaim(c)
=============================================================================
