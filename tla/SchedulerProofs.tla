--------------------------- MODULE SchedulerProofs --------------------------
(***************************************************************************)
(* Proofs about Scheduler and the workers that drive it.  For any          *)
(* workflows, agents, plans and lock requirements, agents and claims agree *)
(* on who owns what, no node has two active claims and no idempotency key  *)
(* is used twice.  Then: work is done in dependency order and accepted     *)
(* once, a workflow that succeeded is quiet, and a claim begins guarded.   *)
(* These rest on two facts that no step takes back: a node that succeeded  *)
(* or failed stays as it is, and a failed agent stays failed.  Last, for   *)
(* any number of workers that race, crash and time out (TaskExecution) or  *)
(* act on lists read earlier (SchedulerPolling): the tables change by      *)
(* whole scheduler transactions only, the adapter of a claim is called at  *)
(* most once, results are results of calls, and claims end as these say.   *)
(***************************************************************************)
EXTENDS TaskExecution, SchedulerPolling, WorkflowProofs

-----------------------------------------------------------------------------
(* The inductive invariant *)

IInv == /\ TypeOK
        /\ AttemptsBounded
        /\ TaskIsActiveClaim
        /\ OneActiveClaimPerNode
        /\ KeysNotReused
        /\ ClaimsMatchNodes

\* A claim key is a node and one of its attempts.
LEMMA ClaimKeys ==
    /\ \A c \in Claims : /\ c[1] \in Nodes /\ c[2] \in 1 .. 100
                          /\ c[2] <= MaxAttempts[c[1]]
                          /\ c = <<c[1], c[2]>>
    /\ \A n \in Nodes, k \in 1 .. 100 : k <= MaxAttempts[n] => <<n, k>> \in Claims
    /\ NoTask \notin Claims
  <1>1. \A c \in Claims : /\ c[1] \in Nodes /\ c[2] \in 1 .. 100
                          /\ c[2] <= MaxAttempts[c[1]]
    BY DEF Claims
  <1>2. \A c \in Claims : c = <<c[1], c[2]>>
    BY DEF Claims
  <1>3. \A n \in Nodes, k \in 1 .. 100 : k <= MaxAttempts[n] => <<n, k>> \in Claims
    BY DEF Claims
  <1>4. NoTask \notin Claims
    BY SchedulerAssumption DEF Claims
  <1>. QED BY <1>1, <1>2, <1>3, <1>4

\* Arithmetic of attempts, apart from the records it is used on.
LEMMA AtMostTransitive ==
    ASSUME NEW i \in 1 .. 100, NEW x \in 0 .. 100, NEW y \in 0 .. 100, i <= x, y >= x
    PROVE  i <= y
  OBVIOUS

\* An attempt below the maximum has a next one within it.
LEMMA NextAttempt ==
    ASSUME NEW x \in 0 .. 100, NEW m \in 1 .. 100, x < m
    PROVE  /\ x + 1 \in 1 .. 100 /\ x + 1 <= m
           /\ \A i \in 1 .. 100 : i <= x => i <= x + 1
  OBVIOUS

\* A new deployment: nothing claimed, nothing running.
LEMMA InitIInv == Init => IInv
  <1> SUFFICES ASSUME Init PROVE IInv
    OBVIOUS
  <1>1. \A n \in Nodes : /\ node[n].status \in {"pending", "ready", "waiting_approval"}
                         /\ node[n].attempts = 0
    BY DEF Init, NewExecution, FreshNode, EnabledStatus
  <1>2. TypeOK
    <2>1. node \in [Nodes -> NodeStates]
      <3>1. \A n \in Nodes : node[n] \in NodeStates
        <4>1. FreshNode \in NodeStates /\ FreshNode.status = "pending"
          BY DEF FreshNode, NodeStates, NodeStatuses
        <4>2. \A n \in Nodes : [FreshNode EXCEPT !.status = EnabledStatus(n)] \in NodeStates
          BY DEF FreshNode, EnabledStatus, NodeStates, NodeStatuses
        <4>. QED BY <4>1, <4>2 DEF Init, NewExecution
      <3>. QED BY <3>1 DEF Init, NewExecution
    <2>2. agent \in [Agents -> AgentStates]
      BY DEF Init, RegisteredAgent, AgentStates
    <2>3. status \in [Workflows -> WorkflowStatuses] /\ covers \subseteq Agents \X Nodes
      BY DEF Init, WorkflowStatuses
    <2>4. claim \in [Claims -> ClaimStates]
      BY DEF Init, ClaimStates
    <2>. QED BY <2>1, <2>2, <2>3, <2>4 DEF TypeOK
  <1>3. AttemptsBounded
    <2>1. \A n \in Nodes : MaxAttempts[n] \in 1 .. 100
      BY WorkflowAssumption
    <2>. QED BY <1>1, <2>1 DEF AttemptsBounded
  <1>4. \A c \in Claims : claim[c].status = "none"
    BY DEF Init, NoClaim
  <1>5. TaskIsActiveClaim
    BY <1>4 DEF TaskIsActiveClaim, Init, RegisteredAgent
  <1>6. OneActiveClaimPerNode /\ KeysNotReused /\ ClaimsMatchNodes
    BY <1>1, <1>4 DEF OneActiveClaimPerNode, KeysNotReused, ClaimsMatchNodes
  <1>. QED BY <1>2, <1>3, <1>5, <1>6 DEF IInv

\* An agent that neither gains nor loses a task disturbs nothing.
LEMMA AgentKeepsIInv ==
    ASSUME IInv, UNCHANGED <<status, node, claim>>,
           NEW a \in Agents, NEW s \in [status : {"running", "stopped"}, stale : BOOLEAN],
           agent' = [agent EXCEPT ![a].status = s.status, ![a].stale = s.stale],
           agent[a].task # NoTask => s.status = "running",
           covers' \subseteq Agents \X Nodes
    PROVE  IInv'
  <1>1. TypeOK'
    BY DEF IInv, TypeOK, AgentStates
  <1>2. \A b \in Agents : agent'[b].task = agent[b].task
    BY DEF IInv, TypeOK, AgentStates
  <1>3. \A b \in Agents : b # a => agent'[b] = agent[b]
    BY DEF IInv, TypeOK, AgentStates
  <1>4. agent'[a].status = s.status
    BY DEF IInv, TypeOK, AgentStates
  <1>5. TaskIsActiveClaim'
    <2>1. \A b \in Agents : agent'[b].task # NoTask =>
             agent'[b].status = "running" /\ claim'[agent'[b].task] = [status |-> "active", agent |-> b]
      <3> SUFFICES ASSUME NEW b \in Agents, agent'[b].task # NoTask
                   PROVE  /\ agent'[b].status = "running"
                          /\ claim'[agent'[b].task] = [status |-> "active", agent |-> b]
        OBVIOUS
      <3>1. agent'[b].task = agent[b].task /\ claim' = claim
        BY <1>2
      <3>2. /\ agent[b].status = "running"
            /\ claim[agent[b].task] = [status |-> "active", agent |-> b]
        BY <3>1 DEF IInv, TaskIsActiveClaim
      <3>. QED BY <3>1, <3>2, <1>3, <1>4
    <2>2. \A c \in Claims : claim'[c].status = "active" => agent'[claim'[c].agent].task = c
      BY <1>2, SchedulerAssumption DEF IInv, TaskIsActiveClaim, TypeOK, ClaimStates, NoClaim
    <2>. QED BY <2>1, <2>2 DEF TaskIsActiveClaim
  <1>6. AttemptsBounded' /\ OneActiveClaimPerNode' /\ KeysNotReused' /\ ClaimsMatchNodes'
    BY DEF IInv, AttemptsBounded, OneActiveClaimPerNode, KeysNotReused, ClaimsMatchNodes
  <1>. QED BY <1>1, <1>5, <1>6 DEF IInv

\* A command of the API on a node no claim can be active on, or on a manual one.
LEMMA CommandKeepsIInv ==
    ASSUME IInv, UNCHANGED <<agent, claim, covers>>,
           status' \in [Workflows -> WorkflowStatuses],
           NEW n \in Nodes,
           Scheduled(n) => /\ node[n].status = "waiting_approval"
                           /\ node'[n].status # "running",
           node' \in [Nodes -> NodeStates],
           OthersOnlyWake(node, node', n),
           node'[n].attempts >= node[n].attempts,
           node'[n].attempts <= MaxAttempts[n],
           node'[n].status \in {"pending", "ready"} => node'[n].attempts < MaxAttempts[n]
    PROVE  IInv'
  <1> USE DEF IInv
  <1>1. TypeOK'
    BY DEF TypeOK
  <1>2. TaskIsActiveClaim' /\ OneActiveClaimPerNode'
    BY DEF TaskIsActiveClaim, OneActiveClaimPerNode
  <1>3. \A m \in Nodes : /\ node'[m].attempts \in 0 .. 100
                         /\ node[m].attempts \in 0 .. 100
                         /\ node'[m].attempts >= node[m].attempts
    BY DEF OthersOnlyWake, TypeOK, NodeStates
  <1>4. AttemptsBounded'
    BY DEF AttemptsBounded, OthersOnlyWake
  <1>5. KeysNotReused'
    <2> SUFFICES ASSUME NEW c \in Claims, claim[c].status # "none"
                 PROVE  c[2] <= node'[c[1]].attempts
      BY DEF KeysNotReused
    <2>1. c[1] \in Nodes /\ c[2] \in 1 .. 100 /\ c[2] <= node[c[1]].attempts
      BY ClaimKeys DEF KeysNotReused
    <2>2. /\ node'[c[1]].attempts \in 0 .. 100 /\ node[c[1]].attempts \in 0 .. 100
          /\ node'[c[1]].attempts >= node[c[1]].attempts
      BY <2>1, <1>3
    <2> QED BY <2>1, <2>2, AtMostTransitive
  <1>6. ClaimsMatchNodes'
    <2>1. ASSUME NEW m \in Nodes, Scheduled(m)
          PROVE  /\ node[m].status = "running" => node'[m] = node[m]
                 /\ node'[m].status = "running" => node'[m] = node[m]
      BY <2>1 DEF OthersOnlyWake
    <2>2. \A c \in Claims : claim[c].status = "active" /\ Scheduled(c[1]) =>
            node'[c[1]] = [status |-> "running", attempts |-> c[2], owner |-> claim[c].agent]
      <3> SUFFICES ASSUME NEW c \in Claims, claim[c].status = "active", Scheduled(c[1])
                   PROVE  node'[c[1]] = [status |-> "running", attempts |-> c[2],
                                         owner |-> claim[c].agent]
        OBVIOUS
      <3>1. c[1] \in Nodes
        BY ClaimKeys
      <3>2. node[c[1]] = [status |-> "running", attempts |-> c[2], owner |-> claim[c].agent]
        BY DEF ClaimsMatchNodes
      <3>3. node[c[1]].status = "running"
        BY <3>2
      <3>. QED BY <3>1, <3>2, <3>3, <2>1
    <2>3. \A m \in Nodes : node'[m].status = "running" /\ Scheduled(m) =>
            \E c \in Claims : /\ c = <<m, node'[m].attempts>>
                              /\ claim[c].status = "active"
      BY <2>1 DEF ClaimsMatchNodes
    <2>. QED BY <2>2, <2>3 DEF ClaimsMatchNodes, Scheduled
  <1>. QED BY <1>1, <1>2, <1>4, <1>5, <1>6

\* Claiming a node with no active claim, first or by handover.
LEMMA AssignKeepsIInv ==
    ASSUME IInv, NEW n \in Nodes, NEW a \in Agents,
           Assign(n, a), ~HasActiveClaim(n)
    PROVE  IInv'
  <1> DEFINE k == node[n].attempts + 1
             new == <<n, k>>
  <1>1. /\ k \in 1 .. 100 /\ k <= MaxAttempts[n] /\ node[n].attempts \in 0 .. 100
        /\ new \in Claims /\ new = NextClaim(n)
        /\ \A i \in 1 .. 100 : i <= node[n].attempts => i <= k
    <2>1. node[n].attempts \in 0 .. 100 /\ node[n].attempts < MaxAttempts[n]
      BY DEF IInv, TypeOK, NodeStates, AttemptsBounded, Assign
    <2>2. MaxAttempts[n] \in 1 .. 100
      BY WorkflowAssumption
    <2>3. k \in 1 .. 100 /\ k <= MaxAttempts[n]
      BY <2>1, <2>2, NextAttempt
    <2>4. new \in Claims
      BY <2>3, ClaimKeys
    <2>5. \A i \in 1 .. 100 : i <= node[n].attempts => i <= k
      BY <2>1, <2>2, NextAttempt
    <2>. QED BY <2>1, <2>3, <2>4, <2>5 DEF NextClaim
  <1> HIDE DEF k
  <1>2. /\ node[n].status = "ready"
        /\ agent[a].status = "running" /\ agent[a].task = NoTask
        /\ claim[new].status = "none"
        /\ node' = [node EXCEPT ![n] = [status |-> "running", attempts |-> k, owner |-> a]]
        /\ agent' = [agent EXCEPT ![a].task = new]
        /\ claim' = [claim EXCEPT ![new] = [status |-> "active", agent |-> a]]
        /\ UNCHANGED <<status, covers>>
    BY <1>1 DEF Assign, Started, Available, k
  <1>3. /\ node \in [Nodes -> NodeStates] /\ agent \in [Agents -> AgentStates]
        /\ claim \in [Claims -> ClaimStates] /\ a \in Owners
    BY SchedulerAssumption DEF IInv, TypeOK
  <1>4. TypeOK'
    <2>1. node' \in [Nodes -> NodeStates]
      BY <1>1, <1>2, <1>3 DEF NodeStates, NodeStatuses
    <2>2. agent' \in [Agents -> AgentStates]
      BY <1>1, <1>2, <1>3 DEF AgentStates
    <2>3. claim' \in [Claims -> ClaimStates]
      BY <1>1, <1>2, <1>3 DEF ClaimStates
    <2>. QED BY <2>1, <2>2, <2>3, <1>2 DEF IInv, TypeOK
  <1>5. /\ node'[n] = [status |-> "running", attempts |-> k, owner |-> a]
        /\ \A m \in Nodes \ {n} : node'[m] = node[m]
        /\ agent'[a].task = new /\ agent'[a].status = "running"
        /\ \A b \in Agents \ {a} : agent'[b] = agent[b]
        /\ claim'[new] = [status |-> "active", agent |-> a]
        /\ \A c \in Claims \ {new} : claim'[c] = claim[c]
    BY <1>1, <1>2, <1>3 DEF AgentStates
  <1>6. AttemptsBounded'
    BY <1>1, <1>5 DEF IInv, AttemptsBounded
  <1>7. TaskIsActiveClaim'
    <2>1. ASSUME NEW b \in Agents, agent'[b].task # NoTask
          PROVE  /\ agent'[b].status = "running"
                 /\ claim'[agent'[b].task] = [status |-> "active", agent |-> b]
      <3>1. CASE b = a
        BY <3>1, <1>5
      <3>2. CASE b # a
        <4>1. /\ agent[b].status = "running" /\ agent[b].task \in Claims
              /\ claim[agent[b].task] = [status |-> "active", agent |-> b]
              /\ agent'[b] = agent[b]
          BY <3>2, <2>1, <1>3, <1>5 DEF IInv, TaskIsActiveClaim, AgentStates
        <4>. QED BY <4>1, <1>2, <1>5
      <3>. QED BY <3>1, <3>2
    <2>2. ASSUME NEW c \in Claims, claim'[c].status = "active"
          PROVE  agent'[claim'[c].agent].task = c
      <3>1. CASE c = new
        BY <3>1, <1>5
      <3>2. CASE c # new
        <4>1. /\ claim[c].status = "active" /\ claim'[c] = claim[c]
              /\ agent[claim[c].agent].task = c /\ claim[c].agent \in Agents
          BY <3>2, <2>2, <1>3, <1>5 DEF IInv, TaskIsActiveClaim, ClaimStates, NoClaim
        <4>2. claim[c].agent # a
          BY <4>1, <1>2, ClaimKeys
        <4>. QED BY <4>1, <4>2, <1>5
      <3>. QED BY <3>1, <3>2
    <2>. QED BY <2>1, <2>2 DEF TaskIsActiveClaim
  <1>8. OneActiveClaimPerNode'
    <2>1. \A c \in Claims \ {new} : claim'[c].status = "active" => c[1] # n
      BY <1>5 DEF HasActiveClaim
    <2>2. new[1] = n
      OBVIOUS
    <2>. QED BY <2>1, <2>2, <1>5 DEF IInv, OneActiveClaimPerNode
  <1>9. KeysNotReused'
    <2> SUFFICES ASSUME NEW c \in Claims, claim'[c].status # "none"
                 PROVE  c[2] <= node'[c[1]].attempts
      BY DEF KeysNotReused
    <2>1. CASE c = new
      BY <2>1, <1>1, <1>5
    <2>2. CASE c # new
      <3>1. c[1] \in Nodes /\ c[2] \in 1 .. 100 /\ c[2] <= node[c[1]].attempts
        BY <2>2, <1>5, ClaimKeys DEF IInv, KeysNotReused
      <3>2. CASE c[1] = n
        <4>1. node'[c[1]].attempts = k /\ c[2] <= node[n].attempts
          BY <3>1, <3>2, <1>5
        <4>. QED BY <4>1, <3>1, <1>1
      <3>3. CASE c[1] # n
        BY <3>1, <3>3, <1>5
      <3>. QED BY <3>2, <3>3
    <2>. QED BY <2>1, <2>2
  <1>10. ClaimsMatchNodes'
    <2>1. ASSUME NEW c \in Claims, claim'[c].status = "active", Scheduled(c[1])
          PROVE  node'[c[1]] = [status |-> "running", attempts |-> c[2],
                                owner |-> claim'[c].agent]
      <3>1. CASE c = new
        BY <3>1, <1>5
      <3>2. CASE c # new
        <4>1. claim'[c] = claim[c] /\ c[1] \in Nodes \ {n}
          BY <3>2, <2>1, <1>5, ClaimKeys DEF HasActiveClaim
        <4>. QED BY <4>1, <2>1, <1>5 DEF IInv, ClaimsMatchNodes
      <3>. QED BY <3>1, <3>2
    <2>2. ASSUME NEW m \in Nodes, node'[m].status = "running", Scheduled(m)
          PROVE  \E c \in Claims : /\ c = <<m, node'[m].attempts>>
                                   /\ claim'[c].status = "active"
      <3>1. CASE m = n
        BY <3>1, <1>1, <1>5
      <3>2. CASE m # n
        <4>1. node'[m] = node[m]
          BY <3>2, <1>5
        <4>2. PICK c \in Claims : /\ c = <<m, node[m].attempts>>
                                  /\ claim[c].status = "active"
          BY <4>1, <2>2 DEF IInv, ClaimsMatchNodes
        <4>. QED BY <4>1, <4>2, <3>2, <1>5
      <3>. QED BY <3>1, <3>2
    <2>. QED BY <2>1, <2>2 DEF ClaimsMatchNodes, Scheduled
  <1>. QED BY <1>4, <1>6, <1>7, <1>8, <1>9, <1>10 DEF IInv

\* An active claim on a running node ends: completed, failed or recovered.
LEMMA EndKeepsIInv ==
    ASSUME IInv, NEW c \in Claims, claim[c].status = "active",
           NEW s \in {"completed", "failed", "released"},
           NEW r \in AgentStates, r.task = NoTask,
           agent' = [agent EXCEPT ![claim[c].agent] = r],
           claim' = [claim EXCEPT ![c].status = s],
           covers' = covers,
           status' \in [Workflows -> WorkflowStatuses],
           node' \in [Nodes -> NodeStates],
           OthersOnlyWake(node, node', c[1]),
           node'[c[1]].attempts = node[c[1]].attempts,
           node'[c[1]].status \in {"succeeded", "failed", "ready"},
           node'[c[1]].status = "ready" => node'[c[1]].attempts < MaxAttempts[c[1]]
    PROVE  IInv'
  <1> DEFINE n == c[1]
             a == claim[c].agent
  <1>1. /\ node \in [Nodes -> NodeStates] /\ agent \in [Agents -> AgentStates]
        /\ claim \in [Claims -> ClaimStates] /\ n \in Nodes
        /\ a \in Agents /\ agent[a].task = c
    <2>1. /\ node \in [Nodes -> NodeStates] /\ agent \in [Agents -> AgentStates]
          /\ claim \in [Claims -> ClaimStates]
      BY DEF IInv, TypeOK
    <2>2. a \in Agents
      BY <2>1 DEF ClaimStates, NoClaim
    <2>3. n \in Nodes
      BY ClaimKeys
    <2>4. agent[a].task = c
      BY DEF IInv, TaskIsActiveClaim
    <2>. QED BY <2>1, <2>2, <2>3, <2>4
  <1>2. /\ agent'[a].task = NoTask
        /\ \A b \in Agents \ {a} : agent'[b] = agent[b]
        /\ claim'[c] = [status |-> s, agent |-> a]
        /\ \A d \in Claims \ {c} : claim'[d] = claim[d]
        /\ claim' \in [Claims -> ClaimStates]
    BY <1>1 DEF ClaimStates, NoClaim
  <1>3. TypeOK'
    BY <1>1, <1>2 DEF IInv, TypeOK
  <1>4. \A d \in Claims : claim'[d].status = "active" =>
            d # c /\ claim'[d] = claim[d]
    BY <1>2
  <1>5. TaskIsActiveClaim'
    <2>1. ASSUME NEW b \in Agents, agent'[b].task # NoTask
          PROVE  /\ agent'[b].status = "running"
                 /\ claim'[agent'[b].task] = [status |-> "active", agent |-> b]
      <3>1. b # a /\ agent'[b] = agent[b]
        BY <2>1, <1>2
      <3>2. /\ agent[b].status = "running" /\ agent[b].task \in Claims
            /\ claim[agent[b].task] = [status |-> "active", agent |-> b]
        BY <2>1, <3>1, <1>1 DEF IInv, TaskIsActiveClaim, AgentStates
      <3>3. agent[b].task # c
        BY <3>1, <3>2
      <3>. QED BY <3>1, <3>2, <3>3, <1>2
    <2>2. ASSUME NEW d \in Claims, claim'[d].status = "active"
          PROVE  agent'[claim'[d].agent].task = d
      <3>1. d # c /\ claim'[d] = claim[d]
        BY <2>2, <1>4
      <3>2. claim[d].agent \in Agents /\ agent[claim[d].agent].task = d
        BY <2>2, <3>1, <1>1 DEF IInv, TaskIsActiveClaim, ClaimStates, NoClaim
      <3>3. claim[d].agent # a
        BY <3>1, <3>2, <1>1
      <3>. QED BY <3>1, <3>2, <3>3, <1>2
    <2>. QED BY <2>1, <2>2 DEF TaskIsActiveClaim
  <1>6. OneActiveClaimPerNode'
    BY <1>4 DEF IInv, OneActiveClaimPerNode
  <1>7. \A m \in Nodes : node'[m].attempts = node[m].attempts
    BY <1>1 DEF OthersOnlyWake
  <1>8. AttemptsBounded'
    <2>1. ASSUME NEW m \in Nodes, node'[m].status \in {"pending", "ready"}
          PROVE  node'[m].attempts < MaxAttempts[m]
      <3>1. CASE m = n
        BY <3>1, <2>1
      <3>2. CASE m # n
        BY <3>2, <2>1, <1>7 DEF IInv, AttemptsBounded, OthersOnlyWake
      <3>. QED BY <3>1, <3>2
    <2>. QED BY <2>1, <1>7 DEF IInv, AttemptsBounded
  <1>9. KeysNotReused'
    <2>1. \A d \in Claims : claim'[d].status # "none" =>
              claim[d].status # "none" /\ d[1] \in Nodes
      BY <1>2, ClaimKeys
    <2>. QED BY <2>1, <1>7 DEF IInv, KeysNotReused
  <1>10. ClaimsMatchNodes'
    <2>1. \A m \in Nodes \ {n} :
              /\ node[m].status = "running" => node'[m] = node[m]
              /\ node'[m].status = "running" => node'[m] = node[m]
      BY DEF OthersOnlyWake
    <2>2. ASSUME NEW d \in Claims, claim'[d].status = "active", Scheduled(d[1])
          PROVE  node'[d[1]] = [status |-> "running", attempts |-> d[2],
                                owner |-> claim'[d].agent]
      <3>1. d # c /\ claim'[d] = claim[d]
        BY <2>2, <1>4
      <3>2. d[1] \in Nodes /\ d[1] # n
        BY <2>2, <3>1, ClaimKeys DEF IInv, OneActiveClaimPerNode
      <3>3. node[d[1]] = [status |-> "running", attempts |-> d[2],
                          owner |-> claim[d].agent]
        BY <2>2, <3>1 DEF IInv, ClaimsMatchNodes
      <3>4. node[d[1]].status = "running"
        BY <3>3
      <3>5. node'[d[1]] = node[d[1]]
        BY <3>2, <3>4, <2>1
      <3>. QED BY <3>1, <3>3, <3>5
    <2>3. ASSUME NEW m \in Nodes, node'[m].status = "running", Scheduled(m)
          PROVE  \E d \in Claims : /\ d = <<m, node'[m].attempts>>
                                   /\ claim'[d].status = "active"
      <3>1. m # n
        BY <2>3
      <3>2. node'[m] = node[m]
        BY <2>1, <2>3, <3>1
      <3>3. PICK d \in Claims : /\ d = <<m, node[m].attempts>>
                               /\ claim[d].status = "active"
        BY <2>3, <3>2 DEF IInv, ClaimsMatchNodes
      <3>4. d # c
        BY <3>1, <3>3
      <3>. QED BY <3>2, <3>3, <3>4, <1>2
    <2>. QED BY <2>2, <2>3 DEF ClaimsMatchNodes, Scheduled
  <1>. QED BY <1>3, <1>5, <1>6, <1>8, <1>9, <1>10 DEF IInv

-----------------------------------------------------------------------------
(* Every step keeps the invariant *)

\* Writing one status keeps the type.
LEMMA StatusTyped ==
    ASSUME status \in [Workflows -> WorkflowStatuses], NEW w,
           NEW x \in WorkflowStatuses,
           status' = [status EXCEPT ![w] = x]
    PROVE  status' \in [Workflows -> WorkflowStatuses]
  OBVIOUS

\* Start, heartbeat, stop and the passing of the heartbeat timeout.
LEMMA AgentStepKeepsIInv ==
    ASSUME IInv, AgentStep
    PROVE  IInv'
  <1> PICK a \in Agents : \/ StartAgent(a) \/ HeartbeatAgent(a)
                          \/ StopAgent(a)  \/ HeartbeatLapses(a)
    BY DEF AgentStep
  <1>1. /\ agent \in [Agents -> AgentStates] /\ covers \subseteq Agents \X Nodes
        /\ agent[a].task # NoTask => agent[a].status = "running"
    BY DEF IInv, TypeOK, TaskIsActiveClaim
  <1> DEFINE is(st, old) == [status |-> st, stale |-> old]
  <1>2. CASE StartAgent(a)
    <2>1. agent[a].task = NoTask
      BY <1>1, <1>2 DEF StartAgent
    <2>2. is("running", FALSE) \in [status : {"running", "stopped"}, stale : BOOLEAN]
      OBVIOUS
    <2>. QED BY <2>1, <2>2, <1>1, <1>2, AgentKeepsIInv DEF StartAgent
  <1>3. CASE StopAgent(a)
    <2>1. agent[a].task = NoTask
      BY <1>3 DEF StopAgent, Available
    <2>2. is("stopped", FALSE) \in [status : {"running", "stopped"}, stale : BOOLEAN]
      OBVIOUS
    <2>. QED BY <2>1, <2>2, <1>1, <1>3, AgentKeepsIInv DEF StopAgent
  <1>4. CASE HeartbeatAgent(a) \/ HeartbeatLapses(a)
    <2>1. PICK old \in BOOLEAN : /\ agent[a].status = "running"
                                 /\ agent' = [agent EXCEPT ![a].stale = old]
                                 /\ UNCHANGED <<status, node, claim, covers>>
      BY <1>4 DEF HeartbeatAgent, HeartbeatLapses
    <2>2. agent' = [agent EXCEPT ![a].status = "running", ![a].stale = old]
      BY <2>1, <1>1 DEF AgentStates
    <2>3. is("running", old) \in [status : {"running", "stopped"}, stale : BOOLEAN]
      OBVIOUS
    <2>. QED BY <2>1, <2>2, <2>3, <1>1, AgentKeepsIInv
  <1>. QED BY <1>2, <1>3, <1>4

\* Start, complete and fail of a manual node, and approval decisions.
LEMMA CommandStepKeepsIInv ==
    ASSUME IInv, CommandStep
    PROVE  IInv'
  <1> PICK n \in Nodes : \/ StartNode(n) \/ CompleteNode(n) \/ FailNode(n)
                         \/ \E ok \in BOOLEAN : DecideApproval(n, ok)
    BY DEF CommandStep
  <1>1. /\ node \in [Nodes -> NodeStates] /\ status \in [Workflows -> WorkflowStatuses]
        /\ node[n].attempts \in 0 .. 100 /\ MaxAttempts[n] \in 1 .. 100
        /\ node[n].attempts <= MaxAttempts[n]
        /\ node[n].status = "ready" => node[n].attempts < MaxAttempts[n]
    BY WorkflowAssumption DEF IInv, TypeOK, NodeStates, AttemptsBounded
  <1>2. CASE StartNode(n)
    <2>1. node[n].attempts < MaxAttempts[n]
      BY <1>1, <1>2 DEF StartNode
    <2>2. node[n].attempts + 1 \in 1 .. 100 /\ node[n].attempts + 1 <= MaxAttempts[n]
      BY <2>1, <1>1, NextAttempt
    <2>3. node[n].attempts + 1 >= node[n].attempts
      BY <1>1
    <2> DEFINE k == node[n].attempts + 1
    <2>4. /\ node' = [node EXCEPT ![n] = [status |-> "running", attempts |-> k,
                                          owner |-> Operator]]
          /\ UNCHANGED <<status, agent, claim, covers>> /\ ~Scheduled(n)
      BY <1>2 DEF StartNode, Started, Scheduled
    <2>5. k \in 0 .. 100 /\ k <= MaxAttempts[n] /\ k >= node[n].attempts
      BY <2>2, <2>3
    <2> HIDE DEF k
    <2>6. node' \in [Nodes -> NodeStates]
      BY <2>4, <2>5, <1>1, SchedulerAssumption DEF NodeStates, NodeStatuses
    <2>7. /\ node'[n] = [status |-> "running", attempts |-> k, owner |-> Operator]
          /\ OthersOnlyWake(node, node', n)
      BY <2>4, <1>1 DEF OthersOnlyWake
    <2>. QED BY <2>4, <2>5, <2>6, <2>7, <1>1, CommandKeepsIInv
  <1>3. CASE CompleteNode(n)
    <2>1. /\ node' = Completed(node, n) /\ UNCHANGED <<agent, claim, covers>>
          /\ ~Scheduled(n)
          /\ status' = [status EXCEPT ![WorkflowOf[n]] = StatusAfterSuccess(node', n)]
      BY <1>3 DEF CompleteNode, Scheduled
    <2>2. status' \in [Workflows -> WorkflowStatuses]
      BY <2>1, <1>1, StatusesInRange, StatusTyped
    <2>3. /\ node' \in [Nodes -> NodeStates] /\ OthersOnlyWake(node, node', n)
          /\ node'[n].status = "succeeded" /\ node'[n].attempts = node[n].attempts
      BY <2>1, <1>1, CompletedEffect
    <2>. QED BY <2>1, <2>2, <2>3, <1>1, CommandKeepsIInv
  <1>4. CASE FailNode(n)
    <2>1. /\ node' = FailedOrRetried(node, n) /\ UNCHANGED <<agent, claim, covers>>
          /\ ~Scheduled(n)
          /\ status' = [status EXCEPT ![WorkflowOf[n]] = StatusAfterFailure(node', n)]
      BY <1>4 DEF FailNode, Scheduled
    <2>2. status' \in [Workflows -> WorkflowStatuses]
      BY <2>1, <1>1, StatusesInRange, StatusTyped
    <2>3. /\ node' \in [Nodes -> NodeStates] /\ OthersOnlyWake(node, node', n)
          /\ node'[n].attempts = node[n].attempts
          /\ node'[n].status \in {"ready", "failed"}
          /\ node'[n].status = "ready" => Retries(node, n)
      BY <2>1, <1>1, FailedEffect
    <2>. QED BY <2>1, <2>2, <2>3, <1>1, CommandKeepsIInv DEF Retries
  <1>5. ASSUME NEW ok \in BOOLEAN, DecideApproval(n, ok)
        PROVE  IInv'
    <2>1. /\ node' = Decided(node, n, ok) /\ UNCHANGED <<agent, claim, covers>>
          /\ node[n].status = "waiting_approval"
          /\ status' = [status EXCEPT ![WorkflowOf[n]] = StatusAfterDecision(node', n, ok)]
      BY <1>5 DEF DecideApproval
    <2>2. status' \in [Workflows -> WorkflowStatuses]
      BY <2>1, <1>1, StatusesInRange, StatusTyped
    <2>3. /\ node' \in [Nodes -> NodeStates] /\ OthersOnlyWake(node, node', n)
          /\ node'[n].attempts = node[n].attempts
          /\ node'[n].status \in {"succeeded", "failed"}
      BY <2>1, <1>1, DecidedEffect
    <2>. QED BY <2>1, <2>2, <2>3, <1>1, CommandKeepsIInv
  <1>. QED BY <1>2, <1>3, <1>4, <1>5

\* The invariant does not mention leases.
LEMMA LeaseStepKeepsIInv ==
    ASSUME IInv, LeaseStep
    PROVE  IInv'
  <1>1. /\ UNCHANGED <<status, node, agent, claim>>
        /\ covers' \subseteq Agents \X Nodes
    BY DEF LeaseStep, AcquireLease, LoseLease, IInv, TypeOK
  <1>. QED
    BY <1>1 DEF IInv, TypeOK, AttemptsBounded, TaskIsActiveClaim,
                OneActiveClaimPerNode, KeysNotReused, ClaimsMatchNodes

\* Claiming, finishing, recovery and handover.
LEMMA ClaimStepKeepsIInv ==
    ASSUME IInv, ClaimStep
    PROVE  IInv'
  <1>1. /\ node \in [Nodes -> NodeStates] /\ status \in [Workflows -> WorkflowStatuses]
        /\ agent \in [Agents -> AgentStates] /\ claim \in [Claims -> ClaimStates]
    BY DEF IInv, TypeOK
  <1>2. ASSUME NEW w \in Workflows, NEW a \in Agents, ClaimNext(w, a)
        PROVE  IInv'
    <2>1. PICK n \in Claimable(w, a) : Assign(n, a)
      BY <1>2 DEF ClaimNext
    <2>2. n \in Nodes /\ ~HasActiveClaim(n)
      BY DEF Claimable, ReadyNodes, NodesOf
    <2>. QED BY <2>1, <2>2, AssignKeepsIInv
  <1>3. ASSUME NEW c \in Claims, NEW a \in Agents, HandOver(c, a)
        PROVE  IInv'
    BY <1>3, ClaimKeys, AssignKeepsIInv DEF HandOver
  <1>4. ASSUME NEW c \in Claims, OwnsActive(c)
        PROVE  /\ c[1] \in Nodes /\ claim[c].status = "active"
               /\ claim[c].agent \in Agents
               /\ agent[claim[c].agent] \in AgentStates
    <2>1. c[1] \in Nodes
      BY ClaimKeys
    <2>2. claim[c].status = "active" /\ claim[c] \in ClaimStates
      BY <1>1, <1>4 DEF OwnsActive
    <2>3. claim[c].agent \in Agents
      BY <2>2 DEF ClaimStates, NoClaim
    <2>. QED BY <2>1, <2>2, <2>3, <1>1
  <1>5. ASSUME NEW c \in Claims, NEW s, OwnsActive(c), ReleaseTask(c, s)
        PROVE  /\ agent' = [agent EXCEPT ![claim[c].agent] =
                               [agent[claim[c].agent] EXCEPT !.task = NoTask]]
               /\ [agent[claim[c].agent] EXCEPT !.task = NoTask] \in AgentStates
               /\ [agent[claim[c].agent] EXCEPT !.task = NoTask].task = NoTask
               /\ claim' = [claim EXCEPT ![c].status = s]
               /\ covers' = covers
    BY <1>4, <1>5 DEF ReleaseTask, AgentStates
  <1>6. ASSUME NEW c \in Claims, c[1] \in Nodes,
               node' = FailedOrRetried(node, c[1]),
               status' = [status EXCEPT ![WorkflowOf[c[1]]] = StatusAfterFailure(node', c[1])]
        PROVE  /\ status' \in [Workflows -> WorkflowStatuses]
               /\ node' \in [Nodes -> NodeStates]
               /\ OthersOnlyWake(node, node', c[1])
               /\ node'[c[1]].attempts = node[c[1]].attempts
               /\ node'[c[1]].status \in {"succeeded", "failed", "ready"}
               /\ node'[c[1]].status = "ready" => node'[c[1]].attempts < MaxAttempts[c[1]]
    <2>1. status' \in [Workflows -> WorkflowStatuses]
      BY <1>6, <1>1, StatusesInRange, StatusTyped
    <2>2. /\ node' \in [Nodes -> NodeStates] /\ OthersOnlyWake(node, node', c[1])
          /\ node'[c[1]].attempts = node[c[1]].attempts
          /\ node'[c[1]].status \in {"ready", "failed"}
          /\ node'[c[1]].status = "ready" => Retries(node, c[1])
      BY <1>6, <1>1, FailedEffect
    <2>. QED BY <2>1, <2>2 DEF Retries
  <1>7. ASSUME NEW c \in Claims, CompleteClaim(c)
        PROVE  IInv'
    <2>1. /\ node' = Completed(node, c[1]) /\ OwnsActive(c)
          /\ ReleaseTask(c, "completed")
          /\ status' = [status EXCEPT ![WorkflowOf[c[1]]] = StatusAfterSuccess(node', c[1])]
      BY <1>7 DEF CompleteClaim
    <2>2. status' \in [Workflows -> WorkflowStatuses]
      BY <2>1, <1>1, StatusesInRange, StatusTyped
    <2>3. /\ node' \in [Nodes -> NodeStates] /\ OthersOnlyWake(node, node', c[1])
          /\ node'[c[1]].status = "succeeded"
          /\ node'[c[1]].attempts = node[c[1]].attempts
      BY <2>1, <1>1, <1>4, CompletedEffect
    <2>4. /\ claim[c].status = "active"
          /\ node'[c[1]].status \in {"succeeded", "failed", "ready"}
          /\ node'[c[1]].status = "ready" => node'[c[1]].attempts < MaxAttempts[c[1]]
      BY <2>1, <2>3, <1>4
    <2> DEFINE r == [agent[claim[c].agent] EXCEPT !.task = NoTask]
    <2>5. /\ agent' = [agent EXCEPT ![claim[c].agent] = r]
          /\ r \in AgentStates /\ r.task = NoTask
          /\ claim' = [claim EXCEPT ![c].status = "completed"]
          /\ covers' = covers
      BY <2>1, <1>5
    <2> HIDE DEF r
    <2>. QED BY <2>2, <2>3, <2>4, <2>5, EndKeepsIInv
  <1>8. ASSUME NEW c \in Claims, FailClaim(c)
        PROVE  IInv'
    <2>1. OwnsActive(c) /\ ReleaseTask(c, "failed")
      BY <1>8 DEF FailClaim
    <2>2. /\ status' \in [Workflows -> WorkflowStatuses]
          /\ node' \in [Nodes -> NodeStates]
          /\ OthersOnlyWake(node, node', c[1])
          /\ node'[c[1]].attempts = node[c[1]].attempts
          /\ node'[c[1]].status \in {"succeeded", "failed", "ready"}
          /\ node'[c[1]].status = "ready" => node'[c[1]].attempts < MaxAttempts[c[1]]
      BY <2>1, <1>8, <1>4, <1>6 DEF FailClaim
    <2> DEFINE r == [agent[claim[c].agent] EXCEPT !.task = NoTask]
    <2>3. /\ agent' = [agent EXCEPT ![claim[c].agent] = r]
          /\ r \in AgentStates /\ r.task = NoTask
          /\ claim' = [claim EXCEPT ![c].status = "failed"]
          /\ covers' = covers
      BY <2>1, <1>5
    <2>4. claim[c].status = "active"
      BY <2>1, <1>4
    <2> HIDE DEF r
    <2>. QED BY <2>2, <2>3, <2>4, EndKeepsIInv
  <1>9. ASSUME NEW c \in Claims, RecoverStaleClaim(c)
        PROVE  IInv'
    <2> DEFINE r == [status |-> "failed", task |-> NoTask, stale |-> FALSE]
    <2>1. r \in AgentStates /\ r.task = NoTask
      BY DEF AgentStates
    <2>2. /\ OwnsActive(c) /\ covers' = covers
          /\ agent' = [agent EXCEPT ![claim[c].agent] = r]
          /\ claim' = [claim EXCEPT ![c].status = "released"]
      BY <1>9 DEF RecoverStaleClaim
    <2>3. /\ status' \in [Workflows -> WorkflowStatuses]
          /\ node' \in [Nodes -> NodeStates]
          /\ OthersOnlyWake(node, node', c[1])
          /\ node'[c[1]].attempts = node[c[1]].attempts
          /\ node'[c[1]].status \in {"succeeded", "failed", "ready"}
          /\ node'[c[1]].status = "ready" => node'[c[1]].attempts < MaxAttempts[c[1]]
      BY <2>2, <1>9, <1>4, <1>6 DEF RecoverStaleClaim
    <2> HIDE DEF r
    <2>4. claim[c].status = "active"
      BY <2>2, <1>4
    <2>. QED BY <2>1, <2>2, <2>3, <2>4, EndKeepsIInv
  <1>. QED BY <1>2, <1>3, <1>7, <1>8, <1>9 DEF ClaimStep, SchedulingStep, FinishStep

\* Every step, and stuttering, keeps the invariant.
LEMMA NextIInv == IInv /\ [Next]_vars => IInv'
  <1> SUFFICES ASSUME IInv, [Next]_vars PROVE IInv'
    OBVIOUS
  <1>1. CASE UNCHANGED vars
    BY <1>1 DEF vars, IInv, TypeOK, AttemptsBounded, TaskIsActiveClaim,
                OneActiveClaimPerNode, KeysNotReused, ClaimsMatchNodes
  <1>2. CASE Next
    BY <1>2, AgentStepKeepsIInv, CommandStepKeepsIInv, LeaseStepKeepsIInv,
       ClaimStepKeepsIInv DEF Next
  <1>. QED BY <1>1, <1>2

\* IInv is an invariant: it holds in a new deployment and every step keeps it.
THEOREM Inductive == Spec => []IInv
  BY InitIInv, NextIInv, PTL DEF Spec

-----------------------------------------------------------------------------
(* The properties, one by one *)

\* Statuses, attempts, owners, tasks and claims stay in their types.
THEOREM TypeCorrect == Spec => []TypeOK
  BY Inductive, PTL DEF IInv

\* No node is started more often than its max_attempts, whoever fails it.
THEOREM RetriesAreBounded == Spec => []AttemptsBounded
  BY Inductive, PTL DEF IInv

\* The task of every agent is an active claim of its own, and conversely: the
\* two tables the scheduler and the recovery write never disagree.
THEOREM TablesAgree == Spec => []TaskIsActiveClaim
  BY Inductive, PTL DEF IInv

\* One workflow node has at most one active claim, without the help of the
\* partial unique index of scheduler_claims.
THEOREM AtMostOneClaim == Spec => []OneActiveClaimPerNode
  BY Inductive, PTL DEF IInv

\* The next idempotency key of a node has never been inserted.
THEOREM KeysAreFresh == Spec => []KeysNotReused
  BY Inductive, PTL DEF IInv

\* Nodes that only the scheduler drives run exactly while they are claimed, by
\* the agent that holds the claim of their current attempt.
THEOREM RunningIsClaimed == Spec => []ClaimsMatchNodes
  BY Inductive, PTL DEF IInv

\* agent_records, scheduler_claims and workflow_executions agree on the work.
THEOREM WorkAgrees == Spec => []WorkIsAgreed
  BY Inductive, PTL DEF IInv, WorkIsAgreed

\* No two claims stand for the same work: neither at once nor by their keys.
THEOREM ClaimsStayDistinct == Spec => []ClaimsAreDistinct
  BY Inductive, PTL DEF IInv, ClaimsAreDistinct

-----------------------------------------------------------------------------
(* Node states only move forward *)

Ended(ns, n) == ns[n].status \in {"succeeded", "failed"}

\* Why a node may leave pending.
Enabled(ns, n) ==
    \/ DependenciesSatisfied(ns, n)
    \/ \E k \in Nodes : n \in Fallback[k] /\ ns[k].status = "failed"

\* From ns to t ended nodes are kept, and nodes that leave pending may do so.
Forward(ns, t) ==
    /\ \A m \in Nodes : Ended(ns, m) => t[m] = ns[m]
    /\ \A m \in Nodes : ns[m].status = "pending" /\ t[m].status # "pending" =>
            Enabled(t, m)

\* What ended nodes satisfy they satisfy for ever.
LEMMA ForwardKeeps ==
    ASSUME NEW ns, NEW t, Forward(ns, t)
    PROVE  /\ \A m \in Nodes : SatisfiesDependency(ns, m) => SatisfiesDependency(t, m)
           /\ \A m \in Nodes : Enabled(ns, m) => Enabled(t, m)
           /\ \A w : IsSuccessfullyComplete(ns, w) => IsSuccessfullyComplete(t, w)
  <1>1. \A m \in Nodes : SatisfiesDependency(ns, m) => SatisfiesDependency(t, m)
    BY DEF Forward, Ended, SatisfiesDependency
  <1>2. \A m \in Nodes : Deps[m] \subseteq Nodes
    BY WorkflowAssumption
  <1>3. \A m \in Nodes : Enabled(ns, m) => Enabled(t, m)
    BY <1>1, <1>2 DEF Enabled, DependenciesSatisfied, Forward, Ended
  <1>4. \A w : IsSuccessfullyComplete(ns, w) => IsSuccessfullyComplete(t, w)
    BY <1>1 DEF IsSuccessfullyComplete, NodesOf
  <1>. QED BY <1>1, <1>3, <1>4

\* Moving forward twice is moving forward.
LEMMA ForwardTwice ==
    ASSUME NEW ns, NEW s, NEW t, Forward(ns, s), Forward(s, t)
    PROVE  Forward(ns, t)
  <1>1. \A m \in Nodes : Ended(ns, m) => s[m] = ns[m] /\ t[m] = s[m]
    BY DEF Forward, Ended
  <1>2. ASSUME NEW m \in Nodes, ns[m].status = "pending", t[m].status # "pending"
        PROVE  Enabled(t, m)
    <2>1. CASE s[m].status = "pending"
      BY <1>2, <2>1 DEF Forward
    <2>2. CASE s[m].status # "pending"
      BY <1>2, <2>2, ForwardKeeps DEF Forward
    <2>. QED BY <2>1, <2>2
  <1>. QED BY <1>1, <1>2 DEF Forward

\* Changing one node that is neither pending nor ended moves forward.
LEMMA UpdateForward ==
    ASSUME NEW ns, NEW t, NEW n \in Nodes,
           ns[n].status # "pending", ~Ended(ns, n),
           \A m \in Nodes \ {n} : t[m] = ns[m]
    PROVE  Forward(ns, t)
  <1>1. \A m \in Nodes : Ended(ns, m) => m # n
    OBVIOUS
  <1>2. \A m \in Nodes : ns[m].status = "pending" => m # n
    OBVIOUS
  <1>3. \A m \in Nodes : m # n => t[m] = ns[m]
    OBVIOUS
  <1>. QED BY <1>1, <1>2, <1>3 DEF Forward

\* refresh_ready_nodes wakes a node only when its dependencies are satisfied.
LEMMA RefreshForward ==
    ASSUME NEW ns \in [Nodes -> NodeStates], NEW w
    PROVE  Forward(ns, RefreshReadyNodes(ns, w))
  <1> DEFINE t == RefreshReadyNodes(ns, w)
  <1>1. ASSUME NEW m \in Nodes
        PROVE  /\ ns[m].status # "pending" => t[m] = ns[m]
               /\ t[m] # ns[m] => DependenciesSatisfied(ns, m)
    BY DEF RefreshReadyNodes
  <1> HIDE DEF t
  <1>2. \A m \in Nodes : Ended(ns, m) => t[m] = ns[m]
    BY <1>1 DEF Ended
  <1>3. \A m \in Nodes : SatisfiesDependency(ns, m) => SatisfiesDependency(t, m)
    BY <1>2 DEF Ended, SatisfiesDependency
  <1>4. \A m \in Nodes : Deps[m] \subseteq Nodes
    BY WorkflowAssumption
  <1>5. \A m \in Nodes : DependenciesSatisfied(ns, m) => DependenciesSatisfied(t, m)
    BY <1>3, <1>4 DEF DependenciesSatisfied
  <1>6. Forward(ns, t)
    BY <1>1, <1>2, <1>5 DEF Forward, Enabled
  <1>. QED BY <1>6 DEF t

\* start_node, complete_node and decide_approval move node states forward.
LEMMA TransitionsForward ==
    ASSUME NEW ns \in [Nodes -> NodeStates], NEW n \in Nodes
    PROVE  /\ \A o : ns[n].status = "ready" => Forward(ns, Started(ns, n, o))
           /\ ns[n].status = "running" => Forward(ns, Completed(ns, n))
           /\ \A ok \in BOOLEAN :
                ns[n].status = "waiting_approval" => Forward(ns, Decided(ns, n, ok))
  <1>1. ASSUME NEW o, ns[n].status = "ready"
        PROVE  Forward(ns, Started(ns, n, o))
    <2>1. ns[n].status # "pending" /\ ~Ended(ns, n)
      BY <1>1 DEF Ended
    <2>2. \A m \in Nodes \ {n} : Started(ns, n, o)[m] = ns[m]
      BY DEF Started
    <2>. QED BY <2>1, <2>2, UpdateForward
  <1>2. ASSUME ns[n].status = "running"
        PROVE  Forward(ns, Completed(ns, n))
    <2> DEFINE s == [ns EXCEPT ![n].status = "succeeded", ![n].owner = NoOwner]
    <2>1. ns[n].status # "pending" /\ ~Ended(ns, n)
      BY <1>2 DEF Ended
    <2>2. /\ s \in [Nodes -> NodeStates]
          /\ \A m \in Nodes \ {n} : s[m] = ns[m]
      BY DEF NodeStates, NodeStatuses
    <2> HIDE DEF s
    <2>3. Forward(ns, s)
      BY <2>1, <2>2, UpdateForward
    <2>4. Completed(ns, n) = RefreshReadyNodes(s, WorkflowOf[n])
      BY DEF Completed, s
    <2>5. Forward(s, RefreshReadyNodes(s, WorkflowOf[n]))
      BY <2>2, RefreshForward
    <2>. QED BY <2>3, <2>4, <2>5, ForwardTwice
  <1>3. ASSUME NEW ok \in BOOLEAN, ns[n].status = "waiting_approval"
        PROVE  Forward(ns, Decided(ns, n, ok))
    <2> DEFINE s == [ns EXCEPT ![n].status = IF ok THEN "succeeded" ELSE "failed"]
    <2>1. ns[n].status # "pending" /\ ~Ended(ns, n)
      BY <1>3 DEF Ended
    <2>2. /\ s \in [Nodes -> NodeStates]
          /\ \A m \in Nodes \ {n} : s[m] = ns[m]
      BY DEF NodeStates, NodeStatuses
    <2> HIDE DEF s
    <2>3. Forward(ns, s)
      BY <2>1, <2>2, UpdateForward
    <2>4. Decided(ns, n, ok) = RefreshReadyNodes(s, WorkflowOf[n])
      BY DEF Decided, s
    <2>5. Forward(s, RefreshReadyNodes(s, WorkflowOf[n]))
      BY <2>2, RefreshForward
    <2>. QED BY <2>3, <2>4, <2>5, ForwardTwice
  <1>. QED BY <1>1, <1>2, <1>3

\* fail_node moves forward: the fallback it wakes is that of a failed node.
LEMMA FailureForward ==
    ASSUME NEW ns \in [Nodes -> NodeStates], NEW n \in Nodes,
           ns[n].status = "running"
    PROVE  Forward(ns, FailedOrRetried(ns, n))
  <1> DEFINE over(s) == [ns EXCEPT ![n].status = s, ![n].owner = NoOwner]
             o == over("failed")
             f == FallbackActivated(o, n)
  <1>1. ns[n].status # "pending" /\ ~Ended(ns, n)
    BY DEF Ended
  <1>2. ASSUME NEW s \in {"ready", "failed"}
        PROVE  /\ over(s) \in [Nodes -> NodeStates]
               /\ over(s)[n].status = s
               /\ \A m \in Nodes \ {n} : over(s)[m] = ns[m]
    BY DEF NodeStates, NodeStatuses
  <1>3. CASE Retries(ns, n)
    <2>1. FailedOrRetried(ns, n) = over("ready")
      BY <1>3 DEF FailedOrRetried
    <2> HIDE DEF over
    <2>. QED BY <2>1, <1>1, <1>2, UpdateForward
  <1>4. CASE ~Retries(ns, n)
    <2>1. FailedOrRetried(ns, n) = RefreshReadyNodes(f, WorkflowOf[n])
      BY <1>4 DEF FailedOrRetried
    <2>2. /\ o \in [Nodes -> NodeStates] /\ o[n].status = "failed"
          /\ \A m \in Nodes \ {n} : o[m] = ns[m]
      BY <1>2
    <2> HIDE DEF o
    <2>3. Forward(ns, o)
      BY <1>1, <2>2, UpdateForward
    <2>4. f = [m \in Nodes |-> IF m \in Fallback[n] /\ o[m].status = "pending"
                               THEN [o[m] EXCEPT !.status = "ready"] ELSE o[m]]
      BY DEF FallbackActivated
    <2> HIDE DEF f
    <2>5. f \in [Nodes -> NodeStates]
      BY <2>2, <2>4 DEF NodeStates, NodeStatuses
    <2>6. /\ \A m \in Nodes : o[m].status # "pending" => f[m] = o[m]
          /\ \A m \in Nodes : f[m] # o[m] => m \in Fallback[n]
      BY <2>4
    <2>7. f[n].status = "failed"
      BY <2>2, <2>6
    <2>8. Forward(o, f)
      BY <2>6, <2>7 DEF Forward, Ended, Enabled
    <2>9. Forward(f, RefreshReadyNodes(f, WorkflowOf[n]))
      BY <2>5, RefreshForward
    <2>. QED BY <2>1, <2>3, <2>8, <2>9, ForwardTwice
  <1>. QED BY <1>3, <1>4

-----------------------------------------------------------------------------
(* What one step may do *)

\* A claim comes to be completed when its node succeeds in that attempt.
CompletedBySuccess ==
    \A c \in Claims : claim'[c].status = "completed" =>
        \/ claim[c].status = "completed"
        \/ /\ claim[c].status = "active"
           /\ node'[c[1]].status = "succeeded"
           /\ node'[c[1]].attempts = node[c[1]].attempts

\* A workflow comes to succeed when its nodes are successfully complete.
SucceedsWhenComplete ==
    \A w \in Workflows : status'[w] = "succeeded" =>
        status[w] = "succeeded" \/ IsSuccessfullyComplete(node', w)

\* A failed agent stays failed, and a claim is released by failing its agent.
FailedStaysFailed ==
    /\ \A a \in Agents : agent[a].status = "failed" => agent'[a].status = "failed"
    /\ \A c \in Claims : claim'[c].status = "released" =>
          \/ claim'[c] = claim[c]
          \/ claim'[c].agent \in Agents /\ agent'[claim'[c].agent].status = "failed"

StepFacts == /\ Forward(node, node')
             /\ CompletedBySuccess
             /\ SucceedsWhenComplete
             /\ FailedStaysFailed
             /\ StartsGuarded

\* Nothing changes, nothing moves.
LEMMA SameForward ==
    ASSUME NEW ns
    PROVE  Forward(ns, ns)
  BY DEF Forward

\* A claim is released by failing its agent, and a failed agent gets no claim.
ReleasedByFailure ==
    \A c \in Claims : claim[c].status = "released" =>
        claim[c].agent \in Agents /\ agent[claim[c].agent].status = "failed"

\* Agents change status and staleness only; no failed one is started.
LEMMA AgentStepFacts ==
    ASSUME IInv, AgentStep
    PROVE  StepFacts
  <1>1. agent \in [Agents -> AgentStates]
    BY DEF IInv, TypeOK
  <1>2. UNCHANGED <<status, node, claim, covers>>
    BY DEF AgentStep, StartAgent, HeartbeatAgent, StopAgent, HeartbeatLapses
  <1>3. \A a \in Agents : agent[a].status = "failed" => agent'[a].status = "failed"
    BY <1>1 DEF AgentStep, StartAgent, HeartbeatAgent, StopAgent, HeartbeatLapses,
                Available, AgentStates
  <1>4. Forward(node, node')
    BY <1>2, SameForward
  <1>. QED BY <1>2, <1>3, <1>4 DEF StepFacts, CompletedBySuccess, SucceedsWhenComplete,
                                   FailedStaysFailed, StartsGuarded

\* Leases come and go beside the tables.
LEMMA LeaseStepFacts ==
    ASSUME LeaseStep
    PROVE  StepFacts
  <1>1. UNCHANGED <<status, node, agent, claim>>
    BY DEF LeaseStep, AcquireLease, LoseLease
  <1>2. Forward(node, node')
    BY <1>1, SameForward
  <1>. QED BY <1>1, <1>2 DEF StepFacts, CompletedBySuccess, SucceedsWhenComplete,
                             FailedStaysFailed, StartsGuarded

\* Only a success that completes the workflow writes Succeeded.
LEMMA StatusFacts ==
    ASSUME status \in [Workflows -> WorkflowStatuses], NEW n \in Nodes, NEW ok \in BOOLEAN,
           NEW s, s \in {StatusAfterSuccess(node', n), StatusAfterFailure(node', n),
                         StatusAfterDecision(node', n, ok)},
           status' = [status EXCEPT ![WorkflowOf[n]] = s]
    PROVE  SucceedsWhenComplete
  <1>1. s = "succeeded" => IsSuccessfullyComplete(node', WorkflowOf[n])
    BY DEF StatusAfterSuccess, StatusAfterFailure, StatusAfterDecision
  <1>. QED BY <1>1 DEF SucceedsWhenComplete

\* Commands move nodes forward and touch neither claims nor agents.
LEMMA CommandStepFacts ==
    ASSUME IInv, CommandStep
    PROVE  StepFacts
  <1> PICK n \in Nodes : \/ StartNode(n) \/ CompleteNode(n) \/ FailNode(n)
                         \/ \E ok \in BOOLEAN : DecideApproval(n, ok)
    BY DEF CommandStep
  <1>1. node \in [Nodes -> NodeStates] /\ status \in [Workflows -> WorkflowStatuses]
    BY DEF IInv, TypeOK
  <1>2. UNCHANGED <<agent, claim>>
    BY DEF StartNode, CompleteNode, FailNode, DecideApproval
  <1>3. Forward(node, node')
    BY <1>1, TransitionsForward, FailureForward
       DEF StartNode, CompleteNode, FailNode, DecideApproval
  <1>4. SucceedsWhenComplete
    <2>1. CASE StartNode(n)
      BY <2>1 DEF StartNode, SucceedsWhenComplete
    <2>2. CASE CompleteNode(n) \/ FailNode(n)
      BY <2>2, <1>1, StatusFacts DEF CompleteNode, FailNode
    <2>3. CASE \E ok \in BOOLEAN : DecideApproval(n, ok)
      BY <2>3, <1>1, StatusFacts DEF DecideApproval
    <2>. QED BY <2>1, <2>2, <2>3
  <1>. QED BY <1>2, <1>3, <1>4 DEF StepFacts, CompletedBySuccess, FailedStaysFailed,
                                   StartsGuarded

\* Claiming a node, first or by handover: the agent runs, so it has not failed.
LEMMA AssignFacts ==
    ASSUME IInv, ReleasedByFailure, NEW n \in Nodes, NEW a \in Agents,
           Assign(n, a), MayRun(a, n)
    PROVE  StepFacts
  <1>1. /\ node \in [Nodes -> NodeStates] /\ agent \in [Agents -> AgentStates]
        /\ claim \in [Claims -> ClaimStates]
    BY DEF IInv, TypeOK
  <1>2. /\ node' = Started(node, n, a) /\ node[n].status = "ready"
        /\ agent[a].status = "running"
        /\ agent' = [agent EXCEPT ![a].task = NextClaim(n)]
        /\ claim' = [claim EXCEPT ![NextClaim(n)] = [status |-> "active", agent |-> a]]
        /\ UNCHANGED <<status, covers>>
    BY DEF Assign, Available
  <1>3. \A c \in Claims : \/ claim'[c] = claim[c]
                          \/ /\ c = NextClaim(n)
                             /\ claim'[c] = [status |-> "active", agent |-> a]
    BY <1>1, <1>2
  <1>4. \A b \in Agents : agent'[b].status = agent[b].status
    BY <1>1, <1>2 DEF AgentStates
  <1>5. Forward(node, node')
    BY <1>1, <1>2, TransitionsForward
  <1>6. CompletedBySuccess /\ SucceedsWhenComplete /\ FailedStaysFailed
    BY <1>2, <1>3, <1>4 DEF CompletedBySuccess, SucceedsWhenComplete, FailedStaysFailed
  <1>7. StartsGuarded
    <2> SUFFICES ASSUME NEW c \in Claims, claim[c].status = "none",
                        claim'[c].status = "active"
                 PROVE  /\ c[1] \in LockedNodes => <<claim'[c].agent, c[1]>> \in covers
                        /\ \A d \in Claims : d[1] = c[1] /\ claim[d].status = "released" =>
                                claim[d].agent # claim'[c].agent
      BY DEF StartsGuarded
    <2>1. c = NextClaim(n) /\ claim'[c] = [status |-> "active", agent |-> a]
      BY <1>3
    <2>2. c[1] = n /\ claim'[c].agent = a
      BY <2>1 DEF NextClaim
    <2>3. n \in LockedNodes => <<a, n>> \in covers
      BY DEF MayRun
    <2>4. \A d \in Claims : claim[d].status = "released" => claim[d].agent # a
      BY <1>2 DEF ReleasedByFailure
    <2>. QED BY <2>2, <2>3, <2>4
  <1>. QED BY <1>5, <1>6, <1>7 DEF StepFacts

\* An active claim ends as e, its agent becoming r: which claims and agents move.
LEMMA EndFacts ==
    ASSUME IInv, NEW c \in Claims, claim[c].status = "active",
           NEW e \in {"completed", "failed", "released"},
           NEW r \in AgentStates, r.status \in {"running", "failed"},
           agent[claim[c].agent].status = "running",
           agent' = [agent EXCEPT ![claim[c].agent] = r],
           claim' = [claim EXCEPT ![c].status = e],
           e = "completed" => /\ node'[c[1]].status = "succeeded"
                              /\ node'[c[1]].attempts = node[c[1]].attempts,
           e = "released" => r.status = "failed"
    PROVE  CompletedBySuccess /\ FailedStaysFailed /\ StartsGuarded
  <1>1. /\ agent \in [Agents -> AgentStates] /\ claim \in [Claims -> ClaimStates]
    BY DEF IInv, TypeOK
  <1>2. claim[c].agent \in Agents
    BY <1>1 DEF ClaimStates, NoClaim
  <1>3. /\ claim'[c] = [status |-> e, agent |-> claim[c].agent]
        /\ \A d \in Claims \ {c} : claim'[d] = claim[d]
    BY <1>1, <1>2 DEF ClaimStates, NoClaim
  <1>4. /\ agent'[claim[c].agent] = r
        /\ \A a \in Agents \ {claim[c].agent} : agent'[a] = agent[a]
    BY <1>1, <1>2
  <1>5. CompletedBySuccess
    BY <1>3 DEF CompletedBySuccess
  <1>6. FailedStaysFailed
    BY <1>2, <1>3, <1>4 DEF FailedStaysFailed
  <1>7. StartsGuarded
    BY <1>3 DEF StartsGuarded
  <1>. QED BY <1>5, <1>6, <1>7

\* Claiming, finishing, recovery and handover.
LEMMA ClaimStepFacts ==
    ASSUME IInv, ReleasedByFailure, ClaimStep
    PROVE  StepFacts
  <1>1. /\ node \in [Nodes -> NodeStates] /\ status \in [Workflows -> WorkflowStatuses]
        /\ agent \in [Agents -> AgentStates] /\ claim \in [Claims -> ClaimStates]
    BY DEF IInv, TypeOK
  <1>2. ASSUME NEW w \in Workflows, NEW a \in Agents, ClaimNext(w, a)
        PROVE  StepFacts
    <2>1. PICK n \in Claimable(w, a) : Assign(n, a)
      BY <1>2 DEF ClaimNext
    <2>2. n \in Nodes /\ MayRun(a, n)
      BY DEF Claimable, ReadyNodes, NodesOf
    <2>. QED BY <2>1, <2>2, AssignFacts
  <1>3. ASSUME NEW c \in Claims, NEW a \in Agents, HandOver(c, a)
        PROVE  StepFacts
    <2>1. Assign(c[1], a) /\ MayRun(a, c[1]) /\ c[1] \in Nodes
      BY <1>3, ClaimKeys DEF HandOver, Replacements
    <2>. QED BY <2>1, AssignFacts
  <1>4. ASSUME NEW c \in Claims, OwnsActive(c)
        PROVE  /\ claim[c].status = "active" /\ c[1] \in Nodes
               /\ node[c[1]].status = "running"
               /\ agent[claim[c].agent] \in AgentStates
               /\ agent[claim[c].agent].status = "running"
    <2>1. /\ claim[c].status = "active" /\ c[1] \in Nodes
          /\ node[c[1]].status = "running" /\ agent[claim[c].agent].task = c
      BY <1>4, ClaimKeys DEF OwnsActive
    <2>2. claim[c].agent \in Agents
      BY <2>1, <1>1 DEF ClaimStates, NoClaim
    <2>3. agent[claim[c].agent].task # NoTask
      BY <2>1, ClaimKeys
    <2>4. agent[claim[c].agent].status = "running"
      BY <2>2, <2>3 DEF IInv, TaskIsActiveClaim
    <2>. QED BY <2>1, <2>2, <2>4, <1>1
  <1>5. ASSUME NEW c \in Claims, NEW e, OwnsActive(c), ReleaseTask(c, e)
        PROVE  \E r \in AgentStates : /\ r.status = "running"
                                      /\ agent' = [agent EXCEPT ![claim[c].agent] = r]
                                      /\ claim' = [claim EXCEPT ![c].status = e]
    <2> DEFINE r == [agent[claim[c].agent] EXCEPT !.task = NoTask]
    <2>1. r \in AgentStates /\ r.status = "running"
      BY <1>4, <1>5 DEF AgentStates
    <2>2. /\ agent' = [agent EXCEPT ![claim[c].agent] = r]
          /\ claim' = [claim EXCEPT ![c].status = e]
      BY <1>5 DEF ReleaseTask
    <2>. QED BY <2>1, <2>2
  <1>6. ASSUME NEW c \in Claims, CompleteClaim(c)
        PROVE  StepFacts
    <2>1. /\ OwnsActive(c) /\ ReleaseTask(c, "completed")
          /\ node' = Completed(node, c[1])
          /\ status' = [status EXCEPT ![WorkflowOf[c[1]]] = StatusAfterSuccess(node', c[1])]
      BY <1>6 DEF CompleteClaim
    <2>2. /\ node'[c[1]].status = "succeeded"
          /\ node'[c[1]].attempts = node[c[1]].attempts
      BY <2>1, <1>1, <1>4, CompletedEffect
    <2>3. Forward(node, node')
      BY <2>1, <1>1, <1>4, TransitionsForward
    <2>4. SucceedsWhenComplete
      BY <2>1, <1>1, <1>4, StatusFacts
    <2>5. CompletedBySuccess /\ FailedStaysFailed /\ StartsGuarded
      BY <2>1, <2>2, <1>4, <1>5, EndFacts
    <2>. QED BY <2>3, <2>4, <2>5 DEF StepFacts
  <1>7. ASSUME NEW c \in Claims, OwnsActive(c),
               node' = FailedOrRetried(node, c[1]),
               status' = [status EXCEPT ![WorkflowOf[c[1]]] = StatusAfterFailure(node', c[1])]
        PROVE  Forward(node, node') /\ SucceedsWhenComplete
    BY <1>1, <1>4, <1>7, FailureForward, StatusFacts
  <1>8. ASSUME NEW c \in Claims, FailClaim(c)
        PROVE  StepFacts
    <2>1. OwnsActive(c) /\ ReleaseTask(c, "failed")
      BY <1>8 DEF FailClaim
    <2>2. Forward(node, node') /\ SucceedsWhenComplete
      BY <2>1, <1>7, <1>8 DEF FailClaim
    <2>3. CompletedBySuccess /\ FailedStaysFailed /\ StartsGuarded
      BY <2>1, <1>4, <1>5, EndFacts
    <2>. QED BY <2>2, <2>3 DEF StepFacts
  <1>9. ASSUME NEW c \in Claims, RecoverStaleClaim(c)
        PROVE  StepFacts
    <2> DEFINE r == [status |-> "failed", task |-> NoTask, stale |-> FALSE]
    <2>1. /\ OwnsActive(c)
          /\ agent' = [agent EXCEPT ![claim[c].agent] = r]
          /\ claim' = [claim EXCEPT ![c].status = "released"]
      BY <1>9 DEF RecoverStaleClaim
    <2>2. r \in AgentStates /\ r.status = "failed"
      BY DEF AgentStates
    <2> HIDE DEF r
    <2>3. Forward(node, node') /\ SucceedsWhenComplete
      BY <2>1, <1>7, <1>9 DEF RecoverStaleClaim
    <2>4. CompletedBySuccess /\ FailedStaysFailed /\ StartsGuarded
      BY <2>1, <2>2, <1>4, EndFacts
    <2>. QED BY <2>3, <2>4 DEF StepFacts
  <1>. QED BY <1>2, <1>3, <1>6, <1>8, <1>9 DEF ClaimStep, SchedulingStep, FinishStep

\* Every step, and stuttering, has the facts.
LEMMA NextFacts ==
    ASSUME IInv, ReleasedByFailure, [Next]_vars
    PROVE  StepFacts
  <1>1. CASE UNCHANGED vars
    <2>1. Forward(node, node')
      BY <1>1, SameForward DEF vars
    <2>. QED BY <1>1, <2>1 DEF vars, StepFacts, CompletedBySuccess, SucceedsWhenComplete,
                               FailedStaysFailed, StartsGuarded
  <1>2. CASE Next
    BY <1>2, AgentStepFacts, CommandStepFacts, LeaseStepFacts, ClaimStepFacts DEF Next
  <1>. QED BY <1>1, <1>2

-----------------------------------------------------------------------------
(* Order *)

\* The invariant that makes WorkIsOrdered inductive, with IInv beside it.
OInv == /\ WorkWaitsForDependencies
        /\ CompletedOnce
        /\ \A w \in Workflows : status[w] = "succeeded" => IsSuccessfullyComplete(node, w)
        /\ ReleasedByFailure

\* A new deployment: nodes without dependencies are ready, nothing is claimed.
LEMMA InitOInv == Init => OInv
  <1> SUFFICES ASSUME Init PROVE OInv
    OBVIOUS
  <1>1. /\ \A c \in Claims : claim[c].status = "none"
        /\ \A w \in Workflows : status[w] = "running"
    BY DEF Init, NoClaim
  <1>2. \A n \in Nodes : node[n].status # "pending" => Deps[n] = {}
    BY DEF Init, NewExecution, FreshNode
  <1>3. WorkWaitsForDependencies
    BY <1>2 DEF WorkWaitsForDependencies, DependenciesSatisfied
  <1>. QED BY <1>1, <1>3 DEF OInv, CompletedOnce, ReleasedByFailure

\* The facts of a step carry the order over it.
LEMMA NextOInv ==
    ASSUME IInv, OInv, [Next]_vars
    PROVE  OInv'
  <1>1. StepFacts
    BY NextFacts DEF OInv
  <1>2. WorkWaitsForDependencies'
    <2>1. \A n \in Nodes : node[n].status # "pending" => Enabled(node, n)
      BY DEF OInv, WorkWaitsForDependencies, Enabled
    <2>2. Forward(node, node')
      BY <1>1 DEF StepFacts
    <2>3. \A n \in Nodes : Enabled(node, n) => Enabled(node', n)
      BY <2>2, ForwardKeeps
    <2>4. \A n \in Nodes : node'[n].status # "pending" => Enabled(node', n)
      BY <2>1, <2>2, <2>3 DEF Forward
    <2>. QED BY <2>4 DEF WorkWaitsForDependencies, Enabled
  <1>3. CompletedOnce'
    <2> SUFFICES ASSUME NEW c \in Claims, claim'[c].status = "completed", Scheduled(c[1])
                 PROVE  node'[c[1]].status = "succeeded" /\ node'[c[1]].attempts = c[2]
      BY DEF CompletedOnce, Scheduled
    <2>1. c[1] \in Nodes
      BY ClaimKeys
    <2>2. CASE claim[c].status = "completed"
      <3>1. node[c[1]].status = "succeeded" /\ node[c[1]].attempts = c[2]
        BY <2>2 DEF OInv, CompletedOnce
      <3>2. node'[c[1]] = node[c[1]]
        BY <3>1, <2>1, <1>1 DEF StepFacts, Forward, Ended
      <3>. QED BY <3>1, <3>2
    <2>3. CASE claim[c].status # "completed"
      <3>1. /\ claim[c].status = "active"
            /\ node'[c[1]].status = "succeeded"
            /\ node'[c[1]].attempts = node[c[1]].attempts
        BY <2>3, <1>1 DEF StepFacts, CompletedBySuccess
      <3>2. node[c[1]] = [status |-> "running", attempts |-> c[2], owner |-> claim[c].agent]
        BY <3>1 DEF IInv, ClaimsMatchNodes
      <3>. QED BY <3>1, <3>2
    <2>. QED BY <2>2, <2>3
  <1>4. \A w \in Workflows : status'[w] = "succeeded" => IsSuccessfullyComplete(node', w)
    BY <1>1, ForwardKeeps DEF StepFacts, SucceedsWhenComplete, OInv
  <1>5. ReleasedByFailure'
    BY <1>1 DEF StepFacts, FailedStaysFailed, OInv, ReleasedByFailure
  <1>. QED BY <1>2, <1>3, <1>4, <1>5 DEF OInv

\* Where all nodes satisfy their dependents none runs, so no claim is active.
LEMMA CompleteIsQuiet ==
    ASSUME IInv, OInv
    PROVE  SucceededIsQuiescent
  <1> SUFFICES ASSUME NEW w \in Workflows, status[w] = "succeeded",
                      NEW c \in Claims, WorkflowOf[c[1]] = w, Scheduled(c[1])
               PROVE  IsSuccessfullyComplete(node, w) /\ claim[c].status # "active"
    BY DEF SucceededIsQuiescent, OInv
  <1>1. IsSuccessfullyComplete(node, w)
    BY DEF OInv
  <1>2. c[1] \in NodesOf(w)
    BY ClaimKeys DEF NodesOf
  <1>3. node[c[1]].status # "running"
    BY <1>1, <1>2 DEF IsSuccessfullyComplete, SatisfiesDependency
  <1>4. ASSUME claim[c].status = "active"
        PROVE  node[c[1]].status = "running"
    <2>1. node[c[1]] = [status |-> "running", attempts |-> c[2], owner |-> claim[c].agent]
      BY <1>4 DEF IInv, ClaimsMatchNodes
    <2>. QED BY <2>1
  <1>. QED BY <1>1, <1>3, <1>4

-----------------------------------------------------------------------------
(* The properties *)

\* OInv holds throughout, beside IInv.
THEOREM OrderInductive == Spec => []OInv
  <1>1. Init => IInv /\ OInv
    BY InitIInv, InitOInv
  <1>2. IInv /\ OInv /\ [Next]_vars => (IInv /\ OInv)'
    BY NextIInv, NextOInv
  <1>. QED BY <1>1, <1>2, PTL DEF Spec

\* A node starts after what it waits for or as the fallback of a node that
\* failed for good, a node's accepted attempt is its last, and a workflow that
\* succeeded has nothing running.
THEOREM OrderIsKept == Spec => []WorkIsOrdered
  <1>1. IInv /\ OInv => WorkIsOrdered
    BY CompleteIsQuiet DEF WorkIsOrdered, IInv, OInv
  <1>. QED BY <1>1, Inductive, OrderInductive, PTL

\* Whoever claims, for the first time or by handover, begins a locked node under
\* a lease of the agent, and never gives a node back to one that lost it.
THEOREM ClaimsBeginGuarded == Spec => ClaimsStartGuarded
  <1>1. IInv /\ OInv /\ [Next]_vars => [StartsGuarded]_vars
    BY NextFacts DEF OInv, StepFacts
  <1>. QED BY <1>1, Inductive, OrderInductive, PTL DEF Spec, ClaimsStartGuarded

-----------------------------------------------------------------------------
(* Refinement *)

\* A step of the worker or of the rest of the system is a step of Scheduler or
\* leaves its tables alone.
LEMMA StepIsScheduling ==
    ASSUME [ExecutionNext]_executionVars
    PROVE  [Next]_vars
  <1>1. CASE UNCHANGED executionVars
    BY <1>1 DEF executionVars
  <1>2. CASE SystemMove
    BY <1>2 DEF SystemMove, Next, ClaimStep
  <1>3. ASSUME NEW c \in Claims, FenceLapses(c) \/ GrantToolApproval(c) \/ ApprovalExpires(c)
        PROVE  UNCHANGED vars
    BY <1>3 DEF FenceLapses, GrantToolApproval, ApprovalExpires
  <1>4. ASSUME NEW w \in Workers, WorkerStep(w)
        PROVE  Next \/ UNCHANGED vars
    <2>1. CASE CallAdapter(w) \/ MarkClaimFinalized(w) \/ CrashWorker(w)
      BY <2>1 DEF CallAdapter, MarkClaimFinalized, CrashWorker
    <2>2. CASE \E result \in {"succeeded", "failed"} : SaveResult(w, result)
      BY <2>2 DEF SaveResult
    <2>3. ASSUME NEW c \in Claims,
                 PrepareClaim(w, c) \/ StartExecution(w, c) \/ MarkUncertain(w, c)
          PROVE  UNCHANGED vars
      BY <2>3 DEF PrepareClaim, StartExecution, MarkUncertain
    <2>4. ASSUME NEW c \in Claims, FinishClaim(w, c)
          PROVE  Next \/ UNCHANGED vars
      BY <2>4 DEF FinishClaim, Next, ClaimStep, FinishStep
    <2>. QED BY <1>4, <2>1, <2>2, <2>3, <2>4 DEF WorkerStep
  <1>. QED BY <1>1, <1>2, <1>3, <1>4 DEF ExecutionNext

\* Execution workers move the scheduler's tables the way Scheduler says.
THEOREM ExecutionIsScheduling == ExecutionSpec => ImplementsScheduler
  <1>1. ExecutionInit => Init
    BY DEF ExecutionInit
  <1>. QED BY <1>1, StepIsScheduling, PTL DEF ExecutionSpec, ImplementsScheduler, Spec

-----------------------------------------------------------------------------
(* The ledger's invariant *)

\* A record and the calls made for it: the intent is persisted before the call,
\* and a result after it.
RecordsMatchCalls ==
    \A c \in Claims : /\ calls[c] \in {0, 1}
                      /\ exec[c] \in {"none", "prepared"} => calls[c] = 0
                      /\ exec[c] \in {"succeeded", "failed"} => calls[c] = 1

\* What a worker holds: the only call to come, the only result to come, or an
\* ended claim.
WorkersHoldRecords ==
    \A w \in Workers :
        LET c == worker[w].claim
        IN  /\ worker[w].step = "starting" => exec[c] \in {"running", "uncertain"} /\ calls[c] = 0
            /\ worker[w].step = "calling" => exec[c] \in {"running", "uncertain"} /\ calls[c] = 1
            /\ worker[w].step = "finalizing" => claim[c].status \in {"completed", "failed"}

LInv == /\ IInv
        /\ ExecutionTypeOK
        /\ RecordsMatchCalls
        /\ WorkersHoldRecords
        /\ OneWorkerPerExecution
        /\ ClaimsEndByResult

\* A busy worker holds a claim; an idle one holds none.
LEMMA WorkerClaims ==
    ASSUME ExecutionTypeOK, NEW w \in Workers
    PROVE  /\ worker[w].step \in {"starting", "calling", "finalizing"} => worker[w].claim \in Claims
           /\ worker[w] = Idle <=> worker[w].step = "idle"
  BY DEF ExecutionTypeOK, WorkerStates, Idle

\* Nothing is prepared, claimed or called at first.
LEMMA InitLInv == ExecutionInit => LInv
  <1> SUFFICES ASSUME ExecutionInit PROVE LInv
    OBVIOUS
  <1>1. IInv
    BY InitIInv DEF ExecutionInit
  <1>2. ExecutionTypeOK
    BY DEF ExecutionInit, ExecutionTypeOK, ExecStatuses, WorkerStates
  <1>3. RecordsMatchCalls
    BY DEF ExecutionInit, RecordsMatchCalls
  <1>4. WorkersHoldRecords /\ OneWorkerPerExecution
    BY DEF ExecutionInit, WorkersHoldRecords, OneWorkerPerExecution, Idle
  <1>5. ClaimsEndByResult
    BY DEF ExecutionInit, Init, NoClaim, ClaimsEndByResult
  <1>. QED BY <1>1, <1>2, <1>3, <1>4, <1>5 DEF LInv

\* The rest of the system neither completes nor fails claims, and does not undo
\* that: only workers finish them.
LEMMA OthersFinishNothing ==
    ASSUME IInv, AgentStep \/ CommandStep \/ LeaseStep \/ SchedulingStep,
           NEW c \in Claims
    PROVE  /\ claim'[c].status = "completed" <=> claim[c].status = "completed"
           /\ claim'[c].status = "failed" <=> claim[c].status = "failed"
  <1>1. claim \in [Claims -> ClaimStates]
    BY DEF IInv, TypeOK
  <1>2. CASE AgentStep \/ CommandStep \/ LeaseStep
    <2>1. claim' = claim
      BY <1>2 DEF AgentStep, StartAgent, HeartbeatAgent, StopAgent, HeartbeatLapses,
                  CommandStep, StartNode, CompleteNode, FailNode, DecideApproval,
                  LeaseStep, AcquireLease, LoseLease
    <2>. QED BY <2>1
  <1>3. ASSUME NEW n, NEW a, Assign(n, a)
        PROVE  \/ claim'[c] = claim[c]
               \/ claim[c].status = "none" /\ claim'[c].status = "active"
    BY <1>1, <1>3 DEF Assign
  <1>4. ASSUME NEW d \in Claims, RecoverStaleClaim(d)
        PROVE  \/ claim'[c] = claim[c]
               \/ claim[c].status = "active" /\ claim'[c].status = "released"
    <2>1. claim[d].status = "active" /\ claim' = [claim EXCEPT ![d].status = "released"]
      BY <1>4 DEF RecoverStaleClaim, OwnsActive
    <2>. QED BY <1>1, <2>1 DEF ClaimStates, NoClaim
  <1>5. CASE SchedulingStep
    BY <1>3, <1>4, <1>5 DEF SchedulingStep, ClaimNext, HandOver
  <1>. QED BY <1>2, <1>5

-----------------------------------------------------------------------------
(* Every step keeps the ledger *)

Ledgered == /\ ExecutionTypeOK
            /\ RecordsMatchCalls
            /\ WorkersHoldRecords
            /\ OneWorkerPerExecution
            /\ ClaimsEndByResult

\* Steps of the rest of the system: records, workers and calls stay.
LEMMA OthersKeepLedger ==
    ASSUME LInv,
           \/ SystemMove
           \/ \E c \in Claims : FenceLapses(c) \/ GrantToolApproval(c) \/ ApprovalExpires(c)
    PROVE  Ledgered'
  <1>1. UNCHANGED <<exec, finalized, worker, calls>>
    BY DEF SystemMove, FenceLapses, GrantToolApproval, ApprovalExpires
  <1>2. fence' \subseteq Claims /\ approved' \subseteq Claims
    BY DEF LInv, ExecutionTypeOK, SystemMove, FenceAfterMove, Claimed,
           FenceLapses, GrantToolApproval, ApprovalExpires
  <1>3. \A c \in Claims : /\ claim'[c].status = "completed" <=> claim[c].status = "completed"
                          /\ claim'[c].status = "failed" <=> claim[c].status = "failed"
    BY OthersFinishNothing DEF LInv, SystemMove, FenceLapses, GrantToolApproval,
       ApprovalExpires, vars
  <1>4. ExecutionTypeOK' /\ RecordsMatchCalls' /\ OneWorkerPerExecution'
    BY <1>1, <1>2 DEF LInv, ExecutionTypeOK, RecordsMatchCalls, OneWorkerPerExecution
  <1>5. WorkersHoldRecords'
    <2> SUFFICES ASSUME NEW w \in Workers, worker[w].step \in {"starting", "calling", "finalizing"}
                 PROVE  LET c == worker[w].claim
                        IN  /\ worker[w].step = "starting" => exec[c] \in {"running", "uncertain"} /\ calls[c] = 0
                            /\ worker[w].step = "calling" => exec[c] \in {"running", "uncertain"} /\ calls[c] = 1
                            /\ worker[w].step = "finalizing" => claim'[c].status \in {"completed", "failed"}
      BY <1>1 DEF WorkersHoldRecords
    <2>1. worker[w].claim \in Claims
      BY WorkerClaims DEF LInv
    <2>. QED BY <2>1, <1>3 DEF LInv, WorkersHoldRecords
  <1>6. ClaimsEndByResult'
    BY <1>1, <1>3 DEF LInv, ExecutionTypeOK, ClaimsEndByResult
  <1>. QED BY <1>4, <1>5, <1>6 DEF Ledgered

\* Records move on without their worker: prepared, or left for reconciliation.
LEMMA RecordsKeepLedger ==
    ASSUME LInv, NEW w \in Workers, NEW c \in Claims,
           PrepareClaim(w, c) \/ MarkUncertain(w, c)
    PROVE  Ledgered'
  <1>1. /\ UNCHANGED <<claim, finalized, worker, calls, fence, approved>>
        /\ \/ exec[c] = "none" /\ exec' = [exec EXCEPT ![c] = "prepared"]
           \/ exec[c] = "running" /\ exec' = [exec EXCEPT ![c] = "uncertain"]
    BY DEF PrepareClaim, MarkUncertain, vars
  <1>2. exec \in [Claims -> ExecStatuses]
    BY DEF LInv, ExecutionTypeOK
  <1>3. \A d \in Claims : \/ exec'[d] = exec[d]
                          \/ d = c /\ exec[d] = "none" /\ exec'[d] = "prepared"
                          \/ d = c /\ exec[d] = "running" /\ exec'[d] = "uncertain"
    BY <1>1, <1>2
  <1>4. ExecutionTypeOK'
    BY <1>1, <1>2 DEF LInv, ExecutionTypeOK, ExecStatuses
  <1>5. RecordsMatchCalls' /\ OneWorkerPerExecution'
    BY <1>1, <1>3 DEF LInv, RecordsMatchCalls, OneWorkerPerExecution
  <1>6. WorkersHoldRecords'
    <2> SUFFICES ASSUME NEW v \in Workers, worker[v].step \in {"starting", "calling", "finalizing"}
                 PROVE  LET d == worker[v].claim
                        IN  /\ worker[v].step = "starting" => exec'[d] \in {"running", "uncertain"} /\ calls[d] = 0
                            /\ worker[v].step = "calling" => exec'[d] \in {"running", "uncertain"} /\ calls[d] = 1
                            /\ worker[v].step = "finalizing" => claim[d].status \in {"completed", "failed"}
      BY <1>1 DEF WorkersHoldRecords
    <2>1. worker[v].claim \in Claims
      BY WorkerClaims DEF LInv
    <2>. QED BY <2>1, <1>3 DEF LInv, WorkersHoldRecords
  <1>7. ClaimsEndByResult'
    <2>1. \A d \in Claims : exec[d] \in {"succeeded", "failed"} => exec'[d] = exec[d]
      BY <1>3
    <2>. QED BY <1>1, <2>1 DEF LInv, ClaimsEndByResult
  <1>. QED BY <1>4, <1>5, <1>6, <1>7 DEF Ledgered

\* The record of one idle worker becomes running: nobody else executes it,
\* as those who do hold records that are not prepared.
LEMMA StartKeepsLedger ==
    ASSUME LInv, NEW w \in Workers, NEW c \in Claims, StartExecution(w, c)
    PROVE  Ledgered'
  <1> DEFINE held == [step |-> "starting", claim |-> c]
  <1>1. /\ UNCHANGED <<claim, finalized, calls, fence, approved>>
        /\ exec[c] = "prepared" /\ exec' = [exec EXCEPT ![c] = "running"]
        /\ worker' = [worker EXCEPT ![w] = held]
    BY DEF StartExecution, vars
  <1>2. exec \in [Claims -> ExecStatuses] /\ worker \in [Workers -> WorkerStates]
    BY DEF LInv, ExecutionTypeOK
  <1>3. /\ exec'[c] = "running" /\ \A d \in Claims \ {c} : exec'[d] = exec[d]
        /\ worker'[w] = held /\ \A v \in Workers \ {w} : worker'[v] = worker[v]
    BY <1>1, <1>2
  <1>4. held.step = "starting" /\ held.claim = c /\ held \in WorkerStates
    BY DEF WorkerStates
  <1> HIDE DEF held
  <1>5. ExecutionTypeOK'
    BY <1>1, <1>2, <1>4 DEF LInv, ExecutionTypeOK, ExecStatuses
  <1>6. RecordsMatchCalls' /\ ClaimsEndByResult'
    BY <1>1, <1>3 DEF LInv, RecordsMatchCalls, ClaimsEndByResult
  <1>7. ASSUME NEW v \in Workers, v # w, worker[v].step \in {"starting", "calling"}
        PROVE  worker[v].claim \in Claims \ {c}
    BY <1>1, <1>7, WorkerClaims DEF LInv, WorkersHoldRecords
  <1>8. WorkersHoldRecords'
    BY <1>1, <1>3, <1>4, <1>7 DEF LInv, WorkersHoldRecords, RecordsMatchCalls
  <1>9. OneWorkerPerExecution'
    BY <1>3, <1>4, <1>7 DEF LInv, OneWorkerPerExecution
  <1>. QED BY <1>5, <1>6, <1>8, <1>9 DEF Ledgered

\* The adapter is called by the one worker that executes the record.
LEMMA CallKeepsLedger ==
    ASSUME LInv, NEW w \in Workers, CallAdapter(w)
    PROVE  Ledgered'
  <1> DEFINE c == worker[w].claim
  <1>1. /\ UNCHANGED <<claim, exec, finalized, fence, approved>>
        /\ worker[w].step = "starting"
        /\ worker' = [worker EXCEPT ![w].step = "calling"]
        /\ calls' = [calls EXCEPT ![c] = @ + 1]
    BY DEF CallAdapter, vars
  <1>2. /\ c \in Claims /\ calls[c] = 0 /\ exec[c] \in {"running", "uncertain"}
        /\ calls \in [Claims -> Nat] /\ worker \in [Workers -> WorkerStates]
    BY <1>1, WorkerClaims DEF LInv, WorkersHoldRecords, ExecutionTypeOK
  <1>3. /\ worker'[w] = [step |-> "calling", claim |-> c]
        /\ worker'[w] \in WorkerStates
        /\ \A v \in Workers \ {w} : worker'[v] = worker[v]
    BY <1>1, <1>2 DEF WorkerStates, Idle
  <1> HIDE DEF c
  <1>4. calls'[c] = 1 /\ \A d \in Claims \ {c} : calls'[d] = calls[d]
    BY <1>1, <1>2
  <1>5. ExecutionTypeOK'
    BY <1>1, <1>2, <1>3 DEF LInv, ExecutionTypeOK
  <1>6. RecordsMatchCalls' /\ ClaimsEndByResult'
    BY <1>1, <1>2, <1>4 DEF LInv, RecordsMatchCalls, ClaimsEndByResult
  <1>7. ASSUME NEW v \in Workers, v # w, worker[v].step \in {"starting", "calling"}
        PROVE  worker[v].claim \in Claims \ {c}
    BY <1>1, <1>7, WorkerClaims DEF LInv, OneWorkerPerExecution, c
  <1>8. WorkersHoldRecords'
    BY <1>1, <1>2, <1>3, <1>4, <1>7 DEF LInv, WorkersHoldRecords
  <1>9. OneWorkerPerExecution'
    BY <1>1, <1>3, <1>7 DEF LInv, OneWorkerPerExecution
  <1>. QED BY <1>5, <1>6, <1>8, <1>9 DEF Ledgered

\* A worker that lets go of its claim leaves the others with theirs: with a
\* result of its call, with the claim finalized, or with nothing.
LEMMA LettingGoKeepsLedger ==
    ASSUME LInv, NEW w \in Workers,
           \/ \E result \in {"succeeded", "failed"} : SaveResult(w, result)
           \/ MarkClaimFinalized(w)
           \/ CrashWorker(w)
    PROVE  Ledgered'
  <1> DEFINE c == worker[w].claim
  <1>1. /\ UNCHANGED <<claim, fence, approved, calls>>
        /\ worker' = [worker EXCEPT ![w] = Idle]
    BY DEF SaveResult, MarkClaimFinalized, CrashWorker, vars
  <1>2. /\ exec \in [Claims -> ExecStatuses] /\ worker \in [Workers -> WorkerStates]
    BY DEF LInv, ExecutionTypeOK
  <1>3. worker'[w] = Idle /\ \A v \in Workers \ {w} : worker'[v] = worker[v]
    BY <1>1, <1>2
  <1>4. \/ exec' = exec
        \/ /\ worker[w].step = "calling" /\ c \in Claims /\ exec[c] = "running"
           /\ \E result \in {"succeeded", "failed"} : exec' = [exec EXCEPT ![c] = result]
    <2>1. CASE \E result \in {"succeeded", "failed"} : SaveResult(w, result)
      <3>1. PICK result \in {"succeeded", "failed"} : SaveResult(w, result)
        BY <2>1
      <3>2. /\ worker[w].step = "calling" /\ c \in Claims
            /\ exec' = [exec EXCEPT ![c] = IF @ = "running" THEN result ELSE @]
        BY <3>1, WorkerClaims DEF SaveResult, LInv
      <3>. QED BY <3>2, <1>2
    <2>2. CASE MarkClaimFinalized(w) \/ CrashWorker(w)
      BY <2>2 DEF MarkClaimFinalized, CrashWorker
    <2>. QED BY <2>1, <2>2
  <1>5. \/ finalized' = finalized
        \/ /\ worker[w].step = "finalizing" /\ c \in Claims
           /\ finalized' = finalized \cup {c}
    BY WorkerClaims DEF SaveResult, MarkClaimFinalized, CrashWorker, LInv
  <1>6. ExecutionTypeOK'
    <2>1. exec' \in [Claims -> ExecStatuses]
      BY <1>2, <1>4 DEF ExecStatuses
    <2>2. worker' \in [Workers -> WorkerStates]
      BY <1>1, <1>2 DEF WorkerStates
    <2>. QED BY <1>1, <1>5, <2>1, <2>2 DEF LInv, ExecutionTypeOK
  <1>7. worker[w].step = "calling" => calls[c] = 1
    BY DEF LInv, WorkersHoldRecords
  <1> HIDE DEF c
  <1>8. \A d \in Claims : \/ exec'[d] = exec[d]
                          \/ /\ d = c /\ worker[w].step = "calling"
                             /\ exec[d] = "running" /\ exec'[d] \in {"succeeded", "failed"}
    BY <1>2, <1>4
  <1>9. RecordsMatchCalls'
    BY <1>1, <1>7, <1>8 DEF LInv, RecordsMatchCalls
  <1>10. OneWorkerPerExecution'
    BY <1>3 DEF LInv, OneWorkerPerExecution, Idle
  <1>11. WorkersHoldRecords'
    <2> SUFFICES ASSUME NEW v \in Workers, v # w,
                        worker[v].step \in {"starting", "calling", "finalizing"}
                 PROVE  LET d == worker[v].claim
                        IN  /\ worker[v].step = "starting" => exec'[d] \in {"running", "uncertain"} /\ calls[d] = 0
                            /\ worker[v].step = "calling" => exec'[d] \in {"running", "uncertain"} /\ calls[d] = 1
                            /\ worker[v].step = "finalizing" => claim[d].status \in {"completed", "failed"}
      BY <1>1, <1>3 DEF WorkersHoldRecords, Idle
    <2>1. worker[v].claim \in Claims
      BY WorkerClaims DEF LInv
    <2>2. worker[v].step \in {"starting", "calling"} /\ worker[w].step = "calling"
              => worker[v].claim # c
      BY DEF LInv, OneWorkerPerExecution, c
    <2>. QED BY <2>1, <2>2, <1>8 DEF LInv, WorkersHoldRecords
  <1>12. ClaimsEndByResult'
    <2>1. \A d \in Claims : exec[d] \in {"succeeded", "failed"} => exec'[d] = exec[d]
      BY <1>8
    <2>2. worker[w].step = "finalizing" => claim[c].status \in {"completed", "failed"}
      BY DEF LInv, WorkersHoldRecords, c
    <2>. QED BY <1>1, <1>5, <2>1, <2>2 DEF LInv, ClaimsEndByResult
  <1>. QED BY <1>6, <1>9, <1>10, <1>11, <1>12 DEF Ledgered

\* The claim ends as its result says, or has already ended so.
LEMMA FinishKeepsLedger ==
    ASSUME LInv, NEW w \in Workers, NEW c \in Claims, FinishClaim(w, c)
    PROVE  Ledgered'
  <1> DEFINE held == [step |-> "finalizing", claim |-> c]
  <1>1. /\ UNCHANGED <<exec, finalized, fence, approved, calls>>
        /\ worker' = [worker EXCEPT ![w] = held]
    BY DEF FinishClaim
  <1>2. /\ worker \in [Workers -> WorkerStates] /\ claim \in [Claims -> ClaimStates]
    BY DEF LInv, ExecutionTypeOK, IInv, TypeOK
  <1>3. held.step = "finalizing" /\ held.claim = c /\ held \in WorkerStates
    BY DEF WorkerStates
  <1> HIDE DEF held
  <1>4. worker'[w] = held /\ \A v \in Workers \ {w} : worker'[v] = worker[v]
    BY <1>1, <1>2
  <1>5. ASSUME NEW e, OwnsActive(c), ReleaseTask(c, e)
        PROVE  /\ claim[c].status = "active" /\ claim'[c].status = e
               /\ \A d \in Claims \ {c} : claim'[d] = claim[d]
    <2>1. claim[c].status = "active" /\ claim' = [claim EXCEPT ![c].status = e]
      BY <1>5 DEF OwnsActive, ReleaseTask
    <2>. QED BY <2>1, <1>2 DEF ClaimStates, NoClaim
  <1>6. /\ \/ exec[c] = "succeeded" /\ claim'[c].status = "completed"
           \/ exec[c] = "failed" /\ claim'[c].status = "failed"
        /\ \A d \in Claims \ {c} : claim'[d] = claim[d]
    BY <1>5 DEF FinishClaim, CompleteClaim, FailClaim, vars
  <1>7. ExecutionTypeOK'
    BY <1>1, <1>2, <1>3 DEF LInv, ExecutionTypeOK
  <1>8. RecordsMatchCalls' /\ ClaimsEndByResult'
    BY <1>1, <1>6 DEF LInv, RecordsMatchCalls, ClaimsEndByResult, ExecutionTypeOK
  <1>9. OneWorkerPerExecution'
    BY <1>3, <1>4 DEF LInv, OneWorkerPerExecution
  <1>10. WorkersHoldRecords'
    <2>1. ASSUME NEW v \in Workers, v # w, worker[v].step = "finalizing"
          PROVE  claim'[worker[v].claim].status \in {"completed", "failed"}
      <3>1. worker[v].claim \in Claims /\ claim[worker[v].claim].status \in {"completed", "failed"}
        BY <2>1, WorkerClaims DEF LInv, WorkersHoldRecords
      <3>. QED BY <3>1, <1>6
    <2>. QED BY <2>1, <1>1, <1>3, <1>4, <1>6 DEF LInv, WorkersHoldRecords
  <1>. QED BY <1>7, <1>8, <1>9, <1>10 DEF Ledgered

\* Every step, and stuttering, keeps the invariant.
LEMMA NextLInv == LInv /\ [ExecutionNext]_executionVars => LInv'
  <1> SUFFICES ASSUME LInv, [ExecutionNext]_executionVars PROVE LInv'
    OBVIOUS
  <1>1. IInv'
    BY NextIInv, StepIsScheduling DEF LInv
  <1>2. Ledgered'
    <2>1. CASE UNCHANGED executionVars
      BY <2>1 DEF executionVars, vars, ledger, LInv, Ledgered, ExecutionTypeOK,
                  RecordsMatchCalls, WorkersHoldRecords, OneWorkerPerExecution,
                  ClaimsEndByResult
    <2>2. CASE \/ SystemMove
               \/ \E c \in Claims : \/ FenceLapses(c) \/ GrantToolApproval(c)
                                    \/ ApprovalExpires(c)
      BY <2>2, OthersKeepLedger
    <2>3. ASSUME NEW w \in Workers, WorkerStep(w)
          PROVE  Ledgered'
      BY <2>3, RecordsKeepLedger, StartKeepsLedger, CallKeepsLedger,
         LettingGoKeepsLedger, FinishKeepsLedger DEF WorkerStep
    <2>. QED BY <2>1, <2>2, <2>3 DEF ExecutionNext
  <1>. QED BY <1>1, <1>2 DEF LInv, Ledgered

\* LInv is an invariant.
THEOREM LedgerInductive == ExecutionSpec => []LInv
  BY InitLInv, NextLInv, PTL DEF ExecutionSpec

\* The adapter is called at most once for a claim and by one worker, results are
\* results of calls, and claims end the way their results say.
THEOREM LedgerIsTrue == ExecutionSpec => []CallsAreLedgered
  <1>1. LInv => CallsAreLedgered
    <2> SUFFICES ASSUME LInv PROVE CallsAreLedgered
      OBVIOUS
    <2>1. CalledOnce
      BY DEF LInv, RecordsMatchCalls, CalledOnce
    <2>2. ResultsComeFromCalls
      BY DEF LInv, RecordsMatchCalls, ResultsComeFromCalls
    <2>. QED BY <2>1, <2>2 DEF LInv, CallsAreLedgered
  <1>. QED BY <1>1, LedgerInductive, PTL

-----------------------------------------------------------------------------
(* Polling workers *)

\* What a tick does to the tables is one scheduling step, or nothing.
LEMMA TickStepSchedules ==
    ASSUME NEW p \in Pollers, TickStep(p)
    PROVE  SchedulingStep \/ UNCHANGED vars
  <1>1. CASE StartTick(p) \/ ListHandovers(p) \/ ListWorkflows(p) \/ EndTick(p)
    BY <1>1 DEF StartTick, ListHandovers, ListWorkflows, EndTick
  <1>2. ASSUME NEW c \in Claims, RecoverNext(p, c)
        PROVE  SchedulingStep \/ UNCHANGED vars
    BY <1>2 DEF RecoverNext, Skip, SchedulingStep
  <1>3. ASSUME NEW c \in Claims, HandOverNext(p, c)
        PROVE  SchedulingStep \/ UNCHANGED vars
    BY <1>3 DEF HandOverNext, Skip, SchedulingStep
  <1>4. ASSUME NEW w \in Workflows, ListAgents(p, w) \/ NextWorkflow(p, w)
        PROVE  UNCHANGED vars
    BY <1>4 DEF ListAgents, NextWorkflow
  <1>5. ASSUME NEW w \in Workflows, NEW a \in Agents, OfferWork(p, w, a)
        PROVE  SchedulingStep \/ UNCHANGED vars
    BY <1>5 DEF OfferWork, SchedulingStep
  <1>. QED BY <1>1, <1>2, <1>3, <1>4, <1>5 DEF TickStep

\* Agents, operators, leases and execution workers take Scheduler's own steps.
LEMMA OtherStepIsNext ==
    ASSUME OtherStep
    PROVE  Next
  <1>1. CASE \E a \in Agents : StartAgent(a) \/ HeartbeatAgent(a) \/ HeartbeatLapses(a)
    BY <1>1 DEF Next, AgentStep
  <1>2. CASE CommandStep \/ LeaseStep \/ FinishStep
    BY <1>2 DEF Next, ClaimStep
  <1>3. CASE \E a \in Agents : Stops(a)
    BY <1>3 DEF Stops, Next, AgentStep
  <1>. QED BY <1>1, <1>2, <1>3 DEF OtherStep

\* Acting on lists that may be out of date adds no step: what a tick listed is
\* looked at again in the transaction that acts on it.
THEOREM PollingIsScheduling == PollSpec => PollingImplementsScheduler
  <1>1. PollInit => Init
    BY DEF PollInit
  <1>2. [PollNext]_pollVars => [Next]_vars
    <2> SUFFICES ASSUME [PollNext]_pollVars PROVE Next \/ UNCHANGED vars
      OBVIOUS
    <2>1. CASE UNCHANGED pollVars
      BY <2>1 DEF pollVars
    <2>2. ASSUME NEW p \in Pollers, TickStep(p)
          PROVE  Next \/ UNCHANGED vars
      BY <2>2, TickStepSchedules DEF Next, ClaimStep
    <2>3. ASSUME NEW p \in Pollers, AbortTick(p)
          PROVE  UNCHANGED vars
      BY <2>3 DEF AbortTick
    <2>. QED BY <2>1, <2>2, <2>3, OtherStepIsNext DEF PollNext
  <1>. QED BY <1>1, <1>2, PTL DEF PollSpec, PollingImplementsScheduler, Spec

=============================================================================
