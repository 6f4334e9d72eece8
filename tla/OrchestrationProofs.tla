-------------------------- MODULE OrchestrationProofs ------------------------
(***************************************************************************)
(* Proofs about Orchestration: for any workflows and any number of callers *)
(* that read, apply and save side by side, the outbox has one commit per   *)
(* version, a copy that can still be saved is the effect of one permitted  *)
(* command on the row as it is, and so every save is one atomic command of *)
(* Scheduler.  And about KahnValidation: the check every definition passes *)
(* before it becomes a row accepts exactly the acyclic ones.               *)
(***************************************************************************)
EXTENDS Orchestration, KahnValidation, WorkflowProofs,
        FiniteSetTheorems, WellFoundedInduction

-----------------------------------------------------------------------------
(* Commands *)

\* No node is past its attempts, and one that waits to be started has one left.
WithinAttempts(ns) ==
    \A n \in Nodes :
        /\ ns[n].attempts <= MaxAttempts[n]
        /\ ns[n].status \in {"pending", "ready"} => ns[n].attempts < MaxAttempts[n]

\* The next attempt's number.
LEMMA OneMore ==
    ASSUME NEW x \in 0 .. 100, NEW m \in 1 .. 100, x < m
    PROVE  x \in 0 .. 99 /\ x + 1 \in 0 .. 100 /\ x + 1 <= m
  OBVIOUS

\* A node that is to be started has fewer than 100 attempts.
LEMMA AttemptLeft ==
    ASSUME NEW ns \in [Nodes -> NodeStates], WithinAttempts(ns), NEW n \in Nodes,
           ns[n].status = "ready"
    PROVE  /\ ns[n].attempts \in 0 .. 99 /\ ns[n].attempts + 1 \in 0 .. 100
           /\ ns[n].attempts + 1 <= MaxAttempts[n]
  <1>1. /\ ns[n].attempts \in 0 .. 100 /\ MaxAttempts[n] \in 1 .. 100
        /\ ns[n].attempts < MaxAttempts[n]
    BY WorkflowAssumption DEF NodeStates, WithinAttempts
  <1>. QED BY <1>1, OneMore

\* Starting counts one attempt of one node.
LEMMA StartedEffect ==
    ASSUME NEW ns \in [Nodes -> NodeStates], WithinAttempts(ns), NEW n \in Nodes,
           ns[n].status = "ready", NEW o \in Owners
    PROVE  /\ Started(ns, n, o) \in [Nodes -> NodeStates]
           /\ WithinAttempts(Started(ns, n, o))
  <1> DEFINE k == ns[n].attempts + 1
             t == [ns EXCEPT ![n] = [status |-> "running", attempts |-> k, owner |-> o]]
  <1>1. k \in 0 .. 100 /\ k <= MaxAttempts[n]
    BY AttemptLeft
  <1>2. Started(ns, n, o) = t
    BY DEF Started
  <1> HIDE DEF k
  <1>3. /\ t \in [Nodes -> NodeStates]
        /\ t[n] = [status |-> "running", attempts |-> k, owner |-> o]
        /\ \A m \in Nodes \ {n} : t[m] = ns[m]
    BY <1>1 DEF NodeStates, NodeStatuses
  <1> HIDE DEF t
  <1>4. WithinAttempts(t)
    BY <1>1, <1>3 DEF WithinAttempts
  <1>. QED BY <1>2, <1>3, <1>4

\* A command keeps the types and the attempts.
LEMMA CommandEffect ==
    ASSUME NEW ns \in [Nodes -> NodeStates], WithinAttempts(ns), NEW n \in Nodes,
           NEW op \in Commands, NEW st, Permits(st, ns, n, op)
    PROVE  /\ NodesAfter(ns, n, op) \in [Nodes -> NodeStates]
           /\ WithinAttempts(NodesAfter(ns, n, op))
           /\ StatusAfter(NodesAfter(ns, n, op), n, op) \in WorkflowStatuses
  <1> DEFINE t == NodesAfter(ns, n, op)
  <1>1. op \in {"start", "complete", "fail", "approve", "reject"}
    BY DEF Commands
  <1>2. StatusAfter(t, n, op) \in WorkflowStatuses
    BY <1>1, StatusesInRange DEF StatusAfter, WorkflowStatuses
  <1>3. CASE op = "start"
    <2>1. t = Started(ns, n, Operator) /\ ns[n].status = "ready"
      BY <1>3 DEF NodesAfter, Permits, RequiredStatus
    <2>. QED BY <1>2, <2>1, StartedEffect, OrchestrationAssumption
  <1>4. CASE op # "start"
    <2>1. \/ t = Completed(ns, n) \/ t = FailedOrRetried(ns, n)
          \/ \E ok \in BOOLEAN : t = Decided(ns, n, ok)
      BY <1>1, <1>4 DEF NodesAfter
    <2>2. /\ t \in [Nodes -> NodeStates]
          /\ t[n].status \in {"succeeded", "failed", "ready"}
          /\ t[n].status = "ready" => Retries(ns, n)
          /\ t[n].attempts = ns[n].attempts
          /\ OthersOnlyWake(ns, t, n)
      BY <2>1, CompletedEffect, FailedEffect, DecidedEffect
    <2> HIDE DEF t
    <2>3. WithinAttempts(t)
      BY <2>2 DEF WithinAttempts, OthersOnlyWake, Retries
    <2>4. t \in [Nodes -> NodeStates] /\ WithinAttempts(t) /\ StatusAfter(t, n, op) \in WorkflowStatuses
      BY <1>2, <2>2, <2>3
    <2>. QED BY <2>4 DEF t
  <1>. QED BY <1>3, <1>4

\* A command reads and writes one workflow.
LEMMA CommandLocal ==
    ASSUME NEW ns \in [Nodes -> NodeStates], WithinAttempts(ns),
           NEW os \in [Nodes -> NodeStates], NEW n \in Nodes,
           SameIn(WorkflowOf[n], ns, os),
           NEW op \in Commands, NEW st, Permits(st, ns, n, op)
    PROVE  /\ Local(n, ns, os, NodesAfter(ns, n, op), NodesAfter(os, n, op))
           /\ StatusAfter(NodesAfter(ns, n, op), n, op) = StatusAfter(NodesAfter(os, n, op), n, op)
           /\ Permits(st, os, n, op)
  <1> DEFINE t == NodesAfter(ns, n, op)
             u == NodesAfter(os, n, op)
  <1>1. op \in {"start", "complete", "fail", "approve", "reject"}
    BY DEF Commands
  <1>2. Local(n, ns, os, t, u)
    <2>1. CASE op = "start"
      <3>1. /\ t = Started(ns, n, Operator) /\ u = Started(os, n, Operator)
            /\ ns[n].status = "ready"
        BY <2>1 DEF NodesAfter, Permits, RequiredStatus
      <3>2. ns[n].attempts < 100
        BY <3>1, AttemptLeft
      <3>. QED BY <3>1, <3>2, TransitionsLocal, OrchestrationAssumption
    <2>2. CASE op = "complete"
      BY <2>2, TransitionsLocal DEF NodesAfter
    <2>3. CASE op = "fail"
      BY <2>3, FailureLocal DEF NodesAfter
    <2>4. CASE op = "approve" \/ op = "reject"
      BY <2>4, TransitionsLocal DEF NodesAfter
    <2>. QED BY <1>1, <2>1, <2>2, <2>3, <2>4
  <1>3. os[n] = ns[n]
    BY DEF SameIn, NodesOf
  <1>4. Permits(st, os, n, op)
    BY <1>3 DEF Permits
  <1> HIDE DEF t, u
  <1>5. StatusAfter(t, n, op) = StatusAfter(u, n, op)
    <2>1. SameIn(WorkflowOf[n], t, u)
      BY <1>2 DEF Local
    <2>2. /\ StatusAfterSuccess(t, n) = StatusAfterSuccess(u, n)
          /\ StatusAfterFailure(t, n) = StatusAfterFailure(u, n)
          /\ \A ok \in BOOLEAN : StatusAfterDecision(t, n, ok) = StatusAfterDecision(u, n, ok)
      BY <2>1, StatusesLocal
    <2>. QED BY <1>1, <2>2 DEF StatusAfter
  <1>. QED BY <1>2, <1>4, <1>5 DEF t, u

-----------------------------------------------------------------------------
(* The invariant *)

\* A copy is the effect of one permitted command on the status st and nodes ns.
EffectOf(copy, st, ns) ==
    \E n \in NodesOf(copy.workflow), op \in Commands :
        /\ Permits(st, ns, n, op)
        /\ SameIn(copy.workflow, NodesAfter(ns, n, op), copy.node)
        /\ copy.status = StatusAfter(NodesAfter(ns, n, op), n, op)

\* What is true of a copy whatever became of the row since it was read.
Sound(copy, ver, st, ns) ==
    /\ copy.expected <= ver[copy.workflow]
    /\ WithinAttempts(copy.node)
    /\ ver[copy.workflow] = copy.expected => EffectOf(copy, st[copy.workflow], ns)

CopiesAreEffects ==
    \A c \in Clients : client[c] # Free => Sound(client[c], version, status, node)

RInv == TypeOK /\ WithinAttempts(node) /\ EventsFollowVersions /\ CopiesAreEffects

\* An effect on one workflow does not depend on the others.
LEMMA EffectCarries ==
    ASSUME NEW ns \in [Nodes -> NodeStates], NEW os \in [Nodes -> NodeStates],
           WithinAttempts(ns), NEW copy \in Copies, NEW st,
           SameIn(copy.workflow, ns, os), EffectOf(copy, st, ns)
    PROVE  EffectOf(copy, st, os)
  <1>1. PICK n \in NodesOf(copy.workflow), op \in Commands :
            /\ Permits(st, ns, n, op)
            /\ SameIn(copy.workflow, NodesAfter(ns, n, op), copy.node)
            /\ copy.status = StatusAfter(NodesAfter(ns, n, op), n, op)
    BY DEF EffectOf
  <1>2. n \in Nodes /\ WorkflowOf[n] = copy.workflow
    BY DEF NodesOf
  <1>3. /\ SameIn(copy.workflow, NodesAfter(ns, n, op), NodesAfter(os, n, op))
        /\ StatusAfter(NodesAfter(ns, n, op), n, op) = StatusAfter(NodesAfter(os, n, op), n, op)
        /\ Permits(st, os, n, op)
    BY <1>1, <1>2, CommandLocal DEF Local
  <1>4. SameIn(copy.workflow, NodesAfter(os, n, op), copy.node)
    BY <1>1, <1>3 DEF SameIn
  <1>. QED BY <1>1, <1>3, <1>4 DEF EffectOf

\* The next commit extends the sequence of versions.
LEMMA NextEvent ==
    ASSUME NEW k \in Nat \ {0}
    PROVE  /\ Append([v \in 1 .. k |-> v], k + 1) = [v \in 1 .. k + 1 |-> v]
           /\ [v \in 1 .. k + 1 |-> v] \in Seq(Nat \ {0})
  <1> DEFINE s == [v \in 1 .. k |-> v]
  <1>1. s \in Seq(Nat \ {0}) /\ Len(s) = k
    OBVIOUS
  <1>2. Append(s, k + 1) = [v \in 1 .. k + 1 |-> IF v <= k THEN s[v] ELSE k + 1]
    BY <1>1
  <1>3. \A v \in 1 .. k + 1 : (IF v <= k THEN s[v] ELSE k + 1) = v
    OBVIOUS
  <1>. QED BY <1>2, <1>3

\* A new deployment.
LEMMA InitRInv == Init => RInv
  <1> SUFFICES ASSUME Init PROVE RInv
    OBVIOUS
  <1>1. /\ node \in [Nodes -> NodeStates]
        /\ \A n \in Nodes : node[n].attempts = 0
    BY DEF Init, NewExecution, FreshNode, EnabledStatus, NodeStates, NodeStatuses
  <1>2. WithinAttempts(node)
    BY <1>1, WorkflowAssumption DEF WithinAttempts
  <1>3. <<1>> \in Seq(Nat \ {0}) /\ <<1>> = [v \in 1 .. 1 |-> v]
    OBVIOUS
  <1>4. TypeOK
    BY <1>1, <1>3 DEF Init, TypeOK, WorkflowStatuses
  <1>5. EventsFollowVersions
    BY <1>3 DEF Init, EventsFollowVersions
  <1>6. CopiesAreEffects
    BY DEF Init, CopiesAreEffects
  <1>. QED BY <1>2, <1>4, <1>5, <1>6 DEF RInv

\* A caller that reads and applies holds the effect of its command.
LEMMA ReadKeeps ==
    ASSUME RInv, NEW c \in Clients, NEW n \in Nodes, NEW op \in Commands,
           ReadAndApply(c, n, op)
    PROVE  RInv'
  <1> DEFINE w == WorkflowOf[n]
             t == NodesAfter(node, n, op)
             copy == [workflow |-> w, expected |-> version[w], node |-> t,
                      status |-> StatusAfter(t, n, op)]
  <1>1. /\ Permits(status[w], node, n, op)
        /\ client' = [client EXCEPT ![c] = copy]
        /\ UNCHANGED <<status, node, version, events>>
    BY DEF ReadAndApply
  <1>2. TypeOK /\ WithinAttempts(node) /\ EventsFollowVersions /\ CopiesAreEffects
    BY DEF RInv
  <1>3. /\ t \in [Nodes -> NodeStates] /\ WithinAttempts(t)
        /\ StatusAfter(t, n, op) \in WorkflowStatuses
    BY <1>1, <1>2, CommandEffect DEF TypeOK
  <1>4. w \in Workflows /\ version[w] \in Nat \ {0} /\ n \in NodesOf(w)
    BY <1>2, WorkflowAssumption DEF TypeOK, NodesOf
  <1>5. copy \in Copies
    BY <1>3, <1>4 DEF Copies
  <1>6. SameIn(w, t, t)
    BY DEF SameIn
  <1>7. EffectOf(copy, status[w], node)
    BY <1>1, <1>4, <1>6 DEF EffectOf
  <1>8. Sound(copy, version', status', node')
    BY <1>1, <1>3, <1>4, <1>7 DEF Sound
  <1> HIDE DEF copy
  <1>10. client' \in [Clients -> Copies \cup {Free}]
    BY <1>1, <1>2, <1>5 DEF TypeOK
  <1>11. \A d \in Clients : client'[d] = copy \/ client'[d] = client[d]
    BY <1>1, <1>2 DEF TypeOK
  <1>12. \A d \in Clients : client'[d] # Free => Sound(client'[d], version', status', node')
    BY <1>1, <1>2, <1>8, <1>11 DEF CopiesAreEffects
  <1>. QED
    BY <1>1, <1>2, <1>10, <1>12 DEF RInv, TypeOK, EventsFollowVersions, CopiesAreEffects

\* A row is saved over the version it was read from: the other copies of its
\* workflow fall behind, those of other workflows are not touched.
LEMMA SaveKeeps ==
    ASSUME RInv, NEW c \in Clients, Save(c)
    PROVE  RInv'
  <1> DEFINE copy == client[c]
             w == copy.workflow
             k == version[w]
  <1>1. TypeOK /\ WithinAttempts(node) /\ EventsFollowVersions /\ CopiesAreEffects
    BY DEF RInv
  <1>2. /\ copy # Free /\ version[w] = copy.expected
        /\ version' = [version EXCEPT ![w] = k + 1]
        /\ status' = [status EXCEPT ![w] = copy.status]
        /\ node' = [n \in Nodes |-> IF WorkflowOf[n] = w THEN copy.node[n] ELSE node[n]]
        /\ events' = [events EXCEPT ![w] = Append(@, k + 1)]
        /\ client' = [client EXCEPT ![c] = Free]
    BY DEF Save, Current, NextVersion
  <1>3. copy \in Copies
    BY <1>1, <1>2 DEF TypeOK
  <1>4. /\ w \in Workflows /\ copy.node \in [Nodes -> NodeStates]
        /\ copy.status \in WorkflowStatuses /\ k \in Nat \ {0}
    BY <1>1, <1>3 DEF Copies, TypeOK
  <1>5. WithinAttempts(copy.node)
    BY <1>1, <1>2 DEF CopiesAreEffects, Sound
  <1> HIDE DEF copy, w, k
  <1>6. node' \in [Nodes -> NodeStates] /\ WithinAttempts(node)'
    BY <1>1, <1>2, <1>4, <1>5 DEF WithinAttempts, TypeOK
  <1>7. events[w] = [v \in 1 .. k |-> v]
    BY <1>1, <1>4 DEF EventsFollowVersions, k
  <1>8. /\ events'[w] = [v \in 1 .. k + 1 |-> v] /\ events'[w] \in Seq(Nat \ {0})
        /\ version'[w] = k + 1 /\ k + 1 \in Nat \ {0}
    BY <1>1, <1>2, <1>4, <1>7, NextEvent DEF TypeOK
  <1>9. \A v \in Workflows \ {w} :
            /\ events'[v] = events[v] /\ version'[v] = version[v] /\ status'[v] = status[v]
            /\ SameIn(v, node, node')
    BY <1>1, <1>2 DEF TypeOK, SameIn, NodesOf
  <1>10. TypeOK'
    BY <1>1, <1>2, <1>4, <1>6, <1>8 DEF TypeOK
  <1>11. EventsFollowVersions'
    BY <1>1, <1>8, <1>9 DEF EventsFollowVersions
  <1>12. ASSUME NEW d \in Clients, client'[d] # Free
         PROVE  Sound(client'[d], version', status', node')
    <2> DEFINE other == client[d]
               v == other.workflow
    <2>1. client'[d] = other /\ other # Free
      BY <1>1, <1>2, <1>12 DEF TypeOK
    <2>2. Sound(other, version, status, node)
      BY <1>1, <2>1 DEF CopiesAreEffects
    <2>3. other \in Copies
      BY <1>1, <2>1 DEF TypeOK
    <2> HIDE DEF other
    <2>4. v \in Workflows /\ other.expected \in Nat
      BY <2>3 DEF Copies
    <2>5. CASE v = w
      <3>1. other.expected <= k
        BY <2>2, <2>5 DEF Sound, k
      <3>2. other.expected <= k + 1 /\ k + 1 # other.expected
        BY <3>1, <1>4, <2>4
      <3>. QED BY <1>8, <2>1, <2>2, <2>5, <3>2 DEF Sound
    <2>6. CASE v # w
      <3>1. version'[v] = version[v] /\ status'[v] = status[v] /\ SameIn(v, node, node')
        BY <1>9, <2>4, <2>6
      <3>2. EffectOf(other, status[v], node) => EffectOf(other, status[v], node')
        BY <1>1, <1>6, <2>3, <3>1, EffectCarries DEF TypeOK
      <3>. QED BY <2>1, <2>2, <3>1, <3>2 DEF Sound
    <2>. QED BY <2>5, <2>6
  <1>. QED BY <1>6, <1>10, <1>11, <1>12 DEF RInv, CopiesAreEffects

\* A copy that is thrown away is held by nobody.
LEMMA GiveUpKeeps ==
    ASSUME RInv, NEW c \in Clients, GiveUp(c)
    PROVE  RInv'
  <1>1. client' = [client EXCEPT ![c] = Free] /\ UNCHANGED <<status, node, version, events>>
    BY DEF GiveUp
  <1>2. client \in [Clients -> Copies \cup {Free}]
    BY DEF RInv, TypeOK
  <1>3. client' \in [Clients -> Copies \cup {Free}]
    BY <1>1, <1>2
  <1>4. \A d \in Clients : client'[d] = Free \/ client'[d] = client[d]
    BY <1>1, <1>2
  <1>. QED BY <1>1, <1>3, <1>4 DEF RInv, TypeOK, EventsFollowVersions, CopiesAreEffects

\* RInv is inductive.
THEOREM RowsInductive == Spec => []RInv
  <1>1. RInv /\ [Next]_vars => RInv'
    <2> SUFFICES ASSUME RInv, [Next]_vars PROVE RInv'
      OBVIOUS
    <2>1. CASE UNCHANGED vars
      BY <2>1 DEF vars, RInv, TypeOK, EventsFollowVersions, CopiesAreEffects
    <2>2. CASE Next
      <3>1. PICK c \in Clients : \/ Save(c) \/ GiveUp(c)
                                 \/ \E n \in Nodes, op \in Commands : ReadAndApply(c, n, op)
        BY <2>2 DEF Next
      <3>. QED BY <3>1, SaveKeeps, GiveUpKeeps, ReadKeeps
    <2>. QED BY <2>1, <2>2
  <1>. QED BY <1>1, InitRInv, PTL DEF Spec

(***************************************************************************)
(* In whatever order callers read and save: one commit of events for every *)
(* version of the row, and a copy that save_workflow will still accept is  *)
(* the effect of one command permitted on the row as it now is.            *)
(***************************************************************************)
THEOREM CallersAgree == Spec => []RowsEventsAndCopiesAgree
  <1>1. RInv => RowsEventsAndCopiesAgree
    <2> SUFFICES ASSUME RInv PROVE RowsEventsAndCopiesAgree
      OBVIOUS
    <2>1. ASSUME NEW c \in Clients, client[c] # Free, Current(client[c])
          PROVE  \E n \in NodesOf(client[c].workflow), op \in Commands :
                    /\ Permits(status[client[c].workflow], node, n, op)
                    /\ \A m \in NodesOf(client[c].workflow) :
                          client[c].node[m] = NodesAfter(node, n, op)[m]
      BY <2>1 DEF RInv, CopiesAreEffects, Sound, EffectOf, Current, SameIn
    <2>. QED BY <2>1 DEF RInv, RowsEventsAndCopiesAgree, CurrentCopiesAreFresh
  <1>. QED BY <1>1, RowsInductive, PTL

-----------------------------------------------------------------------------
(* Commands are atomic *)

\* Both modules take the transitions from Workflow.
LEMMA SameTransitions ==
    ASSUME NEW ns, NEW n
    PROVE  /\ Atomic!Started(ns, n, Operator) = Started(ns, n, Operator)
           /\ Atomic!Completed(ns, n) = Completed(ns, n)
           /\ Atomic!FailedOrRetried(ns, n) = FailedOrRetried(ns, n)
           /\ \A ok \in BOOLEAN : Atomic!Decided(ns, n, ok) = Decided(ns, n, ok)
           /\ Atomic!StatusAfterSuccess(ns, n) = StatusAfterSuccess(ns, n)
           /\ Atomic!StatusAfterFailure(ns, n) = StatusAfterFailure(ns, n)
           /\ \A ok \in BOOLEAN :
                 Atomic!StatusAfterDecision(ns, n, ok) = StatusAfterDecision(ns, n, ok)
  <1>1. \A ms, w : Atomic!RefreshReadyNodes(ms, w) = RefreshReadyNodes(ms, w)
    BY DEF Atomic!RefreshReadyNodes, RefreshReadyNodes, Atomic!DependenciesSatisfied,
           DependenciesSatisfied, Atomic!SatisfiesDependency, SatisfiesDependency,
           Atomic!EnabledStatus, EnabledStatus
  <1>2. Atomic!Started(ns, n, Operator) = Started(ns, n, Operator)
    BY DEF Atomic!Started, Started
  <1>3. Atomic!Completed(ns, n) = Completed(ns, n)
    BY <1>1 DEF Atomic!Completed, Completed
  <1>4. Atomic!FailedOrRetried(ns, n) = FailedOrRetried(ns, n)
    BY <1>1 DEF Atomic!FailedOrRetried, FailedOrRetried, Atomic!Retries, Retries,
                Atomic!FallbackActivated, FallbackActivated
  <1>5. \A ok \in BOOLEAN : Atomic!Decided(ns, n, ok) = Decided(ns, n, ok)
    BY <1>1 DEF Atomic!Decided, Decided
  <1>6. Atomic!StatusAfterSuccess(ns, n) = StatusAfterSuccess(ns, n)
    BY DEF Atomic!StatusAfterSuccess, StatusAfterSuccess, Atomic!IsSuccessfullyComplete,
           IsSuccessfullyComplete, Atomic!SatisfiesDependency, SatisfiesDependency,
           Atomic!NodesOf, NodesOf
  <1>7. Atomic!StatusAfterFailure(ns, n) = StatusAfterFailure(ns, n)
    BY DEF Atomic!StatusAfterFailure, StatusAfterFailure, Atomic!HasRecoverableWork,
           HasRecoverableWork, Atomic!NodesOf, NodesOf
  <1>8. \A ok \in BOOLEAN :
            Atomic!StatusAfterDecision(ns, n, ok) = StatusAfterDecision(ns, n, ok)
    BY <1>6 DEF Atomic!StatusAfterDecision, StatusAfterDecision
  <1>. QED BY <1>2, <1>3, <1>4, <1>5, <1>6, <1>7, <1>8

\* A command that is permitted, done at once, is a command of Scheduler.
LEMMA CommandIsStep ==
    ASSUME TypeOK, NEW n \in Nodes, NEW op \in Commands,
           Permits(status[WorkflowOf[n]], node, n, op),
           node' = NodesAfter(node, n, op),
           status' = [status EXCEPT ![WorkflowOf[n]] = StatusAfter(node', n, op)]
    PROVE  Atomic!CommandStep
  <1>1. /\ Atomic!Running(n)
        /\ op \in {"approve", "reject"} => n \in Approvals
        /\ node[n].status = RequiredStatus(op)
    BY DEF Permits, Atomic!Running
  <1>2. op \in {"start", "complete", "fail", "approve", "reject"}
    BY DEF Commands
  <1>3. UNCHANGED <<[a \in {} |-> Free],
                    [c \in {k \in Nodes \X (1 .. 100) : k[2] <= MaxAttempts[k[1]]} |->
                        [status |-> "none", agent |-> NoAgent]], {}>>
    OBVIOUS
  <1>4. CASE op = "start"
    <2>1. status' = status
      BY <1>4 DEF StatusAfter, Permits, TypeOK
    <2>. QED BY <1>1, <1>3, <1>4, <2>1, SameTransitions
             DEF NodesAfter, RequiredStatus, Atomic!StartNode, Atomic!CommandStep
  <1>5. CASE op = "complete"
    BY <1>1, <1>3, <1>5, SameTransitions
       DEF NodesAfter, StatusAfter, RequiredStatus, Atomic!CompleteNode, Atomic!CommandStep
  <1>6. CASE op = "fail"
    BY <1>1, <1>3, <1>6, SameTransitions
       DEF NodesAfter, StatusAfter, RequiredStatus, Atomic!FailNode, Atomic!CommandStep
  <1>7. ASSUME NEW ok \in BOOLEAN, op = IF ok THEN "approve" ELSE "reject"
        PROVE  Atomic!DecideApproval(n, ok)
    <2>1. /\ NodesAfter(node, n, op) = Decided(node, n, ok)
          /\ StatusAfter(node', n, op) = StatusAfterDecision(node', n, ok)
          /\ RequiredStatus(op) = "waiting_approval" /\ n \in Approvals
      BY <1>1, <1>7 DEF NodesAfter, StatusAfter, RequiredStatus
    <2>. QED BY <1>1, <1>3, <2>1, SameTransitions DEF Atomic!DecideApproval
  <1>8. CASE op \in {"approve", "reject"}
    <2>1. Atomic!DecideApproval(n, TRUE) \/ Atomic!DecideApproval(n, FALSE)
      BY <1>7, <1>8
    <2>. QED BY <2>1 DEF Atomic!CommandStep
  <1>. QED BY <1>2, <1>4, <1>5, <1>6, <1>8

\* A save is the command its copy is the effect of, done at once.
LEMMA SaveIsStep ==
    ASSUME RInv, NEW c \in Clients, Save(c)
    PROVE  Atomic!CommandStep
  <1> DEFINE copy == client[c]
             w == copy.workflow
  <1>1. TypeOK /\ WithinAttempts(node) /\ CopiesAreEffects
    BY DEF RInv
  <1>2. /\ copy # Free /\ version[w] = copy.expected
        /\ status' = [status EXCEPT ![w] = copy.status]
        /\ node' = [n \in Nodes |-> IF WorkflowOf[n] = w THEN copy.node[n] ELSE node[n]]
    BY DEF Save, Current
  <1>3. copy.node \in [Nodes -> NodeStates]
    BY <1>1, <1>2 DEF TypeOK, Copies
  <1>4. EffectOf(copy, status[w], node)
    BY <1>1, <1>2 DEF CopiesAreEffects, Sound
  <1> HIDE DEF copy
  <1>5. PICK n \in NodesOf(w), op \in Commands :
            /\ Permits(status[w], node, n, op)
            /\ SameIn(w, NodesAfter(node, n, op), copy.node)
            /\ copy.status = StatusAfter(NodesAfter(node, n, op), n, op)
    BY <1>4 DEF EffectOf
  <1>6. n \in Nodes /\ WorkflowOf[n] = w /\ node \in [Nodes -> NodeStates]
    BY <1>1, <1>5 DEF NodesOf, TypeOK
  <1>7. SameIn(w, node, node)
    BY DEF SameIn
  <1>8. Local(n, node, node, NodesAfter(node, n, op), NodesAfter(node, n, op))
    BY <1>1, <1>5, <1>6, <1>7, CommandLocal
  <1> DEFINE t == NodesAfter(node, n, op)
  <1>9. /\ t \in [Nodes -> NodeStates]
        /\ \A m \in Nodes : t[m] = IF WorkflowOf[m] = w THEN copy.node[m] ELSE node[m]
    BY <1>5, <1>6, <1>8 DEF Local, SameIn, NodesOf
  <1> HIDE DEF t
  <1>10. node' = t
    BY <1>2, <1>9
  <1>11. status' = [status EXCEPT ![WorkflowOf[n]] = StatusAfter(node', n, op)]
    BY <1>2, <1>5, <1>6, <1>10 DEF t
  <1>. QED BY <1>1, <1>5, <1>6, <1>10, <1>11, CommandIsStep DEF t

(***************************************************************************)
(* Whatever callers do in between, what the rows go through is a behaviour *)
(* of atomic commands: no update is lost, and none is half applied.        *)
(***************************************************************************)
THEOREM CallsAreAtomic == Spec => CommandsAreAtomic
  <1>1. Init => Atomic!Init
    BY DEF Init, Atomic!Init, NewExecution, Atomic!NewExecution, FreshNode,
           Atomic!FreshNode, EnabledStatus, Atomic!EnabledStatus, Atomic!NoClaim,
           Atomic!Claims, Atomic!RegisteredAgent
  <1>2. RInv /\ [Next]_vars =>
            [<<status, node>>' # <<status, node>> => Atomic!Next]_(Atomic!vars)
    <2> SUFFICES ASSUME RInv, [Next]_vars, <<status, node>>' # <<status, node>>
                 PROVE  Atomic!Next
      OBVIOUS
    <2>1. PICK c \in Clients : Save(c)
      BY DEF Next, vars, ReadAndApply, GiveUp
    <2>. QED BY <2>1, SaveIsStep DEF Atomic!Next
  <1>. QED BY <1>1, <1>2, RowsInductive, PTL DEF Spec, CommandsAreAtomic

-----------------------------------------------------------------------------
(* The cycle check *)

\* The entries of the list of n that name a node not in P.
Waiting(n, P) == {e \in Entries(names, n) : e[1] \notin P}

Queued == {queue[i] : i \in 1 .. Len(queue)}

\* P are the nodes popped.  What is left of an in-degree is what the list of the
\* node names of the others, and what is still to visit of the node popped last;
\* who has none left is popped or queued, once.  Nodes popped wait for nobody else
\* and have no cycle among them.
Popped(P) ==
  /\ P \in SUBSET NodeIds /\ visited = Cardinality(P)
  /\ \A i, j \in 1 .. Len(queue) : queue[i] = queue[j] => i = j
  /\ \A i \in 1 .. Len(queue) : queue[i] \notin P
  /\ \A n \in NodeIds : indegree[n] = Cardinality(Waiting(n, P)) + children[n]
  /\ \A n \in NodeIds : indegree[n] = 0 <=> n \in P \cup Queued
  /\ \A n \in P : \A d \in NodeIds \ P : names[n][d] = 0
  /\ \A S \in (SUBSET P) \ {{}} : \E n \in S : \A d \in S : names[n][d] = 0

KahnInv ==
  /\ names \in Definitions /\ indegree \in [NodeIds -> Nat] /\ queue \in Seq(NodeIds)
  /\ children \in [NodeIds -> 0 .. MaxRepeats]
  /\ \E P \in SUBSET NodeIds : Popped(P)

LEMMA NodesAreFinite == IsFiniteSet(NodeIds) /\ Cardinality(NodeIds) = NumNodes
  BY FS_Interval, KahnAssumption DEF NodeIds

LEMMA LeastNode ==
  ASSUME NEW S \in SUBSET NodeIds, S # {}
  PROVE  Min(S) \in S
  <1>1. PICK R : R = OpToRel(<, Nat)
    OBVIOUS
  <1>2. IsWellFoundedOn(R, Nat)
    BY <1>1, NatLessThanWellFounded
  <1>3. S \in SUBSET Nat
    BY KahnAssumption DEF NodeIds
  <1>4. PICK x \in S : \A y \in S : ~(<<y, x>> \in R)
    BY <1>2, <1>3, WFMin
  <1>5. \A y \in Nat, z \in Nat : y < z => <<y, z>> \in R
    BY <1>1 DEF OpToRel
  <1>6. x \in Nat /\ \A y \in S : y \in Nat /\ ~(y < x)
    BY <1>3, <1>4, <1>5
  <1>7. \A y \in S : x <= y
    BY <1>6
  <1> QED
    BY <1>7 DEF Min

LEMMA WaitingIsFinite ==
  ASSUME NEW n, NEW P
  PROVE  IsFiniteSet(Waiting(n, P)) /\ Cardinality(Waiting(n, P)) \in Nat
  <1>1. IsFiniteSet(1 .. MaxRepeats)
    BY FS_Interval, KahnAssumption
  <1>2. PICK all : all = NodeIds \X (1 .. MaxRepeats)
    OBVIOUS
  <1>3. IsFiniteSet(all)
    BY <1>1, <1>2, NodesAreFinite, FS_Product
  <1>4. PICK waiting : waiting = Waiting(n, P)
    OBVIOUS
  <1>5. waiting \in SUBSET all
    BY <1>2, <1>4 DEF Waiting, Entries
  <1>6. IsFiniteSet(waiting) /\ Cardinality(waiting) \in Nat
    BY <1>3, <1>5, FS_Subset, FS_CardinalityType
  <1> QED
    BY <1>4, <1>6

\* A name that is in a list c times has c entries.
LEMMA CopiesAreCounted ==
  ASSUME NEW d, NEW c \in Nat
  PROVE  /\ IsFiniteSet({<<d, k>> : k \in 1 .. c})
         /\ Cardinality({<<d, k>> : k \in 1 .. c}) = c
  <1> DEFINE copies == {<<d, k>> : k \in 1 .. c}
             f == [k \in 1 .. c |-> <<d, k>>]
  <1>1. f \in [1 .. c -> copies]
    OBVIOUS
  <1>2. \A j, k \in 1 .. c : f[j] = f[k] => j = k
    OBVIOUS
  <1>3. \A e \in copies : \E k \in 1 .. c : f[k] = e
    OBVIOUS
  <1> HIDE DEF f
  <1>4. f \in Bijection(1 .. c, copies)
    BY <1>1, <1>2, <1>3 DEF Bijection, Injection, Surjection, IsInjective
  <1>5. ExistsBijection(1 .. c, copies)
    BY <1>4 DEF ExistsBijection
  <1>6. IsFiniteSet(1 .. c) /\ Cardinality(1 .. c) = c
    BY FS_Interval
  <1> HIDE DEF copies
  <1>7. IsFiniteSet(copies) /\ Cardinality(copies) = c
    BY <1>5, <1>6, FS_Bijection
  <1> QED
    BY <1>7 DEF copies

\* Popping d takes as many from those that wait as their list names it.
LEMMA PoppingTakesItsEntries ==
  ASSUME names \in Definitions, NEW n \in NodeIds, NEW P, NEW d \in NodeIds, d \notin P
  PROVE  Cardinality(Waiting(n, P)) = Cardinality(Waiting(n, P \cup {d})) + names[n][d]
  <1>1. PICK c \in 0 .. MaxRepeats : c = names[n][d]
    BY DEF Definitions
  <1>2. PICK a, b : a = Waiting(n, P) /\ b = Waiting(n, P \cup {d})
    OBVIOUS
  <1>3. PICK copies : copies = {<<d, k>> : k \in 1 .. c}
    OBVIOUS
  <1>4. c \in Nat /\ IsFiniteSet(copies) /\ Cardinality(copies) = c
    <2>1. c \in Nat
      BY KahnAssumption
    <2> QED
      BY <1>3, <2>1, CopiesAreCounted
  <1>5. IsFiniteSet(a) /\ IsFiniteSet(b) /\ Cardinality(a) \in Nat /\ Cardinality(b) \in Nat
    BY <1>2, WaitingIsFinite
  <1>6. a = b \cup copies /\ b \cap copies = {}
    <2>1. \A e \in copies : e \in a /\ e \notin b
      <3>1. ASSUME NEW k \in 1 .. c
            PROVE  <<d, k>> \in a /\ <<d, k>> \notin b
        <4>1. k \in 1 .. MaxRepeats /\ k <= names[n][d]
          BY <1>1, KahnAssumption
        <4> QED
          BY <1>2, <4>1 DEF Waiting, Entries
      <3> QED
        BY <1>3, <3>1
    <2>2. b \subseteq a
      BY <1>2 DEF Waiting
    <2>3. ASSUME NEW e \in a, e \notin b
          PROVE  e \in copies
      <3>1. PICK x \in NodeIds, k \in 1 .. MaxRepeats : e = <<x, k>> /\ k <= names[n][x]
        BY <1>2 DEF Waiting, Entries
      <3>2. x = d
        BY <1>2, <2>3, <3>1 DEF Waiting
      <3>3. k \in 1 .. c
        BY <1>1, <3>1, <3>2, KahnAssumption
      <3> QED
        BY <1>3, <3>1, <3>2, <3>3
    <2> QED
      BY <2>1, <2>2, <2>3
  <1>7. Cardinality(b \cup copies) = Cardinality(b) + Cardinality(copies) - Cardinality(b \cap copies)
    BY <1>4, <1>5, FS_Union
  <1>8. Cardinality(b \cap copies) = 0
    BY <1>6, FS_EmptySet
  <1> QED
    BY <1>1, <1>2, <1>4, <1>5, <1>6, <1>7, <1>8

\* Nobody waits whose list names only nodes popped.
LEMMA NobodyWaits ==
  ASSUME names \in Definitions, NEW n \in NodeIds, NEW P
  PROVE  Cardinality(Waiting(n, P)) = 0 <=> \A d \in NodeIds \ P : names[n][d] = 0
  <1>1. PICK a : a = Waiting(n, P)
    OBVIOUS
  <1>2. Cardinality(a) = 0 <=> a = {}
    BY <1>1, WaitingIsFinite, FS_EmptySet
  <1>3. ASSUME a = {}, NEW d \in NodeIds \ P
        PROVE  names[n][d] = 0
    <2>1. <<d, 1>> \notin a
      BY <1>3
    <2>2. names[n][d] \in 0 .. MaxRepeats
      BY DEF Definitions
    <2>3. ~(1 \in 1 .. MaxRepeats /\ 1 <= names[n][d])
      BY <1>1, <2>1 DEF Waiting, Entries
    <2> QED
      BY <2>2, <2>3, KahnAssumption
  <1>4. ASSUME \A d \in NodeIds \ P : names[n][d] = 0
        PROVE  a = {}
    <2>1. SUFFICES ASSUME NEW e \in a PROVE FALSE
      OBVIOUS
    <2>2. PICK x \in NodeIds \ P, k \in 1 .. MaxRepeats : e = <<x, k>> /\ k <= names[n][x]
      BY <1>1 DEF Waiting, Entries
    <2> QED
      BY <1>4, <2>2, KahnAssumption
  <1> QED
    BY <1>1, <1>2, <1>3, <1>4

-----------------------------------------------------------------------------
\* A set in order names each of its members once.
LEMMA OrderedOnce ==
  ASSUME NEW S \in SUBSET NodeIds, NEW q \in InOrder(S)
  PROVE  /\ q \in Seq(NodeIds) /\ Len(q) = Cardinality(S)
         /\ \A i, j \in 1 .. Len(q) : q[i] = q[j] => i = j
         /\ {q[i] : i \in 1 .. Len(q)} = S
  <1>1. IsFiniteSet(S) /\ Cardinality(S) \in Nat
    BY NodesAreFinite, FS_Subset, FS_CardinalityType
  <1>2. PICK c \in Nat : c = Cardinality(S)
    BY <1>1
  <1>3. q \in [1 .. c -> S] /\ \A i, j \in 1 .. c : i < j => q[i] < q[j]
    BY <1>2 DEF InOrder
  <1>4. \A i \in 1 .. c : q[i] \in S /\ q[i] \in Nat
    <2>1. S \in SUBSET Nat
      BY KahnAssumption DEF NodeIds
    <2> QED
      BY <1>3, <2>1
  <1>5. ASSUME NEW i \in 1 .. c, NEW j \in 1 .. c, q[i] = q[j]
        PROVE  i = j
    <2>1. ~(q[i] < q[j]) /\ ~(q[j] < q[i])
      BY <1>4, <1>5
    <2>2. ~(i < j) /\ ~(j < i)
      BY <1>3, <2>1
    <2> QED
      BY <2>2
  <1>6. q \in Injection(1 .. c, S)
    BY <1>3, <1>5 DEF Injection, IsInjective
  <1>7. IsFiniteSet(1 .. c) /\ Cardinality(1 .. c) = c
    BY FS_Interval
  <1>8. q \in Surjection(1 .. c, S)
    BY <1>1, <1>2, <1>6, <1>7, FS_Injection
  <1>9. q \in Seq(NodeIds) /\ Len(q) = c
    BY <1>3
  <1> QED
    BY <1>2, <1>4, <1>5, <1>8, <1>9 DEF Surjection

LEMMA KahnInvInit == KahnInit => KahnInv
  <1> SUFFICES ASSUME KahnInit PROVE KahnInv
    OBVIOUS
  <1>1. names \in Definitions
    BY DEF KahnInit
  <1>2. ASSUME NEW n \in NodeIds
        PROVE  /\ indegree[n] = Cardinality(Waiting(n, {})) /\ children[n] = 0
               /\ indegree[n] \in Nat
    <2>1. Waiting(n, {}) = Entries(names, n)
      BY DEF Waiting
    <2> QED
      BY <2>1, WaitingIsFinite DEF KahnInit, DependencyCount
  <1>3. indegree \in [NodeIds -> Nat]
    BY <1>2 DEF KahnInit
  <1>4. children \in [NodeIds -> 0 .. MaxRepeats]
    BY KahnAssumption DEF KahnInit
  <1>5. PICK roots \in SUBSET NodeIds : roots = {n \in NodeIds : indegree[n] = 0}
    OBVIOUS
  <1>6. /\ queue \in Seq(NodeIds)
        /\ \A i, j \in 1 .. Len(queue) : queue[i] = queue[j] => i = j
        /\ Queued = roots
    <2>1. PICK q \in InOrder(roots) : q = queue
      BY <1>5 DEF KahnInit
    <2>2. /\ q \in Seq(NodeIds)
          /\ \A i, j \in 1 .. Len(q) : q[i] = q[j] => i = j
          /\ {q[i] : i \in 1 .. Len(q)} = roots
      BY OrderedOnce
    <2> QED
      BY <2>1, <2>2 DEF Queued
  <1>7. visited = Cardinality({})
    BY FS_EmptySet DEF KahnInit
  <1>8. \A n \in NodeIds : indegree[n] = Cardinality(Waiting(n, {})) + children[n]
    BY <1>2
  <1>9. \A n \in NodeIds : indegree[n] = 0 <=> n \in {} \cup Queued
    BY <1>5, <1>6
  <1>10. Popped({})
    BY <1>6, <1>7, <1>8, <1>9 DEF Popped
  <1> QED
    BY <1>1, <1>3, <1>4, <1>6, <1>10 DEF KahnInv
\* The first of a queue is in it once, the rest stays in its order.
LEMMA HeadAndTail ==
  ASSUME NEW q \in Seq(NodeIds), q # <<>>
  PROVE  /\ Len(q) \in Nat \ {0} /\ Head(q) = q[1] /\ Head(q) \in NodeIds
         /\ Tail(q) \in Seq(NodeIds) /\ Len(Tail(q)) = Len(q) - 1
         /\ \A i \in 1 .. Len(Tail(q)) : i + 1 \in 1 .. Len(q) /\ Tail(q)[i] = q[i + 1]
  OBVIOUS

\* The node popped has nobody left to wait for.
LEMMA PopNodeKeepsKahn ==
  ASSUME KahnInv, PopNode
  PROVE  KahnInv'
  <1>1. PICK P \in SUBSET NodeIds : Popped(P)
    BY DEF KahnInv
  <1>2. PICK q, d : q = queue /\ d = Head(queue)
    OBVIOUS
  <1>3. /\ q \in Seq(NodeIds) /\ q # <<>> /\ queue' = Tail(q)
        /\ names \in Definitions /\ names' = names /\ indegree' = indegree
        /\ visited' = visited + 1 /\ children' = [m \in NodeIds |-> names[m][d]]
        /\ \A m \in NodeIds : children[m] = 0
    BY <1>2 DEF KahnInv, PopNode, Dependents, AllVisited
  <1>4. /\ Len(q) \in Nat \ {0} /\ d = q[1] /\ d \in NodeIds
        /\ Tail(q) \in Seq(NodeIds) /\ Len(Tail(q)) = Len(q) - 1
        /\ \A i \in 1 .. Len(Tail(q)) : i + 1 \in 1 .. Len(q) /\ Tail(q)[i] = q[i + 1]
    BY <1>2, <1>3, HeadAndTail
  <1>5. /\ \A i, j \in 1 .. Len(q) : q[i] = q[j] => i = j
        /\ \A i \in 1 .. Len(q) : q[i] \notin P
    BY <1>1, <1>2 DEF Popped
  <1>6. d \notin P /\ d \in Queued
    BY <1>2, <1>4, <1>5 DEF Queued
  <1>7. PICK more \in SUBSET NodeIds : more = P \cup {d}
    BY <1>4
  <1>8. visited' = Cardinality(more)
    <2>1. IsFiniteSet(P)
      BY NodesAreFinite, FS_Subset
    <2> QED
      BY <1>1, <1>3, <1>6, <1>7, <2>1, FS_AddElement DEF Popped
  <1>9. \A i, j \in 1 .. Len(queue') : queue'[i] = queue'[j] => i = j
    <2>1. SUFFICES ASSUME NEW i \in 1 .. Len(Tail(q)), NEW j \in 1 .. Len(Tail(q)),
                          Tail(q)[i] = Tail(q)[j]
                   PROVE  i = j
      BY <1>3
    <2>2. i + 1 \in 1 .. Len(q) /\ j + 1 \in 1 .. Len(q) /\ q[i + 1] = q[j + 1]
      BY <1>4, <2>1
    <2>3. i + 1 = j + 1 /\ i \in Nat /\ j \in Nat
      BY <1>4, <1>5, <2>2
    <2> QED
      BY <2>3
  <1>10. \A i \in 1 .. Len(queue') : queue'[i] \notin more /\ queue'[i] \in Queued
    <2>1. SUFFICES ASSUME NEW i \in 1 .. Len(Tail(q))
                   PROVE  Tail(q)[i] \notin more /\ Tail(q)[i] \in Queued
      BY <1>3
    <2>2. i \in Nat \ {0} /\ i + 1 \in 1 .. Len(q) /\ 1 \in 1 .. Len(q) /\ Tail(q)[i] = q[i + 1]
      BY <1>4
    <2>3. q[i + 1] # q[1]
      BY <1>5, <2>2
    <2> QED
      BY <1>2, <1>4, <1>5, <1>7, <2>2, <2>3 DEF Queued
  <1>11. more \cup Queued' = P \cup Queued
    <2>1. ASSUME NEW x \in Queued
          PROVE  x \in more \cup Queued'
      <3>1. PICK i \in 1 .. Len(q) : x = q[i]
        BY <1>2 DEF Queued
      <3>2. CASE i = 1
        BY <1>4, <1>7, <3>1, <3>2
      <3>3. CASE i # 1
        <4>1. i - 1 \in 1 .. Len(Tail(q)) /\ (i - 1) + 1 = i
          BY <1>4, <3>3
        <4>2. Tail(q)[i - 1] = q[i]
          BY <1>4, <4>1
        <4> QED
          BY <1>3, <3>1, <4>1, <4>2 DEF Queued
      <3> QED
        BY <3>2, <3>3
    <2>2. \A x \in Queued' : x \in Queued
      BY <1>10 DEF Queued
    <2> QED
      BY <1>6, <1>7, <2>1, <2>2
  <1>12. ASSUME NEW n \in NodeIds
         PROVE  indegree'[n] = Cardinality(Waiting(n, more)') + children'[n]
    <2>1. indegree[n] = Cardinality(Waiting(n, P)) + 0
      BY <1>1, <1>3 DEF Popped
    <2>2. Cardinality(Waiting(n, P)) = Cardinality(Waiting(n, P \cup {d})) + names[n][d]
      BY <1>3, <1>4, <1>6, PoppingTakesItsEntries
    <2>3. Waiting(n, more)' = Waiting(n, P \cup {d})
      BY <1>3, <1>7 DEF Waiting
    <2>4. Cardinality(Waiting(n, P)) \in Nat
      BY WaitingIsFinite
    <2> QED
      BY <1>3, <2>1, <2>2, <2>3, <2>4
  <1>13. \A x \in NodeIds \ P : names[d][x] = 0
    <2>1. indegree[d] = 0 /\ indegree[d] = Cardinality(Waiting(d, P)) + 0
      BY <1>1, <1>3, <1>4, <1>6 DEF Popped
    <2>2. Cardinality(Waiting(d, P)) = 0
      BY <2>1, WaitingIsFinite
    <2> QED
      BY <1>3, <1>4, <2>2, NobodyWaits
  <1>14. \A n \in more : \A x \in NodeIds \ more : names[n][x] = 0
    BY <1>1, <1>7, <1>13 DEF Popped
  <1>15. ASSUME NEW S \in (SUBSET more) \ {{}}
         PROVE  \E n \in S : \A x \in S : names[n][x] = 0
    <2>1. CASE S \in SUBSET P
      BY <1>1, <2>1 DEF Popped
    <2>2. CASE S = {d}
      BY <1>4, <1>6, <1>13, <2>2
    <2>3. CASE S # {d} /\ d \in S
      <3>1. S \ {d} \in (SUBSET P) \ {{}}
        BY <1>7, <2>3
      <3>2. PICK n \in S \ {d} : \A x \in S \ {d} : names[n][x] = 0
        BY <1>1, <3>1 DEF Popped
      <3>3. names[n][d] = 0
        BY <1>1, <1>4, <1>6, <3>1, <3>2 DEF Popped
      <3> QED
        BY <3>2, <3>3
    <2> QED
      BY <1>7, <2>1, <2>2, <2>3
  <1>16. Popped(more)'
    BY <1>1, <1>3, <1>8, <1>9, <1>10, <1>11, <1>12, <1>14, <1>15 DEF Popped
  <1>17. children' \in [NodeIds -> 0 .. MaxRepeats]
    BY <1>3, <1>4 DEF Definitions
  <1> QED
    BY <1>3, <1>4, <1>16, <1>17 DEF KahnInv

\* A child has something left to wait for until it is visited as often as it is named.
LEMMA VisitChildKeepsKahn ==
  ASSUME KahnInv, VisitChild
  PROVE  KahnInv'
  <1>1. PICK P \in SUBSET NodeIds : Popped(P)
    BY DEF KahnInv
  <1>2. PICK c \in NodeIds : c = Min({m \in NodeIds : children[m] > 0}) /\ children[c] > 0
    <2>1. PICK S \in SUBSET NodeIds : S = {m \in NodeIds : children[m] > 0}
      OBVIOUS
    <2>2. S # {}
      BY <2>1, KahnAssumption DEF VisitChild, AllVisited, KahnInv
    <2>3. Min(S) \in S
      BY <2>2, LeastNode
    <2> QED
      BY <2>1, <2>3
  <1>3. PICK q, count : q = queue /\ count = Decremented(indegree[c])
    OBVIOUS
  <1>4. /\ names' = names /\ visited' = visited /\ names \in Definitions
        /\ indegree' = [indegree EXCEPT ![c] = count]
        /\ queue' = IF count = 0 THEN Append(q, c) ELSE q
        /\ children' = [children EXCEPT ![c] = @ - 1]
        /\ q \in Seq(NodeIds) /\ indegree \in [NodeIds -> Nat]
        /\ children \in [NodeIds -> 0 .. MaxRepeats]
    BY <1>2, <1>3 DEF VisitChild, KahnInv
  <1>5. /\ children[c] \in Nat \ {0} /\ children[c] - 1 \in 0 .. MaxRepeats
    BY <1>2, <1>4, KahnAssumption
  <1>6. indegree[c] \in Nat \ {0} /\ count = indegree[c] - 1 /\ count \in Nat
    <2>1. indegree[c] = Cardinality(Waiting(c, P)) + children[c]
      BY <1>1 DEF Popped
    <2>2. Cardinality(Waiting(c, P)) \in Nat
      BY WaitingIsFinite
    <2>3. indegree[c] \in Nat \ {0}
      BY <1>5, <2>1, <2>2
    <2> QED
      BY <1>3, <2>3 DEF Decremented
  <1>7. /\ indegree' \in [NodeIds -> Nat] /\ indegree'[c] = count
        /\ \A n \in NodeIds \ {c} : indegree'[n] = indegree[n]
    BY <1>4, <1>6
  <1>8. /\ children' \in [NodeIds -> 0 .. MaxRepeats] /\ children'[c] = children[c] - 1
        /\ \A n \in NodeIds \ {c} : children'[n] = children[n]
    BY <1>4, <1>5
  <1>9. c \notin P /\ c \notin Queued
    BY <1>1, <1>6 DEF Popped
  <1>10. /\ \A i, j \in 1 .. Len(q) : q[i] = q[j] => i = j
         /\ \A i \in 1 .. Len(q) : q[i] \notin P /\ q[i] # c
    BY <1>1, <1>3, <1>9 DEF Popped, Queued
  <1>11. /\ queue' \in Seq(NodeIds)
         /\ \A i, j \in 1 .. Len(queue') : queue'[i] = queue'[j] => i = j
         /\ \A i \in 1 .. Len(queue') : queue'[i] \notin P
         /\ Queued' = Queued \cup (IF count = 0 THEN {c} ELSE {})
    <2>1. CASE count # 0
      BY <1>3, <1>4, <1>10, <2>1 DEF Queued
    <2>2. CASE count = 0
      <3>1. PICK r : r = Append(q, c)
        OBVIOUS
      <3>2. /\ r \in Seq(NodeIds) /\ Len(r) = Len(q) + 1 /\ Len(q) \in Nat
            /\ r[Len(q) + 1] = c /\ \A i \in 1 .. Len(q) : r[i] = q[i]
        BY <1>4, <3>1
      <3>3. \A i \in 1 .. Len(r) : i = Len(q) + 1 \/ i \in 1 .. Len(q)
        BY <3>2
      <3>4. \A i, j \in 1 .. Len(r) : r[i] = r[j] => i = j
        BY <1>10, <3>2, <3>3
      <3>5. \A i \in 1 .. Len(r) : r[i] \notin P
        BY <1>9, <1>10, <3>2, <3>3
      <3>6. {r[i] : i \in 1 .. Len(r)} = {q[i] : i \in 1 .. Len(q)} \cup {c}
        <4>1. Len(q) + 1 \in 1 .. Len(r) /\ \A i \in 1 .. Len(q) : i \in 1 .. Len(r)
          BY <3>2
        <4> QED
          BY <3>2, <3>3, <4>1
      <3>7. queue' = r
        BY <1>4, <2>2, <3>1
      <3>8. Queued' = Queued \cup {c}
        BY <1>3, <3>6, <3>7 DEF Queued
      <3> QED
        BY <2>2, <3>2, <3>4, <3>5, <3>7, <3>8
    <2> QED
      BY <2>1, <2>2
  <1>12. ASSUME NEW n \in NodeIds
         PROVE  /\ indegree'[n] = Cardinality(Waiting(n, P)') + children'[n]
                /\ indegree'[n] = 0 <=> n \in P \cup Queued'
    <2>1. Waiting(n, P)' = Waiting(n, P)
      BY <1>4 DEF Waiting
    <2>2. indegree[n] = Cardinality(Waiting(n, P)) + children[n]
      BY <1>1 DEF Popped
    <2>3. indegree[n] = 0 <=> n \in P \cup Queued
      BY <1>1 DEF Popped
    <2>4. CASE n = c
      <3>1. Cardinality(Waiting(n, P)) \in Nat
        BY WaitingIsFinite
      <3>2. indegree'[n] = Cardinality(Waiting(n, P)) + children'[n]
        BY <1>5, <1>6, <1>7, <1>8, <2>2, <2>4, <3>1
      <3>3. indegree'[n] = 0 <=> n \in P \cup Queued'
        BY <1>7, <1>9, <1>11, <2>4
      <3> QED
        BY <2>1, <3>2, <3>3
    <2>5. CASE n # c
      BY <1>7, <1>8, <1>11, <2>1, <2>2, <2>3, <2>5
    <2> QED
      BY <2>4, <2>5
  <1>13. /\ visited' = Cardinality(P)
         /\ \A n \in P : \A d \in NodeIds \ P : names'[n][d] = 0
         /\ \A S \in (SUBSET P) \ {{}} : \E n \in S : \A d \in S : names'[n][d] = 0
    <2>1. visited' = Cardinality(P)
      BY <1>1, <1>4 DEF Popped
    <2>2. \A n \in P : \A d \in NodeIds \ P : names'[n][d] = 0
      BY <1>1, <1>4 DEF Popped
    <2>3. \A S \in (SUBSET P) \ {{}} : \E n \in S : \A d \in S : names[n][d] = 0
      BY <1>1 DEF Popped
    <2>4. names' = names
      BY <1>4
    <2>5. \A S \in (SUBSET P) \ {{}} : \E n \in S : \A d \in S : names'[n][d] = 0
      BY <2>3, <2>4
    <2> QED
      BY <2>1, <2>2, <2>5
  <1>14. Popped(P)'
    BY <1>11, <1>12, <1>13 DEF Popped
  <1> QED
    BY <1>4, <1>7, <1>8, <1>11, <1>14 DEF KahnInv

LEMMA KahnInvStep == KahnInv /\ [KahnNext]_kahnVars => KahnInv'
  <1>1. ASSUME KahnInv, UNCHANGED kahnVars
        PROVE  KahnInv'
    <2>1. UNCHANGED <<names, indegree, queue, children, visited>>
      BY <1>1 DEF kahnVars
    <2>2. PICK P \in SUBSET NodeIds : Popped(P)
      BY <1>1 DEF KahnInv
    <2>3. Queued' = Queued /\ \A n \in NodeIds : Waiting(n, P)' = Waiting(n, P)
      BY <2>1 DEF Queued, Waiting
    <2>4. Popped(P)'
      BY <2>1, <2>2, <2>3 DEF Popped
    <2> QED
      BY <1>1, <2>1, <2>4 DEF KahnInv
  <1> QED
    BY <1>1, PopNodeKeepsKahn, VisitChildKeepsKahn DEF KahnNext

\* At the end those that are not popped wait for each other.
LEMMA KahnInvExact == KahnInv => CycleCheckIsExact
  <1> SUFFICES ASSUME KahnInv PROVE CycleCheckIsExact
    OBVIOUS
  <1>1. PICK P \in SUBSET NodeIds : Popped(P)
    BY DEF KahnInv
  <1>2. IsFiniteSet(P) /\ visited = Cardinality(P) /\ Cardinality(P) \in Nat
    BY <1>1, NodesAreFinite, FS_Subset, FS_CardinalityType DEF Popped
  <1>3. Cardinality(P) <= NumNodes /\ (Cardinality(P) = NumNodes => P = NodeIds)
    BY NodesAreFinite, FS_Subset
  <1>4. KahnTypeOK
    BY <1>2, <1>3, KahnAssumption DEF KahnTypeOK, KahnInv
  <1>5. NoNodeTwice
    <2>1. \A i, j \in 1 .. Len(queue) : queue[i] = queue[j] => i = j
      BY <1>1 DEF Popped
    <2>2. PICK q \in Seq(NodeIds), len \in Nat : q = queue /\ len = Len(queue)
      BY DEF KahnInv
    <2>3. PICK rest : rest = NodeIds \ P
      OBVIOUS
    <2>4. q \in [1 .. len -> rest]
      BY <1>1, <2>2, <2>3 DEF Popped
    <2>5. q \in Injection(1 .. len, rest)
      BY <2>1, <2>2, <2>4 DEF Injection, IsInjective
    <2>6. IsFiniteSet(rest) /\ Cardinality(rest) = NumNodes - Cardinality(P)
      <3>1. NodeIds \cap P = P
        OBVIOUS
      <3> QED
        BY <2>3, <3>1, NodesAreFinite, FS_Difference
    <2>7. Cardinality(1 .. len) = len
      BY FS_Interval
    <2>8. len <= NumNodes - Cardinality(P)
      BY <2>5, <2>6, <2>7, FS_Injection
    <2>9. visited + Len(queue) <= NumNodes
      BY <1>2, <2>2, <2>8, KahnAssumption
    <2> QED
      BY <2>1, <2>9 DEF NoNodeTwice
  <1>6. ASSUME Done
        PROVE  DefinitionAccepted <=> IsAcyclic
    <2>1. Queued = {} /\ \A n \in NodeIds : children[n] = 0
      BY <1>6 DEF Done, Queued, AllVisited
    <2>2. DefinitionAccepted <=> P = NodeIds
      BY <1>2, <1>3, NodesAreFinite DEF DefinitionAccepted
    <2>3. ASSUME P = NodeIds PROVE IsAcyclic
      BY <1>1, <2>3 DEF Popped, IsAcyclic
    <2>4. ASSUME P # NodeIds PROVE ~IsAcyclic
      <3>1. NodeIds \ P \in (SUBSET NodeIds) \ {{}}
        BY <2>4
      <3>2. ASSUME NEW n \in NodeIds \ P
            PROVE  \E d \in NodeIds \ P : names[n][d] # 0
        <4>1. indegree[n] # 0 /\ indegree[n] = Cardinality(Waiting(n, P)) + 0
          BY <1>1, <2>1 DEF Popped
        <4>2. Cardinality(Waiting(n, P)) # 0
          BY <4>1, WaitingIsFinite
        <4> QED
          BY <4>2, NobodyWaits DEF KahnInv
      <3> QED
        BY <3>1, <3>2 DEF IsAcyclic
    <2> QED
      BY <2>2, <2>3, <2>4
  <1> QED
    BY <1>4, <1>5, <1>6 DEF CycleCheckIsExact, AcceptsExactlyDags

\* Of any number of nodes that name each other in any way, a name repeated or
\* not, validate refuses exactly those with a cycle.
THEOREM CycleCheckStaysExact == KahnSpec => []CycleCheckIsExact
  BY KahnInvInit, KahnInvStep, KahnInvExact, PTL DEF KahnSpec
=============================================================================
