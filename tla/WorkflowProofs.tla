---------------------------- MODULE WorkflowProofs ---------------------------
(***************************************************************************)
(* Lemmas about the transitions of Workflow: what complete_node, fail_node *)
(* and decide_approval do to their node and to the others, and that they   *)
(* read and write the nodes of one workflow only.                          *)
(***************************************************************************)
EXTENDS Workflow, TLAPS

-----------------------------------------------------------------------------
(* Transitions of a workflow *)

\* From ns to t, nodes other than n change only by becoming available.
OthersOnlyWake(ns, t, n) ==
    \A m \in Nodes \ {n} :
        \/ t[m] = ns[m]
        \/ /\ ns[m].status = "pending"
           /\ t[m].status \in {"ready", "waiting_approval"}
           /\ t[m].attempts = ns[m].attempts
           /\ t[m].owner = ns[m].owner

\* Refreshing keeps the type, and changes pending nodes only, by waking them.
LEMMA RefreshWakes ==
    ASSUME NEW ns \in [Nodes -> NodeStates], NEW w
    PROVE  LET t == RefreshReadyNodes(ns, w)
           IN  /\ t \in [Nodes -> NodeStates]
               /\ \A m \in Nodes :
                    \/ t[m] = ns[m]
                    \/ /\ ns[m].status = "pending"
                       /\ t[m].status \in {"ready", "waiting_approval"}
                       /\ t[m].attempts = ns[m].attempts
                       /\ t[m].owner = ns[m].owner
  BY DEF RefreshReadyNodes, NodeStates, NodeStatuses, EnabledStatus

\* complete_node ends node n and can only wake other nodes.
LEMMA CompletedEffect ==
    ASSUME NEW ns \in [Nodes -> NodeStates], NEW n \in Nodes,
           NEW t, t = Completed(ns, n)
    PROVE  /\ t \in [Nodes -> NodeStates]
           /\ t[n].status = "succeeded"
           /\ t[n].attempts = ns[n].attempts
           /\ OthersOnlyWake(ns, t, n)
  <1> DEFINE s == [ns EXCEPT ![n].status = "succeeded", ![n].owner = NoOwner]
  <1>1. /\ s \in [Nodes -> NodeStates]
        /\ s[n] = [status |-> "succeeded", attempts |-> ns[n].attempts,
                   owner |-> NoOwner]
        /\ \A m \in Nodes \ {n} : s[m] = ns[m]
    BY DEF NodeStates, NodeStatuses
  <1> HIDE DEF s
  <1>2. Completed(ns, n) = RefreshReadyNodes(s, WorkflowOf[n])
    BY DEF Completed, s
  <1>. QED
    BY <1>1, <1>2, RefreshWakes DEF OthersOnlyWake

\* decide_approval settles node n and can only wake other nodes.
LEMMA DecidedEffect ==
    ASSUME NEW ns \in [Nodes -> NodeStates], NEW n \in Nodes, NEW ok \in BOOLEAN,
           NEW t, t = Decided(ns, n, ok)
    PROVE  /\ t \in [Nodes -> NodeStates]
           /\ t[n].status \in {"succeeded", "failed"}
           /\ t[n].attempts = ns[n].attempts
           /\ OthersOnlyWake(ns, t, n)
  <1> DEFINE s == [ns EXCEPT ![n].status = IF ok THEN "succeeded" ELSE "failed"]
  <1>1. /\ s \in [Nodes -> NodeStates]
        /\ s[n].status \in {"succeeded", "failed"}
        /\ s[n].attempts = ns[n].attempts
        /\ \A m \in Nodes \ {n} : s[m] = ns[m]
    BY DEF NodeStates, NodeStatuses
  <1> HIDE DEF s
  <1>2. Decided(ns, n, ok) = RefreshReadyNodes(s, WorkflowOf[n])
    BY DEF Decided, s
  <1>. QED
    BY <1>1, <1>2, RefreshWakes DEF OthersOnlyWake

\* fail_node makes n ready again exactly while attempts remain, else failed,
\* and can only wake other nodes.
LEMMA FailedEffect ==
    ASSUME NEW ns \in [Nodes -> NodeStates], NEW n \in Nodes,
           NEW t, t = FailedOrRetried(ns, n)
    PROVE  /\ t \in [Nodes -> NodeStates]
           /\ t[n].status \in {"ready", "failed"}
           /\ t[n].status = "ready" => Retries(ns, n)
           /\ t[n].attempts = ns[n].attempts
           /\ OthersOnlyWake(ns, t, n)
  <1> DEFINE over(s) == [ns EXCEPT ![n].status = s, ![n].owner = NoOwner]
             f == FallbackActivated(over("failed"), n)
  <1>1. ASSUME NEW s \in {"ready", "failed"}
        PROVE  /\ over(s) \in [Nodes -> NodeStates]
               /\ over(s)[n] = [status |-> s, attempts |-> ns[n].attempts,
                                owner |-> NoOwner]
               /\ \A m \in Nodes \ {n} : over(s)[m] = ns[m]
    BY DEF NodeStates, NodeStatuses
  <1>2. CASE Retries(ns, n)
    <2>1. FailedOrRetried(ns, n) = over("ready")
      BY <1>2 DEF FailedOrRetried
    <2>. QED
      BY <1>1, <1>2, <2>1 DEF OthersOnlyWake
  <1>3. CASE ~Retries(ns, n)
    <2>1. FailedOrRetried(ns, n) = RefreshReadyNodes(f, WorkflowOf[n])
      BY <1>3 DEF FailedOrRetried
    <2>2. /\ f \in [Nodes -> NodeStates]
          /\ f[n] = [status |-> "failed", attempts |-> ns[n].attempts,
                     owner |-> NoOwner]
          /\ OthersOnlyWake(ns, f, n)
      <3> DEFINE o == over("failed")
      <3>1. /\ o \in [Nodes -> NodeStates]
            /\ o[n] = [status |-> "failed", attempts |-> ns[n].attempts,
                       owner |-> NoOwner]
            /\ \A m \in Nodes \ {n} : o[m] = ns[m]
        BY <1>1
      <3> HIDE DEF o
      <3>2. f = [m \in Nodes |-> IF m \in Fallback[n] /\ o[m].status = "pending"
                                 THEN [o[m] EXCEPT !.status = "ready"] ELSE o[m]]
        BY DEF FallbackActivated, o
      <3> HIDE DEF f
      <3>. QED
        BY <3>1, <3>2 DEF OthersOnlyWake, NodeStates, NodeStatuses
    <2> HIDE DEF f
    <2>. QED
      BY <1>3, <2>1, <2>2, RefreshWakes DEF OthersOnlyWake
  <1>. QED BY <1>2, <1>3

\* The statuses a transition can leave its workflow in.
LEMMA StatusesInRange ==
    ASSUME NEW ns, NEW n, NEW ok \in BOOLEAN
    PROVE  /\ StatusAfterSuccess(ns, n) \in WorkflowStatuses
           /\ StatusAfterFailure(ns, n) \in WorkflowStatuses
           /\ StatusAfterDecision(ns, n, ok) \in WorkflowStatuses
  BY DEF StatusAfterSuccess, StatusAfterFailure, StatusAfterDecision, WorkflowStatuses

-----------------------------------------------------------------------------
(* Transitions stay within a workflow *)

\* Two node state functions that agree on the nodes of workflow w.
SameIn(w, ns, t) == \A m \in NodesOf(w) : t[m] = ns[m]

\* Refreshing w changes no other workflow, and reads no other.
LEMMA RefreshLocal ==
    ASSUME NEW ns \in [Nodes -> NodeStates], NEW os \in [Nodes -> NodeStates],
           NEW w, SameIn(w, ns, os)
    PROVE  /\ \A m \in Nodes \ NodesOf(w) : RefreshReadyNodes(ns, w)[m] = ns[m]
           /\ SameIn(w, RefreshReadyNodes(ns, w), RefreshReadyNodes(os, w))
  <1>1. \A m \in Nodes \ NodesOf(w) : RefreshReadyNodes(ns, w)[m] = ns[m]
    BY DEF RefreshReadyNodes, NodesOf
  <1>2. \A m \in NodesOf(w) : \A d \in Deps[m] : d \in NodesOf(w)
    BY WorkflowAssumption DEF NodesOf
  <1>3. \A m \in NodesOf(w) : DependenciesSatisfied(ns, m) <=> DependenciesSatisfied(os, m)
    BY <1>2 DEF DependenciesSatisfied, SatisfiesDependency, SameIn
  <1>4. \A m \in NodesOf(w) : RefreshReadyNodes(ns, w)[m] = RefreshReadyNodes(os, w)[m]
    BY <1>3 DEF RefreshReadyNodes, SameIn, NodesOf
  <1>. QED BY <1>1, <1>4 DEF SameIn

\* t follows ns within n's workflow, as u follows os.
Local(n, ns, os, t, u) ==
    /\ t \in [Nodes -> NodeStates] /\ u \in [Nodes -> NodeStates]
    /\ SameIn(WorkflowOf[n], t, u)
    /\ \A m \in Nodes \ NodesOf(WorkflowOf[n]) : t[m] = ns[m]

\* Node n changes alike in both functions, and nothing else.
LEMMA ChangeLocal ==
    ASSUME NEW ns \in [Nodes -> NodeStates], NEW os \in [Nodes -> NodeStates],
           NEW s \in [Nodes -> NodeStates], NEW r \in [Nodes -> NodeStates],
           NEW n \in Nodes, SameIn(WorkflowOf[n], ns, os), s[n] = r[n],
           \A m \in Nodes \ {n} : s[m] = ns[m] /\ r[m] = os[m]
    PROVE  Local(n, ns, os, s, r)
  <1>1. \A m \in NodesOf(WorkflowOf[n]) : m \in Nodes /\ os[m] = ns[m]
    BY DEF SameIn, NodesOf
  <1>2. SameIn(WorkflowOf[n], s, r)
    BY <1>1 DEF SameIn
  <1>3. \A m \in Nodes \ NodesOf(WorkflowOf[n]) : s[m] = ns[m]
    BY DEF NodesOf
  <1>. QED BY <1>2, <1>3 DEF Local

\* Refreshing afterwards.
LEMMA ThenRefreshed ==
    ASSUME NEW ns \in [Nodes -> NodeStates], NEW os \in [Nodes -> NodeStates],
           NEW s, NEW r, NEW n \in Nodes, Local(n, ns, os, s, r)
    PROVE  Local(n, ns, os, RefreshReadyNodes(s, WorkflowOf[n]),
                            RefreshReadyNodes(r, WorkflowOf[n]))
  <1> DEFINE w == WorkflowOf[n]
  <1>1. /\ s \in [Nodes -> NodeStates] /\ r \in [Nodes -> NodeStates]
        /\ SameIn(w, s, r)
        /\ \A m \in Nodes \ NodesOf(w) : s[m] = ns[m]
    BY DEF Local
  <1> HIDE DEF w
  <1>2. /\ RefreshReadyNodes(s, w) \in [Nodes -> NodeStates]
        /\ RefreshReadyNodes(r, w) \in [Nodes -> NodeStates]
    BY <1>1, RefreshWakes
  <1>3. /\ SameIn(w, RefreshReadyNodes(s, w), RefreshReadyNodes(r, w))
        /\ \A m \in Nodes \ NodesOf(w) : RefreshReadyNodes(s, w)[m] = s[m]
    BY <1>1, RefreshLocal
  <1>. QED BY <1>1, <1>2, <1>3 DEF Local, w

\* Node n ends, or is ready again.
Ending(f, n, st) == [f EXCEPT ![n].status = st, ![n].owner = NoOwner]

\* That writes one node.
LEMMA EndWritten ==
    ASSUME NEW f \in [Nodes -> NodeStates], NEW n \in Nodes, NEW st \in NodeStatuses
    PROVE  /\ Ending(f, n, st) \in [Nodes -> NodeStates]
           /\ Ending(f, n, st)[n] = [status |-> st, attempts |-> f[n].attempts, owner |-> NoOwner]
           /\ \A m \in Nodes \ {n} : Ending(f, n, st)[m] = f[m]
  BY DEF Ending, NodeStates, NodeStatuses

\* In both functions alike.
LEMMA EndingLocal ==
    ASSUME NEW ns \in [Nodes -> NodeStates], NEW os \in [Nodes -> NodeStates],
           NEW n \in Nodes, SameIn(WorkflowOf[n], ns, os), NEW st \in NodeStatuses
    PROVE  Local(n, ns, os, Ending(ns, n, st), Ending(os, n, st))
  <1>1. os[n] = ns[n]
    BY DEF NodesOf, SameIn
  <1> DEFINE s == Ending(ns, n, st)
             r == Ending(os, n, st)
  <1>2. /\ s \in [Nodes -> NodeStates]
        /\ s[n] = [status |-> st, attempts |-> ns[n].attempts, owner |-> NoOwner]
        /\ \A m \in Nodes \ {n} : s[m] = ns[m]
    BY EndWritten
  <1>3. /\ r \in [Nodes -> NodeStates]
        /\ r[n] = [status |-> st, attempts |-> os[n].attempts, owner |-> NoOwner]
        /\ \A m \in Nodes \ {n} : r[m] = os[m]
    BY EndWritten
  <1> HIDE DEF s, r
  <1>4. Local(n, ns, os, s, r)
    BY <1>1, <1>2, <1>3, ChangeLocal
  <1>. QED BY <1>4 DEF s, r

\* Starting, completing and deciding read and write the nodes of one workflow.
LEMMA TransitionsLocal ==
    ASSUME NEW ns \in [Nodes -> NodeStates], NEW os \in [Nodes -> NodeStates],
           NEW n \in Nodes, SameIn(WorkflowOf[n], ns, os)
    PROVE  /\ \A o \in Owners : ns[n].attempts < 100 =>
                  Local(n, ns, os, Started(ns, n, o), Started(os, n, o))
           /\ Local(n, ns, os, Completed(ns, n), Completed(os, n))
           /\ \A ok \in BOOLEAN : Local(n, ns, os, Decided(ns, n, ok), Decided(os, n, ok))
  <1>1. os[n] = ns[n] /\ ns[n].attempts \in 0 .. 100
    BY DEF NodesOf, SameIn, NodeStates
  <1>2. ASSUME NEW o \in Owners, ns[n].attempts < 100
        PROVE  Local(n, ns, os, Started(ns, n, o), Started(os, n, o))
    <2> DEFINE k == ns[n].attempts + 1
               s == [ns EXCEPT ![n] = [status |-> "running", attempts |-> k, owner |-> o]]
               r == [os EXCEPT ![n] = [status |-> "running", attempts |-> k, owner |-> o]]
    <2>1. k \in 0 .. 100
      BY <1>1, <1>2
    <2>2. Started(ns, n, o) = s /\ Started(os, n, o) = r
      BY <1>1 DEF Started
    <2> HIDE DEF k
    <2>3. /\ s \in [Nodes -> NodeStates] /\ r \in [Nodes -> NodeStates] /\ s[n] = r[n]
          /\ \A m \in Nodes \ {n} : s[m] = ns[m] /\ r[m] = os[m]
      BY <2>1 DEF NodeStates, NodeStatuses
    <2> HIDE DEF s, r
    <2>. QED BY <2>2, <2>3, ChangeLocal
  <1>3. Local(n, ns, os, Completed(ns, n), Completed(os, n))
    <2>1. /\ Completed(ns, n) = RefreshReadyNodes(Ending(ns, n, "succeeded"), WorkflowOf[n])
          /\ Completed(os, n) = RefreshReadyNodes(Ending(os, n, "succeeded"), WorkflowOf[n])
      BY DEF Completed, Ending
    <2>2. "succeeded" \in NodeStatuses
      BY DEF NodeStatuses
    <2>. QED BY <2>1, <2>2, EndingLocal, ThenRefreshed
  <1>4. ASSUME NEW ok \in BOOLEAN
        PROVE  Local(n, ns, os, Decided(ns, n, ok), Decided(os, n, ok))
    <2> DEFINE s == [ns EXCEPT ![n].status = IF ok THEN "succeeded" ELSE "failed"]
               r == [os EXCEPT ![n].status = IF ok THEN "succeeded" ELSE "failed"]
    <2> DEFINE x == [status |-> IF ok THEN "succeeded" ELSE "failed", attempts |-> ns[n].attempts, owner |-> ns[n].owner]
    <2>3. /\ s \in [Nodes -> NodeStates] /\ s[n] = x
          /\ \A m \in Nodes \ {n} : s[m] = ns[m]
      BY DEF NodeStates, NodeStatuses
    <2>4. /\ r \in [Nodes -> NodeStates] /\ r[n] = x
          /\ \A m \in Nodes \ {n} : r[m] = os[m]
      BY <1>1 DEF NodeStates, NodeStatuses
    <2>1. /\ s \in [Nodes -> NodeStates] /\ r \in [Nodes -> NodeStates] /\ s[n] = r[n]
          /\ \A m \in Nodes \ {n} : s[m] = ns[m] /\ r[m] = os[m]
      BY <2>3, <2>4
    <2>2. /\ Decided(ns, n, ok) = RefreshReadyNodes(s, WorkflowOf[n])
          /\ Decided(os, n, ok) = RefreshReadyNodes(r, WorkflowOf[n])
      BY DEF Decided
    <2> HIDE DEF s, r
    <2>5. Local(n, ns, os, s, r)
      BY <2>1, ChangeLocal
    <2>. QED BY <2>2, <2>5, ThenRefreshed
  <1>. QED BY <1>2, <1>3, <1>4

\* So does failing, as a fallback is of the same workflow.
LEMMA FailureLocal ==
    ASSUME NEW ns \in [Nodes -> NodeStates], NEW os \in [Nodes -> NodeStates],
           NEW n \in Nodes, SameIn(WorkflowOf[n], ns, os)
    PROVE  Local(n, ns, os, FailedOrRetried(ns, n), FailedOrRetried(os, n))
  <1> DEFINE w == WorkflowOf[n]
  <1>1. os[n] = ns[n] /\ (Retries(ns, n) <=> Retries(os, n))
    BY DEF NodesOf, SameIn, Retries
  <1>2. "ready" \in NodeStatuses /\ "failed" \in NodeStatuses
    BY DEF NodeStatuses
  <1>3. CASE Retries(ns, n)
    <2>1. /\ FailedOrRetried(ns, n) = Ending(ns, n, "ready")
          /\ FailedOrRetried(os, n) = Ending(os, n, "ready")
      BY <1>1, <1>3 DEF FailedOrRetried, Ending
    <2>. QED BY <2>1, <1>2, EndingLocal
  <1>4. CASE ~Retries(ns, n)
    <2> DEFINE o == Ending(ns, n, "failed")
               q == Ending(os, n, "failed")
               f == FallbackActivated(o, n)
               g == FallbackActivated(q, n)
    <2>1. /\ FailedOrRetried(ns, n) = RefreshReadyNodes(f, w)
          /\ FailedOrRetried(os, n) = RefreshReadyNodes(g, w)
      BY <1>1, <1>4 DEF FailedOrRetried, Ending
    <2>2. Local(n, ns, os, o, q)
      BY <1>2, EndingLocal
    <2> HIDE DEF o, q
    <2>3. /\ o \in [Nodes -> NodeStates] /\ q \in [Nodes -> NodeStates]
          /\ \A m \in NodesOf(w) : q[m] = o[m]
          /\ \A m \in Nodes \ NodesOf(w) : o[m] = ns[m]
      BY <2>2 DEF Local, SameIn
    <2>4. /\ f = [m \in Nodes |-> IF m \in Fallback[n] /\ o[m].status = "pending"
                                   THEN [o[m] EXCEPT !.status = "ready"] ELSE o[m]]
          /\ g = [m \in Nodes |-> IF m \in Fallback[n] /\ q[m].status = "pending"
                                   THEN [q[m] EXCEPT !.status = "ready"] ELSE q[m]]
      BY DEF FallbackActivated
    <2> HIDE DEF f, g
    <2>5. f \in [Nodes -> NodeStates] /\ g \in [Nodes -> NodeStates]
      BY <2>3, <2>4 DEF NodeStates, NodeStatuses
    <2>6. \A m \in NodesOf(w) : m \in Nodes /\ g[m] = f[m]
      BY <2>3, <2>4 DEF NodesOf
    <2>7. \A m \in Fallback[n] : m \in NodesOf(w)
      BY WorkflowAssumption DEF NodesOf
    <2>8. \A m \in Nodes \ NodesOf(w) : f[m] = ns[m]
      BY <2>3, <2>4, <2>7
    <2>9. Local(n, ns, os, f, g)
      BY <2>5, <2>6, <2>8 DEF Local, SameIn
    <2>. QED BY <2>1, <2>9, ThenRefreshed
  <1>. QED BY <1>3, <1>4

\* The status a transition leaves its workflow in depends on its nodes only.
LEMMA StatusesLocal ==
    ASSUME NEW ns, NEW os, NEW n \in Nodes, NEW ok \in BOOLEAN,
           SameIn(WorkflowOf[n], ns, os)
    PROVE  /\ StatusAfterSuccess(ns, n) = StatusAfterSuccess(os, n)
           /\ StatusAfterFailure(ns, n) = StatusAfterFailure(os, n)
           /\ StatusAfterDecision(ns, n, ok) = StatusAfterDecision(os, n, ok)
  <1>1. IsSuccessfullyComplete(ns, WorkflowOf[n]) <=> IsSuccessfullyComplete(os, WorkflowOf[n])
    BY DEF IsSuccessfullyComplete, SatisfiesDependency, SameIn
  <1>2. HasRecoverableWork(ns, WorkflowOf[n]) <=> HasRecoverableWork(os, WorkflowOf[n])
    BY DEF HasRecoverableWork, SameIn
  <1>3. os[n] = ns[n]
    BY DEF SameIn, NodesOf
  <1>. QED BY <1>1, <1>2, <1>3
           DEF StatusAfterSuccess, StatusAfterFailure, StatusAfterDecision
=============================================================================
