--------------------------- MODULE KahnValidation ---------------------------
(***************************************************************************)
(* The cycle check of WorkflowDefinition::validate, as it runs: Kahn's     *)
(* algorithm with in-degrees counted from dependency lists, which may name *)
(* a dependency more than once.  The ids have been found to be unique, the *)
(* dependencies to exist and not to be the node itself.                    *)
(***************************************************************************)
EXTENDS Naturals, Sequences, FiniteSets, FiniteSetsExt

CONSTANTS NumNodes,   \* nodes are 1 .. NumNodes, in id and definition order
          MaxRepeats  \* bound on how often a list names one dependency

ASSUME KahnAssumption == NumNodes \in Nat \ {0} /\ MaxRepeats \in Nat

VARIABLES names,     \* names[n][d]: how often the list of n names d
          indegree,  \* indegree map
          queue,     \* queue of nodes with in-degree zero
          children,  \* dependents of the node popped last, still to visit: how
                     \* often each is in the rest of that list
          visited    \* number of nodes popped

kahnVars == <<names, indegree, queue, children, visited>>

NodeIds == 1 .. NumNodes

Definitions == {f \in [NodeIds -> [NodeIds -> 0 .. MaxRepeats]] :
                    \A n \in NodeIds : f[n][n] = 0}

\* node.dependencies: the list of n names d for the k-th time.
Entries(f, n) == {e \in NodeIds \X (1 .. MaxRepeats) : e[2] <= f[n][e[1]]}

DependencyCount(f, n) == Cardinality(Entries(f, n))

KahnTypeOK == /\ names \in Definitions
              /\ indegree \in [NodeIds -> Nat]
              /\ queue \in Seq(NodeIds)
              /\ children \in [NodeIds -> 0 .. MaxRepeats]
              /\ visited \in 0 .. NumNodes

\* The map of in-degrees is read in the order of its keys.
InOrder(S) == {q \in [1 .. Cardinality(S) -> S] :
                   \A i, j \in 1 .. Cardinality(S) : i < j => q[i] < q[j]}

KahnInit == /\ names \in Definitions
            /\ indegree = [n \in NodeIds |-> DependencyCount(names, n)]
            /\ queue \in InOrder({n \in NodeIds : indegree[n] = 0})
            /\ children = [n \in NodeIds |-> 0]
            /\ visited = 0

\* Fault: a dependent is listed once.
DependentsOnce(n) == [m \in NodeIds |-> IF names[m][n] > 0 THEN 1 ELSE 0]

\* dependents[n], which holds m once for each time m names n.
Dependents(n) == [m \in NodeIds |-> names[m][n]]

AllVisited == \A m \in NodeIds : children[m] = 0

PopNode == /\ AllVisited /\ queue # <<>>
           /\ visited' = visited + 1
           /\ children' = Dependents(Head(queue))
           /\ queue' = Tail(queue)
           /\ UNCHANGED <<names, indegree>>

\* saturating_sub
Decremented(i) == IF i = 0 THEN 0 ELSE i - 1

\* The list of dependents was filled node by node.
VisitChild == /\ ~AllVisited
              /\ LET child == Min({m \in NodeIds : children[m] > 0})
                     count == Decremented(indegree[child])
                 IN  /\ indegree' = [indegree EXCEPT ![child] = count]
                     /\ queue' = IF count = 0 THEN Append(queue, child) ELSE queue
                     /\ children' = [children EXCEPT ![child] = @ - 1]
              /\ UNCHANGED <<names, visited>>

KahnNext == PopNode \/ VisitChild

KahnSpec == KahnInit /\ [][KahnNext]_kahnVars

-----------------------------------------------------------------------------
(* Properties *)

Done == queue = <<>> /\ AllVisited

DefinitionAccepted == visited = NumNodes

\* Reference: in a DAG every set of nodes has one without dependencies in it.
IsAcyclic ==
    \A S \in (SUBSET NodeIds) \ {{}} :
        \E n \in S : \A d \in S : names[n][d] = 0

(***************************************************************************)
(* validate accepts exactly the acyclic graphs, also when dependency lists *)
(* repeat a node.                                                          *)
(***************************************************************************)
AcceptsExactlyDags == Done => (DefinitionAccepted <=> IsAcyclic)

\* No node is popped twice, so the count of visits is a count of nodes.
NoNodeTwice ==
    /\ \A i, j \in 1 .. Len(queue) : queue[i] = queue[j] => i = j
    /\ visited + Len(queue) <= NumNodes

(***************************************************************************)
(* The cycle check is right: it pops no node twice, and what it accepts    *)
(* when it ends are the acyclic graphs (WorkflowDefinition::validate).     *)
(***************************************************************************)
CycleCheckIsExact == KahnTypeOK /\ NoNodeTwice /\ AcceptsExactlyDags
=============================================================================
