--------------------------- MODULE ContextPacking ---------------------------
(***************************************************************************)
(* ContextBuilder: packs candidates into a token budget, what is required  *)
(* first, then by priority, relevance and kind.  A step takes the next     *)
(* candidate of the sorted list.                                           *)
(***************************************************************************)
EXTENDS Naturals, FiniteSets, Functions

CONSTANTS
  ContextIds,    \* ids of candidates, numbers in the order of the strings
  Priorities,    \* values of priority
  Relevances,    \* values of relevance
  Kinds,         \* values of kind, in the order of the enum
  Sizes,         \* estimated token counts
  Limits,        \* values of max_tokens
  Reserves,      \* values of reserved_tokens
  MaxCandidates  \* bound: candidates of one package

\* usize, in a list that ends
ASSUME PackingAssumption ==
  IsFiniteSet(ContextIds) /\ Sizes \subseteq Nat /\ Limits \subseteq Nat /\ Reserves \subseteq Nat

VARIABLES
  offered,       \* the candidates given: [a set of ids -> candidate]
  budget,        \* [max, reserved]
  outcome,       \* "building", or how it ended
  pending,       \* the candidates not considered yet
  items,         \* the ids packed
  omitted,       \* the ids left out
  spent          \* used: the tokens packed

packingVars == <<offered, budget, outcome, pending, items, omitted, spent>>

Usable == budget.max - budget.reserved
TokensOf(ids) == SumFunctionOnSet([c \in DOMAIN offered |-> offered[c].tokens], ids)
RequiredOnes == {c \in DOMAIN offered : offered[c].required}

(* The comparison of sort_by.                                              *)
Before(c, d) ==
  LET x == offered[c]  y == offered[d] IN
  \/ x.required /\ ~y.required
  \/ x.required = y.required /\
     \/ x.priority > y.priority
     \/ x.priority = y.priority /\ x.relevance > y.relevance
     \/ x.priority = y.priority /\ x.relevance = y.relevance /\ x.kind < y.kind
     \/ x.priority = y.priority /\ x.relevance = y.relevance /\ x.kind = y.kind /\ c < d

RejectBudget ==
  /\ outcome = "start" /\ (budget.max = 0 \/ budget.reserved >= budget.max)
  /\ outcome' = "invalid_budget"
  /\ UNCHANGED <<offered, budget, pending, items, omitted, spent>>

RequiredFit == TokensOf(RequiredOnes) <= Usable

StartPacking ==
  /\ outcome = "start" /\ budget.reserved < budget.max
  /\ outcome' = IF RequiredFit THEN "building" ELSE "required_overflow"
  /\ UNCHANGED <<offered, budget, pending, items, omitted, spent>>

(* Fault: one token is kept back.                                          *)
FitsWithRoom(c) == offered[c].required \/ spent + offered[c].tokens < Usable

Fits(c) == offered[c].required \/ spent + offered[c].tokens <= Usable

Consider(c) ==
  /\ outcome = "building" /\ c \in pending
  /\ \A d \in pending \ {c} : Before(c, d)
  /\ pending' = pending \ {c}
  /\ IF Fits(c)
     THEN items' = items \cup {c} /\ spent' = spent + offered[c].tokens /\ UNCHANGED omitted
     ELSE omitted' = omitted \cup {c} /\ UNCHANGED <<items, spent>>
  /\ UNCHANGED <<offered, budget, outcome>>

(* ContextCandidate.                                                       *)
ContextCandidates ==
  [required : BOOLEAN, priority : Priorities, relevance : Relevances, kind : Kinds,
   tokens : Sizes]

PackingInit ==
  /\ \E ids \in SUBSET ContextIds :
       Cardinality(ids) <= MaxCandidates /\ offered \in [ids -> ContextCandidates]
  /\ budget \in [max : Limits, reserved : Reserves]
  /\ outcome = "start" /\ pending = DOMAIN offered
  /\ items = {} /\ omitted = {} /\ spent = 0

PackingNext ==
  \/ RejectBudget
  \/ StartPacking
  \/ \E c \in ContextIds : Consider(c)

PackingSpec == PackingInit /\ [][PackingNext]_packingVars

-----------------------------------------------------------------------------
PackingTypeOK ==
  /\ outcome \in {"start", "building", "invalid_budget", "required_overflow"}
  /\ pending \cup items \cup omitted = DOMAIN offered
  /\ Cardinality(pending) + Cardinality(items) + Cardinality(omitted) = Cardinality(DOMAIN offered)
  /\ spent = TokensOf(items)

(* A package never takes more tokens than its budget leaves, although      *)
(* required candidates are packed without asking: it rests on their being  *)
(* first in the list, and on the sum that was compared before.             *)
BudgetIsKept == outcome = "building" => spent + budget.reserved <= budget.max

(* What was left out does not fit into the finished package either, and    *)
(* it was left out for candidates that come before it.                     *)
OmissionsWereNeeded ==
  outcome = "building" =>
    \A c \in omitted :
      /\ ~offered[c].required
      /\ spent + offered[c].tokens > Usable
      /\ TokensOf({d \in items : Before(d, c)}) + offered[c].tokens > Usable

(* A package is as full as its order of preference allows and no fuller.   *)
PackagesAreTight == PackingTypeOK /\ BudgetIsKept /\ OmissionsWereNeeded
=============================================================================
