---------------------------- MODULE ServiceProofs ---------------------------
(***************************************************************************)
(* Proofs about the services of the hosted product, which share no state:  *)
(* the leases and task claims in PostgreSQL, a tenant's quota, the tool    *)
(* gateway, the knowledge records, billing, the certification of releases  *)
(* and providers, and the context an agent is given.                       *)
(***************************************************************************)
EXTENDS PostgresLocks, Tenancy, ToolGateway, Knowledge, Billing, Certification,
        AgentContext, SequenceTheorems, FiniteSetTheorems, WellFoundedInduction, TLAPS

-----------------------------------------------------------------------------
(* Task claims *)

\* Tokens in the table and with Runtimes were issued, and name one claim; a
\* task has one row; a claim nobody may overtake yet is the task's row.
ClaimsInv ==
  /\ clock \in Nat /\ claimTokens \in Nat
  /\ \A c \in taskRows \cup taskClaims : c.token \in Nat /\ c.token <= claimTokens
  /\ taskRows \subseteq [task : Tasks, owner : Holders, token : Nat, expires : Nat]
  /\ taskClaims \subseteq [task : Tasks, owner : Holders, token : Nat, expires : Nat]
  /\ \A c, d \in taskRows \cup taskClaims : c.token = d.token => c = d
  /\ TasksHaveOneHolder

\* claim_task gives a token nobody had; a release takes its own claim's row only.
LEMMA ClaimsInvStep == ClaimsInv /\ [PgNext]_pgVars => ClaimsInv'
  <1> SUFFICES ASSUME ClaimsInv, [PgNext]_pgVars PROVE ClaimsInv'
    OBVIOUS
  <1> USE DelayAssumption
  <1>1. CASE UNCHANGED <<clock, taskVars>>
    BY <1>1 DEF ClaimsInv, taskVars, TasksHaveOneHolder
  <1>2. CASE ClockTicks
    BY <1>2 DEF ClockTicks, ClaimsInv, taskVars, TasksHaveOneHolder
  <1>3. ASSUME NEW t \in PgReadings, NEW task \in Tasks, NEW o \in Holders,
               ClaimTask(task, o, t)
        PROVE  ClaimsInv'
    <2> DEFINE claim == [task |-> task, owner |-> o, token |-> claimTokens + 1,
                         expires |-> t + LongestTtl]
    <2>1. /\ taskRows' = {c \in taskRows : c.task # task} \cup {claim}
          /\ taskClaims' = taskClaims \cup {claim}
          /\ claimTokens' = claimTokens + 1 /\ clock' = clock
          /\ \A c \in taskRows : c.task = task => c.expires < clock
      BY <1>3 DEF ClaimTask
    <2>2. t + LongestTtl \in Nat /\ claimTokens + 1 \in Nat
      BY DEF ClaimsInv, PgReadings
    <2>3. /\ claim \in [task : Tasks, owner : Holders, token : Nat, expires : Nat]
          /\ claim.task = task /\ claim.token = claimTokens + 1
      BY <2>2
    <2>4. \A c \in taskRows \cup taskClaims : c.token # claimTokens + 1 /\ c.token <= claimTokens + 1
      BY DEF ClaimsInv
    <2> HIDE DEF claim
    <2>5. /\ \A c, d \in taskRows' \cup taskClaims' : c.token = d.token => c = d
          /\ \A c \in taskRows' \cup taskClaims' : c.token \in Nat /\ c.token <= claimTokens'
      BY <2>1, <2>2, <2>3, <2>4 DEF ClaimsInv
    <2>6. \A c \in taskClaims' : c.expires > clock' => c \in taskRows'
      BY <2>1, <2>3 DEF ClaimsInv, TasksHaveOneHolder
    <2>7. \A c, d \in taskRows' : c.task = d.task => c = d
      BY <2>1, <2>3 DEF ClaimsInv, TasksHaveOneHolder
    <2>. QED BY <2>1, <2>2, <2>3, <2>5, <2>6, <2>7 DEF ClaimsInv, TasksHaveOneHolder
  <1>4. ASSUME NEW claim \in taskClaims, ReleaseTaskClaim(claim)
        PROVE  ClaimsInv'
    <2>1. /\ taskRows' \subseteq taskRows
          /\ taskClaims' = taskClaims \ {claim}
          /\ UNCHANGED <<clock, claimTokens>>
          /\ \A c \in taskRows : c \notin taskRows' => c.token = claim.token
      BY <1>4 DEF ReleaseTaskClaim, SameClaim
    <2>2. \A c \in taskClaims' : c.expires > clock' => c \in taskRows'
      BY <2>1 DEF ClaimsInv, TasksHaveOneHolder
    <2>. QED BY <2>1, <2>2 DEF ClaimsInv, TasksHaveOneHolder
  <1>5. ASSUME NEW q, NEW ttl, NEW t, AcquireLease(q, ttl, t)
        PROVE  UNCHANGED <<clock, taskVars>>
    BY <1>5, Zenon DEF AcquireLease
  <1>6. ASSUME NEW g, NEW ttl, NEW t, HeartbeatLease(g, ttl, t)
        PROVE  UNCHANGED <<clock, taskVars>>
    BY <1>6, Zenon DEF HeartbeatLease
  <1>7. ASSUME NEW g, ReleaseLease(g)
        PROVE  UNCHANGED <<clock, taskVars>>
    BY <1>7, Zenon DEF ReleaseLease
  <1>8. CASE UNCHANGED pgVars
    BY <1>1, <1>8 DEF pgVars
  <1>. QED BY <1>1, <1>2, <1>3, <1>4, <1>5, <1>6, <1>7, <1>8, Zenon DEF PgNext

\* A Runtime that holds an unexpired task claim is the only one, however late
\* others release theirs and however late clocks are read.
THEOREM TasksKeepOneHolder == PgSpec => []TasksHaveOneHolder
  <1>1. PgInit => ClaimsInv
    BY DEF PgInit, ClaimsInv, TasksHaveOneHolder
  <1>2. ClaimsInv => TasksHaveOneHolder
    BY DEF ClaimsInv
  <1>. QED BY <1>1, <1>2, ClaimsInvStep, PTL DEF PgSpec

-----------------------------------------------------------------------------
(* Leases *)

\* Types; a row is what was granted with its token; an overlooked lease has
\* expired before the latest acquisition; leases that are not overlooked are
\* compatible unless one was revived.
RowsInv ==
  /\ rows \subseteq Contract!Leases /\ answered \subseteq Contract!Grants
  /\ issued \in Nat /\ clock \in Nat
  /\ acquiredAt \in Nat /\ touchedAt \in Nat
  /\ acquiredAt <= clock /\ touchedAt <= clock
  /\ \A k \in overlooked : k \in Nat /\ k <= issued
  /\ \A g \in answered : g.token <= issued
  /\ \A g, h \in answered : g.token = h.token => g = h
  /\ \A l \in rows : \E g \in answered : l = Contract!LeaseOf(g, l.expires)
  /\ \A l, k \in rows : l.token = k.token => l = k
  /\ \A l \in rows : l.token \in overlooked => l.expires <= acquiredAt
  /\ \A l, k \in rows :
       /\ l.token # k.token /\ Contract!ConflictsWith(l, k)
       /\ l.token \notin overlooked /\ k.token \notin overlooked
       => l.token \in revived \/ k.token \in revived

Remembered == {l \in rows : l.token \notin overlooked}

LEMMA ConflictsAreMutual ==
    ASSUME NEW l, NEW k, Contract!ConflictsWith(l, k)
    PROVE  Contract!ConflictsWith(k, l)
  BY DEF Contract!ConflictsWith, Contract!Overlaps, Contract!ModesConflict

\* A lease conflicts like what it was asked or granted for.
LEMMA ConflictsAlike ==
    ASSUME NEW l, NEW n, NEW k, n.resource = l.resource, n.mode = l.mode
    PROVE  /\ Contract!ConflictsWith(n, k) <=> Contract!ConflictsWith(l, k)
           /\ Contract!ConflictsWith(k, n) <=> Contract!ConflictsWith(k, l)
  BY DEF Contract!ConflictsWith

LEMMA GrantedFields ==
    ASSUME NEW g \in Contract!Grants, NEW e \in Nat
    PROVE  LET l == Contract!LeaseOf(g, e) IN
           /\ l \in Contract!Leases /\ l.owner = g.owner /\ l.resource = g.resource
           /\ l.mode = g.mode /\ l.token = g.token /\ l.expires = e
  BY DEF Contract!LeaseOf, Contract!Leases, Contract!Grants

\* acquire_lock with rows that expired beside it is acquire_lock without them.
LEMMA AcquireIsContract ==
    ASSUME RowsInv, NEW q \in Contract!Requests, NEW ttl \in 1 .. LongestTtl,
           NEW t \in 0 .. clock, AcquireLease(q, ttl, t)
    PROVE  RowsInv' /\ Contract!AcquireLock(q, ttl, t)
  <1>1. PICK grant : grant = Contract!NewGrant(q)
    OBVIOUS
  <1>2. PICK e \in Nat : e = t + ttl
    BY DelayAssumption DEF RowsInv
  <1>3. /\ grant \in Contract!Grants /\ grant.token = issued + 1
        /\ grant.resource = q.resource /\ grant.mode = q.mode
    BY <1>1 DEF Contract!NewGrant, Contract!Grants, Contract!Requests, RowsInv
  <1>4. PICK new \in Contract!Leases :
          /\ new = Contract!LeaseOf(grant, e)
          /\ new.resource = q.resource /\ new.mode = q.mode
          /\ new.token = issued + 1 /\ new.expires = e
    BY <1>2, <1>3, GrantedFields
  <1>5. PICK found : found = {l.token : l \in {k \in rows : k.expires <= t}}
    OBVIOUS
  <1>6. /\ rows' = rows \cup {new} /\ answered' = answered \cup {grant}
        /\ issued' = issued + 1 /\ touchedAt' = clock /\ clock' = clock
        /\ issued < TokenBound /\ revived' = revived
        /\ overlooked' = overlooked \cup found
        /\ acquiredAt' = IF t > acquiredAt THEN t ELSE acquiredAt
        /\ \A l \in rows : l.expires > t => ~Contract!ConflictsWith(l, q)
    BY <1>1, <1>2, <1>4, <1>5 DEF AcquireLease, Conflicting
  <1>7. \A l \in rows : /\ l.expires \in Nat /\ l.token \in Nat /\ l.token <= issued
                        /\ l \in Contract!Leases
    <2>1. SUFFICES ASSUME NEW l \in rows
                   PROVE  l.expires \in Nat /\ l.token \in Nat /\ l.token <= issued /\ l \in Contract!Leases
      OBVIOUS
    <2>2. l \in Contract!Leases /\ l.expires \in Nat /\ l.token \in Nat
      BY DEF RowsInv, Contract!Leases
    <2>3. PICK g \in answered : l = Contract!LeaseOf(g, l.expires)
      BY DEF RowsInv
    <2>4. l.token = g.token
      BY <2>2, <2>3, GrantedFields DEF RowsInv
    <2> QED
      BY <2>2, <2>4 DEF RowsInv
  <1>8. \A l \in rows : l.token \in found <=> l.expires <= t
    <2>1. SUFFICES ASSUME NEW l \in rows PROVE l.token \in found <=> l.expires <= t
      OBVIOUS
    <2>2. \A k \in rows : k.token = l.token => k = l
      BY DEF RowsInv
    <2> QED
      BY <1>5, <2>2
  <1>9. new.token \notin overlooked' /\ \A k \in overlooked' : k \in Nat /\ k <= issued'
    BY <1>4, <1>5, <1>6, <1>7 DEF RowsInv
  <1>10. /\ acquiredAt' \in Nat /\ acquiredAt' <= clock /\ t <= acquiredAt' /\ acquiredAt <= acquiredAt'
         /\ t \in Nat
    BY <1>6 DEF RowsInv
  <1>11. \A l \in rows : l.token \notin overlooked' <=> l.token \notin overlooked /\ l.expires > t
    BY <1>6, <1>7, <1>8, <1>10
  <1>12. RowsInv'
    <2>1. /\ rows' \subseteq Contract!Leases /\ answered' \subseteq Contract!Grants
          /\ issued' \in Nat /\ clock' \in Nat
          /\ acquiredAt' \in Nat /\ touchedAt' \in Nat
          /\ acquiredAt' <= clock' /\ touchedAt' <= clock'
      BY <1>3, <1>4, <1>6, <1>10 DEF RowsInv
    <2>2. /\ \A g \in answered' : g.token <= issued'
          /\ \A g, h \in answered' : g.token = h.token => g = h
      <3>1. \A g \in answered : g.token \in Nat /\ g.token <= issued
        BY DEF RowsInv, Contract!Grants
      <3> QED
        BY <1>3, <1>6, <3>1 DEF RowsInv
    <2>3. \A l \in rows' : \E g \in answered' : l = Contract!LeaseOf(g, l.expires)
      BY <1>4, <1>6 DEF RowsInv
    <2>4. \A l, k \in rows' : l.token = k.token => l = k
      BY <1>4, <1>6, <1>7 DEF RowsInv
    <2>5. \A l \in rows' : l.token \in overlooked' => l.expires <= acquiredAt'
      <3>1. SUFFICES ASSUME NEW l \in rows, l.token \in overlooked' PROVE l.expires <= acquiredAt'
        BY <1>6, <1>9
      <3>2. l.expires <= acquiredAt \/ l.expires <= t
        BY <1>6, <1>8, <3>1 DEF RowsInv
      <3> QED
        BY <1>7, <1>10, <3>2 DEF RowsInv
    <2>6. ASSUME NEW l \in rows', NEW k \in rows', l.token # k.token, Contract!ConflictsWith(l, k),
                 l.token \notin overlooked', k.token \notin overlooked'
          PROVE  l.token \in revived' \/ k.token \in revived'
      <3>1. CASE l \in rows /\ k \in rows
        BY <1>6, <1>11, <2>6, <3>1 DEF RowsInv
      <3>2. CASE l \in rows /\ k = new
        <4>1. ~Contract!ConflictsWith(l, q)
          BY <1>6, <1>11, <2>6, <3>2
        <4> QED
          BY <1>4, <2>6, <3>2, <4>1, ConflictsAlike
      <3>3. CASE l = new /\ k \in rows
        <4>1. ~Contract!ConflictsWith(k, q)
          BY <1>6, <1>11, <2>6, <3>3
        <4>2. Contract!ConflictsWith(k, l)
          BY <2>6, ConflictsAreMutual
        <4> QED
          BY <1>4, <3>3, <4>1, <4>2, ConflictsAlike
      <3> QED
        BY <1>6, <2>6, <3>1, <3>2, <3>3
    <2> QED
      BY <1>9, <2>1, <2>2, <2>3, <2>4, <2>5, <2>6 DEF RowsInv
  <1>13. Contract!Unexpired(t) = {l \in Remembered : l.expires > t}
    BY DEF Contract!Unexpired, Contract!Live, Remembered
  <1>14. {l \in rows' : l.token \notin overlooked'} = Contract!Unexpired(t) \cup {new}
    BY <1>6, <1>9, <1>11, <1>13 DEF Remembered
  <1>15. \A l \in Contract!Unexpired(t) : ~Contract!ConflictsWith(l, q)
    BY <1>6, <1>13 DEF Remembered
  <1>16. Contract!Insert(q, Contract!Unexpired(t), t + ttl)
    BY <1>1, <1>2, <1>4, <1>6, <1>14 DEF Contract!Insert
  <1> QED
    BY <1>12, <1>15, <1>16 DEF Contract!AcquireLock

\* A heartbeat of a lease that is not overlooked is the contract's; one that
\* finds an overlooked lease alive read its clock before the acquisition.
LEMMA HeartbeatIsContract ==
    ASSUME RowsInv, NEW g \in answered, NEW ttl \in 1 .. LongestTtl,
           NEW t \in 0 .. clock, HeartbeatLease(g, ttl, t)
    PROVE  RowsInv' /\ (Contract!HeartbeatLock(g, ttl, t) \/ RevivesOverlooked)
  <1>1. PICK l \in rows :
            /\ l.owner = g.owner /\ l.token = g.token /\ l.expires > t
            /\ rows' = (rows \ {l}) \cup {[l EXCEPT !.expires = t + ttl]}
            /\ overlooked' = overlooked \ {l.token}
            /\ revived' = revived \cup (overlooked \cap {l.token})
            /\ touchedAt' = clock
            /\ UNCHANGED <<issued, clock, answered, acquiredAt, taskVars>>
    BY Zenon DEF HeartbeatLease
  <1>2. l \in Contract!Leases /\ l.expires \in Nat /\ t + ttl \in Nat /\ t \in Nat
    BY DelayAssumption DEF RowsInv, Contract!Leases
  <1>3. PICK new : new = [l EXCEPT !.expires = t + ttl]
    OBVIOUS
  <1>4. /\ new \in Contract!Leases /\ new.expires = t + ttl /\ new.token = l.token
        /\ new.resource = l.resource /\ new.mode = l.mode /\ new.owner = l.owner
    BY <1>2, <1>3 DEF Contract!Leases
  <1>5. new = Contract!LeaseOf(g, t + ttl)
    <2>1. PICK h \in answered : l = Contract!LeaseOf(h, l.expires)
      BY DEF RowsInv
    <2>2. h \in Contract!Grants /\ l.token = h.token
      BY <1>2, <2>1, GrantedFields DEF RowsInv
    <2>3. h = g
      BY <1>1, <2>2 DEF RowsInv
    <2> QED
      BY <1>3, <2>1, <2>3 DEF Contract!LeaseOf
  <1>6. rows' = (rows \ {l}) \cup {new}
    BY <1>1, <1>3
  <1>7. \A k \in rows : k.token = l.token => k = l
    BY DEF RowsInv
  <1>8. RowsInv'
    <2>1. /\ rows' \subseteq Contract!Leases /\ answered' \subseteq Contract!Grants
          /\ issued' \in Nat /\ clock' \in Nat
          /\ acquiredAt' \in Nat /\ touchedAt' \in Nat
          /\ acquiredAt' <= clock' /\ touchedAt' <= clock'
      BY <1>1, <1>4, <1>6 DEF RowsInv
    <2>2. /\ \A k \in overlooked' : k \in Nat /\ k <= issued'
          /\ \A h \in answered' : h.token <= issued'
          /\ \A h, i \in answered' : h.token = i.token => h = i
      BY <1>1 DEF RowsInv
    <2>3. \A k \in rows' : \E h \in answered' : k = Contract!LeaseOf(h, k.expires)
      BY <1>1, <1>4, <1>5, <1>6 DEF RowsInv
    <2>4. \A k, m \in rows' : k.token = m.token => k = m
      BY <1>4, <1>6, <1>7 DEF RowsInv
    <2>5. \A k \in rows' : k.token \in overlooked' => k.expires <= acquiredAt'
      BY <1>1, <1>4, <1>6 DEF RowsInv
    <2>6. ASSUME NEW k \in rows', NEW m \in rows', k.token # m.token, Contract!ConflictsWith(k, m),
                 k.token \notin overlooked', m.token \notin overlooked'
          PROVE  k.token \in revived' \/ m.token \in revived'
      <3>1. CASE l.token \in overlooked /\ (k = new \/ m = new)
        BY <1>1, <1>4, <3>1
      <3>2. CASE k # new /\ m # new
        BY <1>1, <1>6, <1>7, <2>6, <3>2 DEF RowsInv
      <3>3. CASE l.token \notin overlooked /\ k = new /\ m # new
        <4>1. Contract!ConflictsWith(l, m)
          BY <1>4, <2>6, <3>3, ConflictsAlike
        <4> QED
          BY <1>1, <1>4, <1>6, <2>6, <3>3, <4>1 DEF RowsInv
      <3>4. CASE l.token \notin overlooked /\ k # new /\ m = new
        <4>1. Contract!ConflictsWith(k, l)
          BY <1>4, <2>6, <3>4, ConflictsAlike
        <4> QED
          BY <1>1, <1>4, <1>6, <2>6, <3>4, <4>1 DEF RowsInv
      <3> QED
        BY <2>6, <3>1, <3>2, <3>3, <3>4
    <2> QED
      BY <2>1, <2>2, <2>3, <2>4, <2>5, <2>6 DEF RowsInv
  <1>9. {x \in rows' : x.token \notin overlooked'} = (Remembered \ {l}) \cup {new}
    BY <1>1, <1>4, <1>6, <1>7 DEF Remembered
  <1>10. CASE l.token \notin overlooked
    <2>1. l \in Contract!Unexpired(t)
      BY <1>1, <1>10 DEF Contract!Unexpired, Contract!Live
    <2> QED
      BY <1>1, <1>3, <1>8, <1>9, <2>1 DEF Contract!HeartbeatLock, Remembered
  <1>11. CASE l.token \in overlooked
    <2>1. t < acquiredAt
      BY <1>1, <1>2, <1>11 DEF RowsInv
    <2>2. (Remembered \ {l}) \cup {new} = {x \in Remembered : x.token # g.token} \cup {new}
      BY <1>1, <1>7, <1>11 DEF Remembered
    <2>3. Contract!HeartbeatReviving(g, ttl, t)
      BY <1>1, <1>5, <1>9, <2>2 DEF Contract!HeartbeatReviving, Remembered
    <2> QED
      BY <1>1, <1>8, <1>11, <2>1, <2>3 DEF RevivesOverlooked
  <1> QED
    BY <1>10, <1>11

\* A release of a lease the contract has forgotten is not seen by it.
LEMMA ReleaseIsContract ==
    ASSUME RowsInv, NEW g \in answered, ReleaseLease(g)
    PROVE  RowsInv' /\ (Contract!ReleaseLock(g) \/ UNCHANGED Contract!vars)
  <1>1. PICK l \in rows :
            /\ l.owner = g.owner /\ l.token = g.token
            /\ rows' = rows \ {l}
            /\ touchedAt' = IF l.token \in overlooked THEN touchedAt ELSE clock
            /\ UNCHANGED <<issued, clock, answered, overlooked, acquiredAt, revived, taskVars>>
    BY Zenon DEF ReleaseLease
  <1>2. RowsInv'
    BY <1>1 DEF RowsInv
  <1>3. {x \in rows' : x.token \notin overlooked'} = Remembered \ {l}
    BY <1>1 DEF Remembered
  <1>4. CASE l.token \notin overlooked
    BY <1>1, <1>2, <1>3, <1>4 DEF Contract!ReleaseLock, Remembered
  <1>5. CASE l.token \in overlooked
    BY <1>1, <1>2, <1>3, <1>5 DEF Contract!vars, Remembered
  <1> QED BY <1>4, <1>5

LEMMA StepIsContract ==
    ASSUME RowsInv, [PgNext]_pgVars
    PROVE  RowsInv' /\ [Contract!LateNext \/ RevivesOverlooked]_(Contract!vars)
  <1>1. PgReadings \subseteq 0 .. clock
    BY DEF PgReadings
  <1>2. CASE UNCHANGED <<leaseVars, clock>>
    BY <1>2 DEF leaseVars, auxiliaryVars, RowsInv, Contract!vars
  <1>3. CASE ClockTicks
    BY <1>3 DEF ClockTicks, leaseVars, auxiliaryVars, RowsInv, Contract!LateNext, Contract!Tick
  <1>4. ASSUME NEW q \in Contract!Requests, NEW ttl \in 1 .. LongestTtl, NEW t \in 0 .. clock,
               AcquireLease(q, ttl, t)
        PROVE  RowsInv' /\ Contract!LateNext
    BY <1>4, AcquireIsContract, Zenon DEF Contract!LateNext
  <1>5. ASSUME NEW g \in answered, NEW ttl \in 1 .. LongestTtl, NEW t \in 0 .. clock,
               HeartbeatLease(g, ttl, t)
        PROVE  RowsInv' /\ (Contract!LateNext \/ RevivesOverlooked)
    BY <1>5, HeartbeatIsContract, Zenon DEF Contract!LateNext
  <1>6. ASSUME NEW g \in answered, ReleaseLease(g)
        PROVE  RowsInv' /\ [Contract!LateNext \/ RevivesOverlooked]_(Contract!vars)
    BY <1>6, ReleaseIsContract, Zenon DEF Contract!LateNext
  <1>7. ASSUME NEW t, NEW task, NEW o, ClaimTask(task, o, t)
        PROVE  UNCHANGED <<leaseVars, clock>>
    BY <1>7, Zenon DEF ClaimTask
  <1>8. ASSUME NEW claim, ReleaseTaskClaim(claim)
        PROVE  UNCHANGED <<leaseVars, clock>>
    BY <1>8, Zenon DEF ReleaseTaskClaim
  <1>9. CASE UNCHANGED pgVars
    BY <1>2, <1>9 DEF pgVars
  <1> QED
    BY <1>1, <1>2, <1>3, <1>4, <1>5, <1>6, <1>7, <1>8, <1>9, Zenon DEF PgNext

\* A live lease is not overlooked.
LEMMA LiveIsRemembered == RowsInv => ConflictsAreRevivals /\ FencesAreOfTheContract
  <1> SUFFICES ASSUME RowsInv PROVE ConflictsAreRevivals /\ FencesAreOfTheContract
    OBVIOUS
  <1>1. ASSUME NEW l \in rows, l.expires > clock
        PROVE  l.token \notin overlooked
    <2>1. l.expires \in Nat
      BY DEF RowsInv, Contract!Leases
    <2> QED
      BY <1>1, <2>1 DEF RowsInv
  <1>2. ConflictsAreRevivals
    BY <1>1 DEF RowsInv, ConflictsAreRevivals
  <1>3. ASSUME NEW l \in rows, NEW r \in Places, FenceHolds(r, l.owner, l.token, clock)
        PROVE  Contract!ValidFence(r, l.owner, l.token, clock)
    <2>1. PICK k \in rows : /\ k.owner = l.owner /\ k.token = l.token /\ k.expires > clock
                            /\ k.resource = r
      BY <1>3 DEF FenceHolds
    <2>2. k \in Contract!Unexpired(clock)
      BY <1>1, <2>1 DEF Contract!Unexpired, Contract!Live
    <2>3. PICK n \in Nat : n = Len(r)
      BY PlacesAssumption
    <2>4. Contract!Overlaps(r, r)
      BY <2>3 DEF Contract!Overlaps, Contract!IsPrefixOf
    <2> QED
      BY <2>1, <2>2, <2>4 DEF Contract!ValidFence
  <1> QED
    BY <1>2, <1>3 DEF FencesAreOfTheContract

\* "The PostgreSQL adapter must ... preserve the same repository contract": it
\* does, however late a Runtime's clock reading is, but for the heartbeat that
\* revives an overlooked lease; only leases revived so conflict while both live.
THEOREM PostgresHonoursContract == PgSpec => PostgresKeepsContract
  <1>1. PgInit => RowsInv /\ Contract!Init
    BY DEF PgInit, RowsInv, Contract!Init
  <1>2. RowsInv /\ [PgNext]_pgVars => RowsInv' /\ [Contract!LateNext \/ RevivesOverlooked]_(Contract!vars)
    BY StepIsContract
  <1> QED
    BY <1>1, <1>2, LiveIsRemembered, PTL DEF PgSpec, PostgresKeepsContract

-----------------------------------------------------------------------------
(* Quotas *)

RequestRecords ==
  [at : {"unsent", "authenticated", "locking", "counting", "reserved", "refused",
         "loading", "running", "created", "answered", "failed"},
   limit : Nat, used : Nat, sends : Nat]

\* Only the request that has locked the quota counts, and nobody changed what it
\* read; the runtime was built if it is loaded.
QuotaInv ==
  /\ tenant \in {"none", "created", "quotas", "ready", "abandoned"}
  /\ limit \in Nat /\ used \in Nat /\ lock \in SessionRequests \cup {NoOne}
  /\ reservations \in [Keys -> [usedAfter : Nat, limit : Nat]]
  /\ request \in [SessionRequests -> RequestRecords]
  /\ upsets \in [changes : Nat, crashes : Nat]
  /\ created \in [Keys -> Nat] /\ bound \in [Keys -> Nat]
  /\ runtime \in [loaded : BOOLEAN, built : Nat]
  /\ runtime.built = IF runtime.loaded THEN 1 ELSE 0
  /\ \A r \in SessionRequests :
       /\ request[r].at = "counting" <=> lock = r
       /\ request[r].at = "counting" => request[r].used = used
  /\ IsFiniteSet(Reserved)
  /\ UsageIsReserved

\* An empty table counts to nothing.
LEMMA QuotaInvInit == TenancyInit => QuotaInv
  <1> SUFFICES ASSUME TenancyInit PROVE QuotaInv
    OBVIOUS
  <1>1. NoReservation \in [usedAfter : Nat, limit : Nat] /\ NoOne \notin SessionRequests
    BY TenancyAssumption DEF NoReservation
  <1>2. Reserved = {}
    BY DEF TenancyInit, Reserved
  <1>3. IsFiniteSet(Reserved) /\ UsageIsReserved
    BY <1>2, FS_EmptySet DEF TenancyInit, UsageIsReserved
  <1>. QED BY <1>1, <1>3 DEF TenancyInit, QuotaInv, RequestRecords

\* The reservation of a key that had none is the next one.
LEMMA ReservingCounts ==
    ASSUME QuotaInv, NEW k \in Keys, reservations[k] = NoReservation,
           NEW l \in Nat, used + 1 <= l, used' = used + 1,
           reservations' = [reservations EXCEPT ![k] = [usedAfter |-> used + 1, limit |-> l]]
    PROVE  IsFiniteSet(Reserved)' /\ UsageIsReserved'
  <1> DEFINE new == [usedAfter |-> used + 1, limit |-> l]
  <1>1. /\ used \in Nat /\ new \in [usedAfter : Nat, limit : Nat] /\ new # NoReservation
        /\ new.usedAfter = used + 1 /\ new.limit = l
    BY DEF QuotaInv, NoReservation
  <1>2. \A j \in Keys : reservations'[j] = IF j = k THEN new ELSE reservations[j]
    BY DEF QuotaInv
  <1> HIDE DEF new
  <1>3. k \notin Reserved /\ Reserved' = Reserved \cup {k}
    BY <1>1, <1>2 DEF Reserved
  <1>4. IsFiniteSet(Reserved') /\ Cardinality(Reserved') = used + 1
    BY <1>3, FS_AddElement DEF QuotaInv, UsageIsReserved
  <1>5. {reservations'[j].usedAfter : j \in Reserved'} = {reservations[j].usedAfter : j \in Reserved} \cup {used + 1}
    <2>1. \A j \in Reserved : reservations'[j] = reservations[j] /\ j # k
      BY <1>2, <1>3 DEF Reserved
    <2>2. reservations'[k].usedAfter = used + 1
      BY <1>1, <1>2
    <2>. QED BY <1>3, <2>1, <2>2
  <1>6. {reservations'[j].usedAfter : j \in Reserved'} = 1 .. used + 1
    <2>1. {reservations[j].usedAfter : j \in Reserved} = 1 .. used
      BY DEF QuotaInv, UsageIsReserved
    <2>2. (1 .. used) \cup {used + 1} = 1 .. used + 1
      BY <1>1
    <2>. QED BY <1>5, <2>1, <2>2, Zenon
  <1>7. \A j \in Reserved' : reservations'[j].usedAfter <= reservations'[j].limit
    BY <1>1, <1>2, <1>3 DEF QuotaInv, UsageIsReserved, Reserved
  <1>. QED BY <1>4, <1>6, <1>7 DEF UsageIsReserved

\* reserve_quota is the only step that counts; the others do not touch the rows.
LEMMA QuotaInvStep == QuotaInv /\ [TenancyNext]_tenancyVars => QuotaInv'
  <1> SUFFICES ASSUME QuotaInv, [TenancyNext]_tenancyVars PROVE QuotaInv'
    OBVIOUS
  <1> USE TenancyAssumption
  <1>1. ASSUME used' = used, reservations' = reservations
        PROVE  IsFiniteSet(Reserved)' /\ UsageIsReserved'
    BY <1>1 DEF QuotaInv, Reserved, UsageIsReserved
  <1>2. CASE UNCHANGED tenancyVars
    BY <1>1, <1>2 DEF tenancyVars, QuotaInv
  <1>3. CASE CreateTenant \/ SetDefaultQuota \/ IssueToken \/ AbandonBootstrap
    BY <1>1, <1>3 DEF CreateTenant, SetDefaultQuota, IssueToken, AbandonBootstrap,
                      quotaRows, sessionRows, QuotaInv
  <1>4. ASSUME NEW l \in QuotaLimits, SetQuota(l)
        PROVE  QuotaInv'
    BY <1>1, <1>4 DEF SetQuota, sessionRows, QuotaInv
  <1>5. ASSUME NEW r \in SessionRequests, RequestStep(r)
        PROVE  QuotaInv'
    <2> USE DEF quotaRows, sessionRows, GoTo, RequestRecords
    <2>1. CASE SendRequest(r)
      BY <1>1, <2>1 DEF SendRequest, QuotaInv
    <2>2. CASE LookUpReservation(r)
      BY <1>1, <2>2 DEF LookUpReservation, QuotaInv
    <2>3. CASE LockQuota(r)
      <3>1. /\ lock' = r /\ lock = NoOne /\ used' = used /\ reservations' = reservations
            /\ request' = [request EXCEPT ![r].at = "counting", ![r].limit = limit, ![r].used = used]
            /\ UNCHANGED <<tenant, limit, created, bound, runtime, upsets>>
        BY <2>3 DEF LockQuota
      <3>2. /\ request' \in [SessionRequests -> RequestRecords]
            /\ request'[r].at = "counting" /\ request'[r].used = used
            /\ \A q \in SessionRequests \ {r} : request'[q] = request[q]
        <4> HIDE DEF RequestRecords
        <4>1. request[r] \in RequestRecords /\ limit \in Nat /\ used \in Nat
          BY DEF QuotaInv
        <4>2. /\ request' = [request EXCEPT ![r] = request'[r]]
              /\ request'[r] = [request[r] EXCEPT !.at = "counting", !.limit = limit, !.used = used]
          BY <3>1 DEF QuotaInv
        <4>3. /\ request'[r] \in RequestRecords
              /\ request'[r].at = "counting" /\ request'[r].used = used
          BY <4>1, <4>2 DEF RequestRecords
        <4>. QED BY <4>2, <4>3 DEF QuotaInv
      <3>3. \A q \in SessionRequests : request[q].at # "counting"
        BY <3>1 DEF QuotaInv
      <3>4. \A q \in SessionRequests :
              /\ request'[q].at = "counting" <=> lock' = q
              /\ request'[q].at = "counting" => request'[q].used = used'
        BY <3>1, <3>2, <3>3
      <3>. QED BY <1>1, <3>1, <3>2, <3>4 DEF QuotaInv
    <2>4. CASE Reserve(r)
      <3> DEFINE k == KeyOf[r]
      <3>1. /\ k \in Keys /\ lock = r /\ lock' = NoOne /\ request[r].used = used
            /\ Reservation(r) = [usedAfter |-> used + 1, limit |-> request[r].limit]
            /\ request[r].limit \in Nat
        BY <2>4 DEF Reserve, Unlocked, Reservation, QuotaInv
      <3>2. \E at \in {"refused", "failed", "reserved"} : GoTo(r, at)
        BY <2>4 DEF Reserve
      <3>3. /\ request' \in [SessionRequests -> RequestRecords]
            /\ \A q \in SessionRequests : request'[q].at # "counting"
        BY <3>1, <3>2 DEF QuotaInv
      <3>4. CASE used' = used /\ reservations' = reservations
        BY <1>1, <2>4, <3>1, <3>3, <3>4 DEF Reserve, QuotaInv
      <3>5. CASE ~(used' = used /\ reservations' = reservations)
        <4>1. /\ reservations[k] = NoReservation /\ used + 1 <= request[r].limit
              /\ used' = used + 1
              /\ reservations' = [reservations EXCEPT ![k] =
                                    [usedAfter |-> used + 1, limit |-> request[r].limit]]
          <5>1. /\ ~(Reservation(r).usedAfter > Reservation(r).limit)
                /\ reservations[KeyOf[r]] = NoReservation
                /\ used' = Reservation(r).usedAfter
                /\ reservations' = [reservations EXCEPT ![KeyOf[r]] = Reservation(r)]
            BY <2>4, <3>5 DEF Reserve
          <5>. QED BY <3>1, <5>1 DEF QuotaInv
        <4>2. IsFiniteSet(Reserved)' /\ UsageIsReserved'
          BY <3>1, <4>1, ReservingCounts
        <4>3. used' \in Nat /\ reservations' \in [Keys -> [usedAfter : Nat, limit : Nat]]
          BY <3>1, <4>1 DEF QuotaInv
        <4>4. UNCHANGED <<tenant, limit, created, bound, runtime, upsets>>
          BY <2>4 DEF Reserve
        <4>. QED BY <3>1, <3>3, <4>2, <4>3, <4>4 DEF QuotaInv
      <3>. QED BY <3>4, <3>5
    <2>5. CASE LookUpRuntime(r)
      BY <1>1, <2>5 DEF LookUpRuntime, QuotaInv
    <2>6. CASE LoadRuntime(r)
      BY <1>1, <2>6 DEF LoadRuntime, QuotaInv
    <2>7. CASE CreateSession(r)
      BY <1>1, <2>7 DEF CreateSession, QuotaInv
    <2>8. CASE BindResource(r)
      BY <1>1, <2>8 DEF BindResource, QuotaInv
    <2>9. CASE RequestFails(r)
      BY <1>1, <2>9 DEF RequestFails, Unlocked, QuotaInv
    <2>. QED BY <1>5, <2>1, <2>2, <2>3, <2>4, <2>5, <2>6, <2>7, <2>8, <2>9 DEF RequestStep
  <1>. QED BY <1>2, <1>3, <1>4, <1>5 DEF TenancyNext

\* Whatever requests share a key, fail and come again: the usage counts the keys
\* that have a reservation, each made below its limit, and the runtime is built once.
THEOREM QuotaStaysAccounted == TenancySpec => []QuotaIsAccounted
  <1>1. QuotaInv => QuotaIsAccounted
    BY DEF QuotaInv, RequestRecords, QuotaIsAccounted, TenancyTypeOK
  <1>. QED BY <1>1, QuotaInvInit, QuotaInvStep, PTL DEF TenancySpec

-----------------------------------------------------------------------------
(* Tool calls *)

\* The permission that decides is not plainly allowed.
LEMMA HighRiskIsNeverAllowed ==
    ASSUME NEW tool, tool \in HighRisk
    PROVE  Evaluate(tool) # "allow"
  <1> DEFINE deciding == {n \in DOMAIN PermissionOrder : Decides(n, tool)}
  <1>1. CASE deciding = {}
    BY <1>1, Zenon DEF Evaluate
  <1>2. CASE deciding # {}
    <2>1. (CHOOSE n \in deciding : TRUE) \in deciding
      BY <1>2
    <2>2. Verdict(PermissionOrder[CHOOSE n \in deciding : TRUE]) # "allow"
      BY <2>1 DEF Decides
    <2>. QED BY <1>2, <2>2, Zenon DEF Evaluate
  <1>. QED BY <1>1, <1>2

ConsumedEvent(g) == [event |-> "consumed", grant |-> g]

\* A grant was consumed by an invocation of its tool, and the audit trail says so.
ConsumedBy(g, i) ==
  /\ g \in ApprovalGrants
  /\ grants[g] = [status |-> "consumed", by |-> i]
  /\ GrantFor[g] = ToolOf[i]
  /\ ConsumedEvent(g) \in Range(audit)

\* What allows an invocation to call, alone or with a grant.
Allowed(i, g) ==
  \/ g = NoInvocation /\ Evaluate(ToolOf[i]) = "allow"
  \/ ConsumedBy(g, i)

\* What an invocation holds is enough for the call it prepares.
InvocationsAreAllowed ==
  \A i \in Invocations :
    LET v == invocation[i] IN
    /\ v.at \in {"ready", "discover", "authorize", "consume"} => v.grant = NoInvocation
    /\ v.at \in {"connect", "call"} => Allowed(i, v.grant)
    /\ v.at = "call" => v.server = "expected"

RemoteCallsWereAllowed ==
  \A n \in DOMAIN remote :
    /\ Allowed(remote[n].by, remote[n].grant)
    /\ remote[n].server = "expected"

\* A grant an invocation holds has not been used.
HeldGrantsAreUnused ==
  \A i \in Invocations, n \in DOMAIN remote :
    invocation[i].grant # NoInvocation => remote[n].grant # invocation[i].grant

GatewayInv ==
  /\ GatewayTypeOK
  /\ InvocationsAreAllowed /\ RemoteCallsWereAllowed
  /\ HeldGrantsAreUnused /\ GrantsAreUsedOnce

\* A call that needed an approval can only have been allowed by its grant.
LEMMA GatewayInvImplies == GatewayInv => CallsAreAuthorized
  <1> SUFFICES ASSUME GatewayInv PROVE CallsAreAuthorized
    OBVIOUS
  <1>1. ASSUME NEW n \in DOMAIN remote, Evaluate(ToolOf[remote[n].by]) # "allow"
        PROVE  ConsumedBy(remote[n].grant, remote[n].by) /\ remote[n].grant # NoInvocation
    BY <1>1, GatewayAssumption DEF GatewayInv, RemoteCallsWereAllowed, Allowed, ConsumedBy
  <1>2. CallsAreAudited
    <2>1. ASSUME NEW n \in DOMAIN remote, Evaluate(ToolOf[remote[n].by]) # "allow"
          PROVE  /\ remote[n].grant # NoInvocation
                 /\ grants[remote[n].grant].by = remote[n].by
                 /\ GrantFor[remote[n].grant] = ToolOf[remote[n].by]
                 /\ [event |-> "consumed", grant |-> remote[n].grant] \in Range(audit)
      <3>1. ConsumedBy(remote[n].grant, remote[n].by) /\ remote[n].grant # NoInvocation
        BY <1>1, <2>1, Zenon
      <3>2. [event |-> "consumed", grant |-> remote[n].grant] \in Range(audit)
        BY <3>1, Zenon DEF ConsumedBy, ConsumedEvent
      <3>. QED BY <3>1, <3>2 DEF ConsumedBy
    <2>. QED BY <2>1, Zenon DEF CallsAreAudited
  <1>3. HighRiskIsApproved
    BY <1>1, HighRiskIsNeverAllowed DEF HighRiskIsApproved
  <1>4. CallsReachTheExpectedServer
    BY DEF GatewayInv, RemoteCallsWereAllowed, CallsReachTheExpectedServer
  <1>. QED BY <1>2, <1>3, <1>4 DEF GatewayInv, CallsAreAuthorized
-----------------------------------------------------------------------------
\* What was allowed stays so while grants that were consumed are not touched and
\* the audit trail only grows.
ConsumedStays ==
  /\ \A g \in ApprovalGrants : grants[g].status = "consumed" => grants'[g] = grants[g]
  /\ Range(audit) \subseteq Range(audit')

\* Being allowed survives such steps.
LEMMA AllowedStays ==
    ASSUME ConsumedStays, NEW i, NEW g, Allowed(i, g)
    PROVE  Allowed(i, g)'
  BY DEF ConsumedStays, Allowed, ConsumedBy, ConsumedEvent

\* What Append does to a sequence, element by element.
LEMMA AppendedElements ==
    ASSUME NEW S, NEW s \in Seq(S), NEW e
    PROVE  /\ DOMAIN Append(s, e) = DOMAIN s \cup {Len(s) + 1} /\ Len(s) + 1 \notin DOMAIN s
           /\ \A n \in DOMAIN s : Append(s, e)[n] = s[n]
           /\ Append(s, e)[Len(s) + 1] = e
  OBVIOUS

\* ... and to its range.
LEMMA AppendedRange ==
    ASSUME NEW S, NEW s \in Seq(S), NEW e
    PROVE  Range(Append(s, e)) = Range(s) \cup {e}
  <1>1. /\ DOMAIN Append(s, e) = DOMAIN s \cup {Len(s) + 1}
        /\ \A n \in DOMAIN s : Append(s, e)[n] = s[n]
        /\ Append(s, e)[Len(s) + 1] = e
    BY AppendedElements, Zenon
  <1>2. ASSUME NEW x PROVE x \in Range(Append(s, e)) <=> x \in Range(s) \cup {e}
    BY <1>1 DEF Range
  <1>. QED BY <1>2

\* A step that only moves invocations which hold no grant afterwards.
LEMMA StepWithoutCall ==
    ASSUME GatewayInv, ConsumedStays, remote' = remote, GatewayTypeOK',
           \A i \in Invocations : invocation'[i] # invocation[i] =>
             LET v == invocation'[i] IN
             /\ v.grant \in {NoInvocation, invocation[i].grant}
             /\ v.at \in {"ready", "discover", "authorize", "consume"} => v.grant = NoInvocation
             /\ v.at \in {"connect", "call"} => Allowed(i, v.grant)
             /\ v.at = "call" => v.server = "expected"
    PROVE  GatewayInv'
  <1>1. InvocationsAreAllowed'
    BY AllowedStays DEF GatewayInv, InvocationsAreAllowed
  <1>2. RemoteCallsWereAllowed'
    BY AllowedStays DEF GatewayInv, RemoteCallsWereAllowed
  <1>3. HeldGrantsAreUnused' /\ GrantsAreUsedOnce'
    BY DEF GatewayInv, HeldGrantsAreUnused, GrantsAreUsedOnce
  <1>. QED BY <1>1, <1>2, <1>3 DEF GatewayInv

\* A step of one invocation that leaves the grants alone.
LEMMA StepOfOne ==
    ASSUME GatewayInv, NEW i \in Invocations, NEW v,
           GatewayTypeOK', UNCHANGED <<grants, audit, remote>>,
           invocation' = [invocation EXCEPT ![i] = v],
           v.grant \in {NoInvocation, invocation[i].grant},
           v.at \in {"ready", "discover", "authorize", "consume"} => v.grant = NoInvocation,
           v.at \in {"connect", "call"} => Allowed(i, v.grant),
           v.at = "call" => v.server = "expected"
    PROVE  GatewayInv'
  <1>1. invocation \in [Invocations -> [at : {"ready", "discover", "authorize", "consume", "connect", "call"},
          grant : ApprovalGrants \cup {NoInvocation}, server : {"expected", "other", NoInvocation}]]
    BY DEF GatewayInv, GatewayTypeOK
  <1>2. \A j \in Invocations : invocation'[j] = IF j = i THEN v ELSE invocation[j]
    BY <1>1
  <1>3. ConsumedStays
    BY DEF ConsumedStays
  <1>. QED BY <1>2, <1>3, StepWithoutCall

\* call_tool uses the grant of its invocation up; no other invocation holds it.
LEMMA CallStep ==
    ASSUME GatewayInv, NEW i \in Invocations, CallTool(i), GatewayTypeOK'
    PROVE  GatewayInv'
  <1> DEFINE g == invocation[i].grant
             made == [by |-> i, grant |-> g, server |-> invocation[i].server]
  <1>1. /\ invocation[i].at = "call" /\ remote' = Append(remote, made)
        /\ invocation' = [invocation EXCEPT ![i] = Ready]
        /\ UNCHANGED <<grants, audit>>
    BY DEF CallTool, End
  <1>2. invocation \in [Invocations -> [at : {"ready", "discover", "authorize", "consume", "connect", "call"},
          grant : ApprovalGrants \cup {NoInvocation}, server : {"expected", "other", NoInvocation}]]
    BY DEF GatewayInv, GatewayTypeOK
  <1>3. \A j \in Invocations : invocation'[j] = IF j = i THEN Ready ELSE invocation[j]
    BY <1>1, <1>2
  <1>4. Allowed(i, g) /\ invocation[i].server = "expected"
    BY <1>1 DEF GatewayInv, InvocationsAreAllowed
  <1>5. made.by = i /\ made.grant = g /\ made.server = "expected"
    BY <1>4
  <1> HIDE DEF made
  <1>6. /\ DOMAIN remote' = DOMAIN remote \cup {Len(remote) + 1} /\ Len(remote) + 1 \notin DOMAIN remote
        /\ \A n \in DOMAIN remote : remote'[n] = remote[n]
        /\ remote'[Len(remote) + 1] = made
    <2>1. remote \in Seq([by : Invocations, grant : ApprovalGrants \cup {NoInvocation},
                          server : {"expected", "other"}])
      BY DEF GatewayInv, GatewayTypeOK
    <2>2. /\ DOMAIN Append(remote, made) = DOMAIN remote \cup {Len(remote) + 1}
          /\ Len(remote) + 1 \notin DOMAIN remote
          /\ \A n \in DOMAIN remote : Append(remote, made)[n] = remote[n]
          /\ Append(remote, made)[Len(remote) + 1] = made
      BY <2>1, AppendedElements, Zenon
    <2>. QED BY <1>1, <2>2, Zenon
  <1>7. ConsumedStays
    BY <1>1 DEF ConsumedStays
  <1>8. InvocationsAreAllowed'
    BY <1>3, <1>7, AllowedStays DEF GatewayInv, InvocationsAreAllowed, Ready
  <1>9. RemoteCallsWereAllowed'
    BY <1>4, <1>5, <1>6, <1>7, AllowedStays DEF GatewayInv, RemoteCallsWereAllowed
  <1>10. \A n \in DOMAIN remote : g # NoInvocation => remote[n].grant # g
    BY DEF GatewayInv, HeldGrantsAreUnused
  <1>11. GrantsAreUsedOnce'
    BY <1>5, <1>6, <1>10 DEF GatewayInv, GrantsAreUsedOnce
  <1>12. ASSUME NEW j \in Invocations, invocation'[j].grant # NoInvocation
         PROVE  j # i /\ invocation'[j].grant = invocation[j].grant /\ invocation[j].grant # g
    <2>1. j # i /\ invocation'[j] = invocation[j]
      BY <1>3, <1>12 DEF Ready
    <2>2. invocation[j].at \in {"connect", "call"}
      BY <1>2, <1>12, <2>1 DEF GatewayInv, InvocationsAreAllowed
    <2>3. ConsumedBy(invocation[j].grant, j)
      BY <1>12, <2>1, <2>2 DEF GatewayInv, InvocationsAreAllowed, Allowed
    <2>4. g = invocation[j].grant => ConsumedBy(g, i)
      BY <1>4, <1>12, <2>1 DEF Allowed
    <2>. QED BY <2>1, <2>3, <2>4 DEF ConsumedBy
  <1>13. HeldGrantsAreUnused'
    BY <1>5, <1>6, <1>12 DEF GatewayInv, HeldGrantsAreUnused
  <1>. QED BY <1>8, <1>9, <1>11, <1>13 DEF GatewayInv

\* consume gives its invocation a grant nobody has used.
LEMMA ConsumeStep ==
    ASSUME GatewayInv, NEW i \in Invocations, Consume(i), GatewayTypeOK',
           Consumable(OfferedGrant[i], i)
    PROVE  GatewayInv'
  <1> DEFINE g == OfferedGrant[i]
  <1>1. /\ invocation[i].at = "consume" /\ grants[g].status = "issued" /\ GrantFor[g] = ToolOf[i]
        /\ grants' = [grants EXCEPT ![g] = [status |-> "consumed", by |-> i]]
        /\ audit' = Append(audit, ConsumedEvent(g))
        /\ invocation' = [invocation EXCEPT ![i].at = "connect", ![i].grant = g]
        /\ remote' = remote /\ g \in ApprovalGrants
    BY GatewayAssumption DEF Consume, Consumable, ConsumedEvent
  <1>2. /\ invocation \in [Invocations -> [at : {"ready", "discover", "authorize", "consume", "connect", "call"},
             grant : ApprovalGrants \cup {NoInvocation}, server : {"expected", "other", NoInvocation}]]
        /\ grants \in [ApprovalGrants -> [status : {"unissued", "issued", "expired", "consumed"},
                            by : Invocations \cup {NoInvocation}]]
        /\ audit \in Seq([event : {"issued", "consumed"}, grant : ApprovalGrants])
    BY DEF GatewayInv, GatewayTypeOK
  <1>3. /\ \A j \in Invocations \ {i} : invocation'[j] = invocation[j]
        /\ invocation'[i].at = "connect" /\ invocation'[i].grant = g
    BY <1>1, <1>2
  <1>4. Range(audit') = Range(audit) \cup {ConsumedEvent(g)}
    BY <1>1, <1>2, AppendedRange
  <1>5. /\ grants'[g] = [status |-> "consumed", by |-> i]
        /\ \A h \in ApprovalGrants \ {g} : grants'[h] = grants[h]
    BY <1>1, <1>2
  <1>6. ConsumedStays
    BY <1>1, <1>4, <1>5 DEF ConsumedStays
  <1>7. Allowed(i, g)'
    BY <1>1, <1>4, <1>5 DEF Allowed, ConsumedBy, ConsumedEvent
  <1>8. InvocationsAreAllowed'
    BY <1>3, <1>6, <1>7, AllowedStays DEF GatewayInv, InvocationsAreAllowed
  <1>9. RemoteCallsWereAllowed' /\ GrantsAreUsedOnce'
    BY <1>1, <1>6, AllowedStays DEF GatewayInv, RemoteCallsWereAllowed, GrantsAreUsedOnce
  <1>10. \A n \in DOMAIN remote : remote[n].grant # g
    <2>1. ASSUME NEW j PROVE ~ConsumedBy(g, j)
      BY <1>1 DEF ConsumedBy
    <2>2. g # NoInvocation
      BY <1>1, GatewayAssumption
    <2>. QED BY <2>1, <2>2 DEF GatewayInv, RemoteCallsWereAllowed, Allowed
  <1>11. HeldGrantsAreUnused'
    <2>1. \A n \in DOMAIN remote, j \in Invocations \ {i} :
            invocation[j].grant # NoInvocation => remote[n].grant # invocation[j].grant
      BY DEF GatewayInv, HeldGrantsAreUnused
    <2>2. \A n \in DOMAIN remote', j \in Invocations :
            invocation'[j].grant # NoInvocation => remote'[n].grant # invocation'[j].grant
      <3>1. ASSUME NEW n \in DOMAIN remote, NEW j \in Invocations, invocation'[j].grant # NoInvocation
            PROVE  remote[n].grant # invocation'[j].grant
        BY <1>3, <1>10, <2>1, <3>1
      <3>. QED BY <1>1, <3>1, Zenon
    <2>. QED BY <2>2, Zenon DEF HeldGrantsAreUnused
  <1>. QED BY <1>8, <1>9, <1>11 DEF GatewayInv

InvocationRecords ==
  [at : {"ready", "discover", "authorize", "consume", "connect", "call"},
   grant : ApprovalGrants \cup {NoInvocation}, server : {"expected", "other", NoInvocation}]
GrantRecords ==
  [status : {"unissued", "issued", "expired", "consumed"}, by : Invocations \cup {NoInvocation}]
EventRecords == [event : {"issued", "consumed"}, grant : ApprovalGrants]
CallRecords ==
  [by : Invocations, grant : ApprovalGrants \cup {NoInvocation}, server : {"expected", "other"}]

\* The records that the steps of an invocation put keep their type.
LEMMA RecordsMove ==
    ASSUME NEW v \in InvocationRecords
    PROVE  /\ \A at \in {"discover", "authorize", "consume", "connect"} :
                [v EXCEPT !.at = at] \in InvocationRecords
           /\ \A g \in ApprovalGrants :
                [v EXCEPT !.at = "connect", !.grant = g] \in InvocationRecords
           /\ \A s \in {"expected", "other"} :
                [v EXCEPT !.at = "call", !.server = s] \in InvocationRecords
           /\ Ready \in InvocationRecords
  BY DEF InvocationRecords, Ready

\* So do the grants'.
LEMMA GrantsMove ==
    ASSUME NEW v \in GrantRecords, NEW status \in {"issued", "expired"}
    PROVE  [v EXCEPT !.status = status] \in GrantRecords
  BY DEF GrantRecords

\* Every step keeps the types; a call's server is the one that was validated.
LEMMA TypesStep == GatewayInv /\ [GatewayNext]_gatewayVars => GatewayTypeOK'
  <1> SUFFICES ASSUME GatewayInv, [GatewayNext]_gatewayVars PROVE GatewayTypeOK'
    OBVIOUS
  <1> GatewayTypeOK
    BY DEF GatewayInv
  <1> USE GatewayAssumption
  <1>0. /\ GatewayTypeOK <=>
             /\ grants \in [ApprovalGrants -> GrantRecords]
             /\ audit \in Seq(EventRecords)
             /\ invocation \in [Invocations -> InvocationRecords]
             /\ tries \in [Invocations -> 0 .. MaxInvokes] /\ server \in {"expected", "other"}
             /\ callsThisMinute \in 0 .. CallLimit /\ cancelled \in BOOLEAN
             /\ remote \in Seq(CallRecords)
        /\ GatewayTypeOK' <=>
             /\ grants' \in [ApprovalGrants -> GrantRecords]
             /\ audit' \in Seq(EventRecords)
             /\ invocation' \in [Invocations -> InvocationRecords]
             /\ tries' \in [Invocations -> 0 .. MaxInvokes] /\ server' \in {"expected", "other"}
             /\ callsThisMinute' \in 0 .. CallLimit /\ cancelled' \in BOOLEAN
             /\ remote' \in Seq(CallRecords)
    BY DEF GatewayTypeOK, GrantRecords, EventRecords, InvocationRecords, CallRecords
  <1>1. CASE UNCHANGED gatewayVars
    BY <1>0, <1>1 DEF gatewayVars
  <1>2. ASSUME NEW g \in ApprovalGrants, Issue(g) \/ Expire(g)
        PROVE  GatewayTypeOK'
    <2>0. /\ \/ grants' = [grants EXCEPT ![g].status = "issued"]
             \/ grants' = [grants EXCEPT ![g].status = "expired"]
          /\ audit' = Append(audit, [event |-> "issued", grant |-> g]) \/ audit' = audit
          /\ UNCHANGED <<invocation, tries, server, callsThisMinute, cancelled, remote>>
      BY <1>2 DEF Issue, Expire
    <2>1. grants' \in [ApprovalGrants -> GrantRecords]
      <3>1. /\ [grants[g] EXCEPT !.status = "issued"] \in GrantRecords
            /\ [grants[g] EXCEPT !.status = "expired"] \in GrantRecords
        BY <1>0, GrantsMove
      <3>. QED BY <1>0, <2>0, <3>1
    <2>2. [event |-> "issued", grant |-> g] \in EventRecords
      BY DEF EventRecords
    <2>3. audit' \in Seq(EventRecords)
      <3>1. audit \in Seq(EventRecords)
        BY <1>0
      <3> DEFINE e == [event |-> "issued", grant |-> g]
      <3> HIDE DEF e
      <3>2. Append(audit, e) \in Seq(EventRecords)
        BY <2>2, <3>1 DEF e
      <3>. QED BY <2>0, <3>1, <3>2, Zenon DEF e
    <2>. QED BY <1>0, <2>0, <2>1, <2>3
  <1>3. ASSUME NEW i \in Invocations, Invoke(i)
        PROVE  GatewayTypeOK'
    <2>1. tries' \in [Invocations -> 0 .. MaxInvokes]
      BY <1>0, <1>3 DEF Invoke
    <2>2. invocation' \in [Invocations -> InvocationRecords]
      BY <1>0, <1>3, RecordsMove DEF Invoke, Step
    <2>. QED BY <1>0, <1>3, <2>1, <2>2 DEF Invoke
  <1>4. ASSUME NEW i \in Invocations, Discover(i) \/ Authorize(i) \/ CallAborted(i)
        PROVE  GatewayTypeOK'
    <2>1. (\E at \in {"connect", "authorize", "consume"} : Step(i, at)) \/ End(i)
      BY <1>4 DEF Discover, Authorize, CallAborted
    <2>2. invocation' \in [Invocations -> InvocationRecords]
      <3>1. \A at \in {"connect", "authorize", "consume"} :
              [invocation[i] EXCEPT !.at = at] \in InvocationRecords
        BY <1>0, RecordsMove
      <3>2. CASE End(i)
        BY <1>0, <3>2, RecordsMove DEF End
      <3>3. ASSUME NEW at \in {"connect", "authorize", "consume"}, Step(i, at)
            PROVE  invocation' \in [Invocations -> InvocationRecords]
        BY <1>0, <3>1, <3>3 DEF Step
      <3>. QED BY <2>1, <3>2, <3>3
    <2>. QED BY <1>0, <1>4, <2>2 DEF Discover, Authorize, CallAborted
  <1>5. ASSUME NEW i \in Invocations, Consume(i)
        PROVE  GatewayTypeOK'
    <2>1. CASE Consumable(OfferedGrant[i], i)
      <3>1. /\ grants' = [grants EXCEPT ![OfferedGrant[i]] = [status |-> "consumed", by |-> i]]
            /\ audit' = Append(audit, [event |-> "consumed", grant |-> OfferedGrant[i]])
            /\ invocation' = [invocation EXCEPT ![i].at = "connect", ![i].grant = OfferedGrant[i]]
            /\ UNCHANGED <<tries, server, callsThisMinute, cancelled, remote>>
        BY <1>5, <2>1 DEF Consume
      <3>2. OfferedGrant[i] \in ApprovalGrants
        OBVIOUS
      <3>3. /\ [status |-> "consumed", by |-> i] \in GrantRecords
            /\ [event |-> "consumed", grant |-> OfferedGrant[i]] \in EventRecords
        BY <3>2 DEF GrantRecords, EventRecords
      <3>4. invocation' \in [Invocations -> InvocationRecords]
        BY <1>0, <3>1, <3>2, RecordsMove
      <3>5. grants' \in [ApprovalGrants -> GrantRecords] /\ audit' \in Seq(EventRecords)
        BY <1>0, <3>1, <3>2, <3>3
      <3>. QED BY <1>0, <3>1, <3>4, <3>5
    <2>2. CASE ~Consumable(OfferedGrant[i], i)
      <3>1. End(i) /\ UNCHANGED <<grants, audit, tries, server, callsThisMinute, cancelled, remote>>
        BY <1>5, <2>2 DEF Consume
      <3>2. invocation' \in [Invocations -> InvocationRecords]
        BY <1>0, <3>1, RecordsMove DEF End
      <3>. QED BY <1>0, <3>1, <3>2
    <2>. QED BY <2>1, <2>2
  <1>6. ASSUME NEW i \in Invocations, Connect(i)
        PROVE  GatewayTypeOK'
    <2>1. callsThisMinute' \in 0 .. CallLimit
      BY <1>0, <1>6 DEF Connect, Admitted
    <2>2. \/ invocation' = [invocation EXCEPT ![i].at = "call", ![i].server = server]
          \/ End(i)
      BY <1>6 DEF Connect
    <2>3. invocation' \in [Invocations -> InvocationRecords]
      <3>1. [invocation[i] EXCEPT !.at = "call", !.server = server] \in InvocationRecords
        BY <1>0, RecordsMove
      <3>2. CASE End(i)
        BY <1>0, <3>2, RecordsMove DEF End
      <3>. QED BY <1>0, <2>2, <3>1, <3>2
    <2>. QED BY <1>0, <1>6, <2>1, <2>3 DEF Connect
  <1>7. ASSUME NEW i \in Invocations, CallTool(i), invocation[i].server = "expected"
        PROVE  GatewayTypeOK'
    <2>1. invocation[i].grant \in ApprovalGrants \cup {NoInvocation}
      BY <1>0 DEF InvocationRecords
    <2>2. [by |-> i, grant |-> invocation[i].grant, server |-> invocation[i].server] \in CallRecords
      BY <1>7, <2>1 DEF CallRecords
    <2>3. remote' \in Seq(CallRecords)
      BY <1>0, <1>7, <2>2 DEF CallTool
    <2>4. invocation' \in [Invocations -> InvocationRecords]
      BY <1>0, <1>7, RecordsMove DEF CallTool, End
    <2>. QED BY <1>0, <1>7, <2>3, <2>4 DEF CallTool
  <1>8. CASE MinutePasses
    <2>1. callsThisMinute' \in 0 .. CallLimit
      BY <1>0, <1>8 DEF MinutePasses
    <2>. QED BY <1>0, <1>8, <2>1 DEF MinutePasses
  <1>9. CASE Cancel \/ ServerChanges
    BY <1>0, <1>9 DEF Cancel, ServerChanges
  <1>10. ASSUME NEW i \in Invocations, CallTool(i)
         PROVE  invocation[i].server = "expected"
    BY <1>10 DEF CallTool, GatewayInv, InvocationsAreAllowed
  <1>. QED BY <1>1, <1>2, <1>3, <1>4, <1>5, <1>6, <1>7, <1>8, <1>9, <1>10 DEF GatewayNext

\* One step per action of the gateway.
LEMMA GatewayInvStep == GatewayInv /\ [GatewayNext]_gatewayVars => GatewayInv'
  <1> SUFFICES ASSUME GatewayInv, [GatewayNext]_gatewayVars PROVE GatewayInv'
    OBVIOUS
  <1>0. GatewayTypeOK' /\ invocation \in [Invocations -> InvocationRecords]
    BY TypesStep DEF GatewayInv, GatewayTypeOK, InvocationRecords
  <1>1. ASSUME UNCHANGED <<grants, audit, invocation, remote>>
        PROVE  GatewayInv'
    <2>1. ConsumedStays
      BY <1>1 DEF ConsumedStays
    <2>. QED BY <1>0, <1>1, <2>1, StepWithoutCall
  <1>2. CASE UNCHANGED gatewayVars \/ MinutePasses \/ Cancel \/ ServerChanges
    BY <1>1, <1>2 DEF gatewayVars, MinutePasses, Cancel, ServerChanges
  <1>3. ASSUME NEW g \in ApprovalGrants, Issue(g) \/ Expire(g)
        PROVE  GatewayInv'
    <2>1. /\ grants[g].status # "consumed" /\ remote' = remote /\ invocation' = invocation
          /\ \A h \in ApprovalGrants \ {g} : grants'[h] = grants[h]
      BY <1>3 DEF Issue, Expire, GatewayInv, GatewayTypeOK
    <2>2. Range(audit) \subseteq Range(audit')
      <3>1. audit \in Seq(EventRecords)
        BY DEF GatewayInv, GatewayTypeOK, EventRecords
      <3>2. audit' = audit \/ audit' = Append(audit, [event |-> "issued", grant |-> g])
        BY <1>3 DEF Issue, Expire
      <3>3. Range(Append(audit, [event |-> "issued", grant |-> g])) =
               Range(audit) \cup {[event |-> "issued", grant |-> g]}
        BY <3>1, AppendedRange, Zenon
      <3>. QED BY <3>2, <3>3, Zenon
    <2>3. ConsumedStays
      BY <2>1, <2>2 DEF ConsumedStays
    <2>. QED BY <1>0, <2>1, <2>3, StepWithoutCall
  <1>4. ASSUME NEW i \in Invocations, NEW at \in {"discover", "authorize", "consume", "connect"},
               invocation[i].at \in {"ready", "discover", "authorize"}, Step(i, at),
               UNCHANGED <<grants, audit, remote>>,
               at = "connect" => Evaluate(ToolOf[i]) = "allow"
        PROVE  GatewayInv'
    <2>1. invocation[i].grant = NoInvocation
      BY <1>4 DEF GatewayInv, InvocationsAreAllowed
    <2>2. invocation' = [invocation EXCEPT ![i] = [invocation[i] EXCEPT !.at = at]]
      BY <1>4 DEF Step
    <2>3. /\ [invocation[i] EXCEPT !.at = at].at = at
          /\ [invocation[i] EXCEPT !.at = at].grant = NoInvocation
      BY <1>0, <2>1 DEF InvocationRecords
    <2> DEFINE v == [invocation[i] EXCEPT !.at = at]
    <2> HIDE DEF v
    <2>4. v.at \in {"connect", "call"} => Allowed(i, v.grant)
      BY <1>4, <2>3 DEF Allowed, v
    <2>. QED BY <1>0, <1>4, <2>2, <2>3, <2>4, StepOfOne DEF v
  <1>5. ASSUME NEW i \in Invocations, End(i), UNCHANGED <<grants, audit, remote>>
        PROVE  GatewayInv'
    BY <1>0, <1>5, StepOfOne DEF End, Ready
  <1>6. ASSUME NEW i \in Invocations, Invoke(i)
        PROVE  GatewayInv'
    BY <1>4, <1>6 DEF Invoke
  <1>7. ASSUME NEW i \in Invocations, Discover(i)
        PROVE  GatewayInv'
    BY <1>4, <1>5, <1>7 DEF Discover
  <1>8. ASSUME NEW i \in Invocations, Authorize(i)
        PROVE  GatewayInv'
    BY <1>4, <1>5, <1>8 DEF Authorize
  <1>9. ASSUME NEW i \in Invocations, Consume(i)
        PROVE  GatewayInv'
    <2>1. CASE Consumable(OfferedGrant[i], i)
      BY <1>0, <1>9, <2>1, ConsumeStep
    <2>2. CASE ~Consumable(OfferedGrant[i], i)
      BY <1>5, <1>9, <2>2 DEF Consume
    <2>. QED BY <2>1, <2>2
  <1>10. ASSUME NEW i \in Invocations, Connect(i)
         PROVE  GatewayInv'
    <2>1. UNCHANGED <<grants, audit, remote>> /\ invocation[i].at = "connect"
      BY <1>10 DEF Connect
    <2>2. CASE End(i)
      BY <1>5, <2>1, <2>2
    <2>3. CASE ~End(i)
      <3>1. /\ server = "expected"
            /\ invocation' = [invocation EXCEPT ![i].at = "call", ![i].server = server]
        BY <1>10, <2>3 DEF Connect, Compatible
      <3> DEFINE v == [invocation[i] EXCEPT !.at = "call", !.server = server]
      <3>2. v.at = "call" /\ v.server = "expected" /\ v.grant = invocation[i].grant
        BY <1>0, <3>1 DEF InvocationRecords
      <3>3. invocation' = [invocation EXCEPT ![i] = v]
        BY <3>1
      <3> HIDE DEF v
      <3>4. Allowed(i, v.grant)
        BY <2>1, <3>2 DEF GatewayInv, InvocationsAreAllowed
      <3>. QED BY <1>0, <2>1, <3>2, <3>3, <3>4, StepOfOne
    <2>. QED BY <2>2, <2>3
  <1>11. ASSUME NEW i \in Invocations, CallTool(i)
         PROVE  GatewayInv'
    BY <1>0, <1>11, CallStep
  <1>12. ASSUME NEW i \in Invocations, CallAborted(i)
         PROVE  GatewayInv'
    BY <1>5, <1>12 DEF CallAborted
  <1>. QED
    BY <1>2, <1>3, <1>6, <1>7, <1>8, <1>9, <1>10, <1>11, <1>12 DEF GatewayNext

\* However invocations overlap, are retried and share grants, and whatever server
\* answers: a call that needs an approval is the one audited use of its grant.
THEOREM CallsStayAuthorized == GatewaySpec => []CallsAreAuthorized
  <1>1. GatewayInit => GatewayInv
    <2> SUFFICES ASSUME GatewayInit PROVE GatewayInv
      OBVIOUS
    <2>1. GatewayTypeOK
      <3>1. Unissued \in GrantRecords /\ Ready \in InvocationRecords
        BY DEF Unissued, GrantRecords, Ready, InvocationRecords
      <3>2. 0 \in 0 .. MaxInvokes /\ 0 \in 0 .. CallLimit
        BY GatewayAssumption
      <3>3. invocation \in [Invocations -> InvocationRecords] /\ tries \in [Invocations -> 0 .. MaxInvokes]
        BY <3>1, <3>2 DEF GatewayInit
      <3>4. grants \in [ApprovalGrants -> GrantRecords]
        BY <3>1 DEF GatewayInit
      <3>5. audit \in Seq(EventRecords) /\ remote \in Seq(CallRecords)
        BY DEF GatewayInit
      <3>6. server \in {"expected", "other"} /\ cancelled \in BOOLEAN /\ callsThisMinute \in 0 .. CallLimit
        BY <3>2 DEF GatewayInit
      <3>. QED BY <3>3, <3>4, <3>5, <3>6, Zenon
             DEF GatewayTypeOK, InvocationRecords, GrantRecords, EventRecords, CallRecords
    <2>2. InvocationsAreAllowed
      BY DEF GatewayInit, Ready, InvocationsAreAllowed
    <2>. QED BY <2>1, <2>2 DEF GatewayInit, GatewayInv, RemoteCallsWereAllowed,
                               HeldGrantsAreUnused, GrantsAreUsedOnce
  <1>. QED BY <1>1, GatewayInvImplies, GatewayInvStep, PTL DEF GatewaySpec

-----------------------------------------------------------------------------
(* Sequences that hold everything at most once                             *)

\* RemoveAt of such a sequence takes out one element and no other.
LEMMA RemovedOnce ==
  ASSUME NEW S, NEW s \in Seq(S), IsInjective(s), NEW i \in DOMAIN s
  PROVE  /\ RemoveAt(s, i) \in Seq(S) /\ IsInjective(RemoveAt(s, i))
         /\ ToSet(RemoveAt(s, i)) = ToSet(s) \ {s[i]}
  <1> DEFINE n == Len(s)
             r == RemoveAt(s, i)
  <1>1. n \in Nat /\ i \in 1 .. n /\ DOMAIN s = 1 .. n /\ \A j \in 1 .. n : s[j] \in S
    OBVIOUS
  <1>2. /\ SubSeq(s, 1, i - 1) \in Seq(S) /\ Len(SubSeq(s, 1, i - 1)) = i - 1
        /\ \A j \in 1 .. i - 1 : SubSeq(s, 1, i - 1)[j] = s[j]
    BY <1>1, SubSeqProperties
  <1>3. /\ SubSeq(s, i + 1, n) \in Seq(S) /\ Len(SubSeq(s, i + 1, n)) = n - i
        /\ \A j \in 1 .. n - i : SubSeq(s, i + 1, n)[j] = s[i + j]
    BY <1>1, SubSeqProperties
  <1>4. /\ r \in Seq(S) /\ Len(r) = n - 1
        /\ \A j \in 1 .. n - 1 : r[j] = IF j < i THEN s[j] ELSE s[j + 1]
    <2> DEFINE a == SubSeq(s, 1, i - 1)
               b == SubSeq(s, i + 1, n)
    <2>1. r = a \o b
      BY DEF RemoveAt
    <2> HIDE DEF a, b, r
    <2>2. /\ r \in Seq(S) /\ Len(r) = Len(a) + Len(b)
          /\ \A j \in 1 .. Len(a) + Len(b) : r[j] = IF j <= Len(a) THEN a[j] ELSE b[j - Len(a)]
      BY <1>2, <1>3, <2>1, ConcatProperties DEF a, b
    <2>3. Len(a) = i - 1 /\ Len(b) = n - i
      BY <1>2, <1>3 DEF a, b
    <2>4. Len(r) = n - 1
      BY <1>1, <2>2, <2>3
    <2>5. ASSUME NEW j \in 1 .. n - 1 PROVE r[j] = IF j < i THEN s[j] ELSE s[j + 1]
      <3>1. CASE j < i
        <4>1. r[j] = a[j] /\ j \in 1 .. i - 1
          BY <1>1, <2>2, <2>3, <3>1
        <4> QED
          BY <1>2, <3>1, <4>1 DEF a
      <3>2. CASE j >= i
        <4>1. r[j] = b[j - (i - 1)] /\ j - (i - 1) \in 1 .. n - i
          BY <1>1, <2>2, <2>3, <3>2
        <4>2. b[j - (i - 1)] = s[i + (j - (i - 1))]
          BY <1>3, <4>1 DEF b
        <4>3. i + (j - (i - 1)) = j + 1 /\ ~(j < i)
          BY <1>1, <3>2
        <4> QED
          BY <4>1, <4>2, <4>3
      <3> QED
        BY <1>1, <3>1, <3>2
    <2> QED
      BY <2>2, <2>4, <2>5
  <1> HIDE DEF r
  <1>5. DOMAIN r = 1 .. n - 1
    BY <1>4
  <1>6. \A j, k \in 1 .. n : s[j] = s[k] => j = k
    BY <1>1 DEF IsInjective
  <1>7. IsInjective(r)
    BY <1>1, <1>4, <1>5, <1>6 DEF IsInjective
  <1>8. ToSet(r) = ToSet(s) \ {s[i]}
    <2>1. ASSUME NEW x \in ToSet(r) PROVE x \in ToSet(s) \ {s[i]}
      <3>1. PICK j \in 1 .. n - 1 : x = r[j]
        BY <1>5 DEF ToSet
      <3>2. PICK k \in 1 .. n : x = s[k] /\ k # i
        <4>1. CASE j < i
          BY <1>1, <1>4, <3>1, <4>1
        <4>2. CASE j >= i
          <5>1. j + 1 \in 1 .. n /\ j + 1 # i /\ x = s[j + 1]
            BY <1>1, <1>4, <3>1, <4>2
          <5> QED
            BY <5>1
        <4> QED
          BY <1>1, <4>1, <4>2
      <3> QED
        BY <1>1, <1>6, <3>2 DEF ToSet
    <2>2. ASSUME NEW x \in ToSet(s) \ {s[i]} PROVE x \in ToSet(r)
      <3>1. PICK j \in 1 .. n : x = s[j] /\ j # i
        BY <1>1 DEF ToSet
      <3>2. CASE j < i
        <4>1. j \in 1 .. n - 1 /\ r[j] = x
          BY <1>1, <1>4, <3>1, <3>2
        <4> QED
          BY <1>5, <4>1 DEF ToSet
      <3>3. CASE j > i
        <4>1. j - 1 \in 1 .. n - 1 /\ ~(j - 1 < i) /\ (j - 1) + 1 = j
          BY <1>1, <3>1, <3>3
        <4>2. r[j - 1] = x
          BY <1>4, <3>1, <4>1
        <4> QED
          BY <1>5, <4>1, <4>2 DEF ToSet
      <3> QED
        BY <1>1, <3>1, <3>2, <3>3
    <2> QED
      BY <2>1, <2>2
  <1> QED
    BY <1>4, <1>7, <1>8 DEF r

-----------------------------------------------------------------------------
(* Knowledge                                                               *)

MemoryEvents == [type : {"memory.created", "memory.superseded", "memory.deleted"},
                 id : Memories, old : Memories \cup {Nobody}]
Searches == [at : {"idle", "ranking"}, read : SUBSET Memories, since : Nat]

Creates(event, m) == event.id = m /\ event.type # "memory.deleted"
Ends(event, m) == event.old = m \/ (event.id = m /\ event.type = "memory.deleted")

\* One record, its events and its place among the others.
RecordIsTold(m) ==
  /\ ~memory[m].written => memory[m] = Unwritten
  /\ memory[m].ended => memory[m].supersededBy # Nobody
  /\ memory[m].written <=> \E k \in DOMAIN outbox : Creates(outbox[k], m)
  /\ (memory[m].written /\ ~IsActive(memory[m])) <=> \E k \in DOMAIN outbox : Ends(outbox[k], m)

KnowledgeInv ==
  /\ KnowledgeTypeOK
  /\ LineagesAreLines /\ ColumnIsTrue /\ SearchesAreFresh
  /\ \A m \in Memories : RecordIsTold(m)
  /\ \E of \in [Readers -> Searches], made \in Nat : search = [made |-> made, of |-> of]
  /\ \A q \in Readers : search.of[q].since <= Len(outbox)

\* An event more: who is created and who ends, and what searches know.
LEMMA OneMoreEvent ==
  ASSUME KnowledgeInv, NEW e \in MemoryEvents, outbox' = Append(outbox, e), UNCHANGED search,
         \A m \in Memories : IsActive(memory[m]) => IsActive(memory[m])' \/ Ends(e, m)
  PROVE  /\ outbox' \in Seq(MemoryEvents)
         /\ \A m \in Memories :
              /\ (\E k \in DOMAIN outbox : Creates(outbox[k], m))' <=>
                   ((\E k \in DOMAIN outbox : Creates(outbox[k], m)) \/ Creates(e, m))
              /\ (\E k \in DOMAIN outbox : Ends(outbox[k], m))' <=>
                   ((\E k \in DOMAIN outbox : Ends(outbox[k], m)) \/ Ends(e, m))
         /\ SearchesAreFresh'
         /\ \A q \in Readers : search'.of[q].since <= Len(outbox')
  <1>1. outbox \in Seq(MemoryEvents)
    BY DEF KnowledgeInv, KnowledgeTypeOK, MemoryEvents
  <1> DEFINE n == Len(outbox)
  <1>2. /\ n \in Nat /\ DOMAIN outbox = 1 .. n /\ DOMAIN outbox' = 1 .. n + 1 /\ Len(outbox') = n + 1
        /\ outbox' \in Seq(MemoryEvents)
        /\ \A k \in 1 .. n : outbox'[k] = outbox[k]
        /\ outbox'[n + 1] = e
    BY <1>1, AppendProperties
  <1>3. \A q \in Readers : search.of[q] \in Searches /\ search.of[q].since <= n
    BY DEF KnowledgeInv
  <1> HIDE DEF n
  <1>4. ASSUME NEW m \in Memories
        PROVE  /\ (\E k \in DOMAIN outbox : Creates(outbox[k], m))' <=>
                    ((\E k \in DOMAIN outbox : Creates(outbox[k], m)) \/ Creates(e, m))
               /\ (\E k \in DOMAIN outbox : Ends(outbox[k], m))' <=>
                    ((\E k \in DOMAIN outbox : Ends(outbox[k], m)) \/ Ends(e, m))
    BY <1>2 DEF Creates, Ends
  <1>5. ASSUME NEW q \in Readers, NEW m \in search.of[q].read
        PROVE  \/ IsActive(memory[m])'
               \/ \E k \in search.of[q].since + 1 .. n + 1 : Ends(outbox'[k], m)
    <2>1. m \in Memories /\ search.of[q].since \in Nat /\ search.of[q].since <= n
      BY <1>3 DEF Searches
    <2>2. CASE IsActive(memory[m])
      <3>1. n + 1 \in search.of[q].since + 1 .. n + 1
        BY <1>2, <2>1
      <3> QED
        BY <1>2, <2>1, <2>2, <3>1
    <2>3. CASE ~IsActive(memory[m])
      <3>1. PICK k \in search.of[q].since + 1 .. n : Ends(outbox[k], m)
        BY <2>3 DEF KnowledgeInv, SearchesAreFresh, Ends, n
      <3>2. k \in 1 .. n /\ k \in search.of[q].since + 1 .. n + 1
        BY <1>2, <2>1
      <3> QED
        BY <1>2, <3>1, <3>2
    <2> QED
      BY <2>2, <2>3
  <1>6. SearchesAreFresh'
    <2> SUFFICES ASSUME NEW q \in Readers, NEW m \in search.of[q].read
                 PROVE  \/ IsActive(memory'[m])
                        \/ \E k \in search.of[q].since + 1 .. Len(outbox') : Ends(outbox'[k], m)
      BY DEF SearchesAreFresh, Ends
    <2> QED
      BY <1>2, <1>5
  <1>7. \A q \in Readers : search'.of[q].since <= Len(outbox')
    BY <1>2, <1>3 DEF Searches
  <1> QED
    BY <1>2, <1>4, <1>6, <1>7

\* The order of updates after one of them moved to the end.
LEMMA MovedToTheEnd ==
  ASSUME KnowledgeInv, NEW m \in Memories, memory[m].written
  PROVE  /\ WithoutUpdate(m) \in Seq(Memories) /\ IsInjective(WithoutUpdate(m))
         /\ ToSet(WithoutUpdate(m)) = {x \in Memories : memory[x].written} \ {m}
  <1>1. ToSet(updated) = {x \in Memories : memory[x].written} /\ IsInjective(updated)
        /\ updated \in Seq(Memories)
    BY DEF KnowledgeInv, KnowledgeTypeOK
  <1>2. \E i \in DOMAIN updated : updated[i] = m
    BY <1>1 DEF ToSet
  <1>3. PICK i \in DOMAIN updated : updated[i] = m /\ WithoutUpdate(m) = RemoveAt(updated, i)
    BY <1>2 DEF WithoutUpdate
  <1> QED
    BY <1>1, <1>3, RemovedOnce

\* Appending what is not there yet.
LEMMA AppendedOnce ==
  ASSUME NEW S, NEW s \in Seq(S), IsInjective(s), NEW x \in S, x \notin ToSet(s)
  PROVE  /\ Append(s, x) \in Seq(S) /\ IsInjective(Append(s, x))
         /\ ToSet(Append(s, x)) = ToSet(s) \cup {x}
  <1> DEFINE t == Append(s, x)
             n == Len(s)
  <1>1. /\ n \in Nat /\ DOMAIN s = 1 .. n /\ t \in Seq(S) /\ DOMAIN t = 1 .. n + 1
        /\ \A k \in 1 .. n : t[k] = s[k]
        /\ t[n + 1] = x
    BY AppendProperties
  <1> HIDE DEF t, n
  <1>2. IsInjective(t)
    BY <1>1 DEF IsInjective, ToSet
  <1>3. ToSet(t) = ToSet(s) \cup {x}
    <2>1. \A k \in 1 .. n : t[k] \in ToSet(s)
      BY <1>1 DEF ToSet
    <2>2. ASSUME NEW y \in ToSet(t) PROVE y \in ToSet(s) \cup {x}
      BY <1>1, <2>1, <2>2 DEF ToSet
    <2>3. ASSUME NEW y \in ToSet(s) PROVE y \in ToSet(t)
      <3>1. PICK k \in 1 .. n : y = s[k]
        BY <1>1, <2>3 DEF ToSet
      <3>2. k \in 1 .. n + 1 /\ t[k] = y
        BY <1>1, <3>1
      <3> QED
        BY <1>1, <3>2 DEF ToSet
    <2>4. x \in ToSet(t)
      <3>1. n + 1 \in DOMAIN t
        BY <1>1
      <3> QED
        BY <1>1, <3>1 DEF ToSet
    <2> QED
      BY <2>2, <2>3, <2>4
  <1> QED
    BY <1>1, <1>2, <1>3 DEF t

LEMMA NewRecordIsActive ==
  ASSUME NEW old \in Memories \cup {Nobody}
  PROVE  /\ NewRecord(old) \in Records /\ IsActive(NewRecord(old))
         /\ NewRecord(old).written /\ NewRecord(old).supersedes = old
         /\ NewRecord(old).supersededBy = Nobody /\ NewRecord(old).column
         /\ NewRecord(old).deleted = FALSE /\ NewRecord(old).ended = FALSE
  <1>1. PICK u \in Records : u = Unwritten
    BY DEF Unwritten, Records
  <1>2. u.supersededBy = Nobody /\ u.deleted = FALSE /\ u.ended = FALSE
    BY <1>1 DEF Unwritten
  <1>3. NewRecord(old) = [u EXCEPT !.written = TRUE, !.supersedes = old, !.column = TRUE]
    BY <1>1 DEF NewRecord
  <1>4. NewRecord(old) = [written |-> TRUE, supersedes |-> old, supersededBy |-> u.supersededBy,
                          deleted |-> u.deleted, ended |-> u.ended, column |-> TRUE]
    BY <1>3 DEF Records
  <1> QED
    BY <1>2, <1>4 DEF Records, IsActive

LEMMA RememberKeeps == ASSUME KnowledgeInv, NEW m \in Memories, Remember(m) PROVE KnowledgeInv'
  <1> DEFINE e == Event("memory.created", m, Nobody)
             new == NewRecord(Nobody)
  <1>1. /\ ~memory[m].written /\ memory' = [memory EXCEPT ![m] = new]
        /\ outbox' = Append(outbox, e) /\ updated' = Append(updated, m)
        /\ UNCHANGED <<store, search>>
    BY DEF Remember
  <1>2. e \in MemoryEvents /\ e.type = "memory.created" /\ e.id = m /\ e.old = Nobody
    BY DEF Event, MemoryEvents
  <1>3. new \in Records /\ IsActive(new) /\ new.written /\ new.supersedes = Nobody
        /\ new.supersededBy = Nobody /\ new.column /\ new.ended = FALSE
    BY NewRecordIsActive
  <1> HIDE DEF e, new
  <1>4. memory' \in [Memories -> Records] /\ memory'[m] = new
        /\ \A x \in Memories \ {m} : memory'[x] = memory[x]
    BY <1>1, <1>3 DEF KnowledgeInv, KnowledgeTypeOK
  <1>5. \A x \in Memories : IsActive(memory[x]) => IsActive(memory[x])'
    BY <1>3, <1>4
  <1>6. /\ outbox' \in Seq(MemoryEvents) /\ SearchesAreFresh'
        /\ \A q \in Readers : search'.of[q].since <= Len(outbox')
        /\ \A x \in Memories :
              /\ (\E k \in DOMAIN outbox : Creates(outbox[k], x))' <=>
                   ((\E k \in DOMAIN outbox : Creates(outbox[k], x)) \/ Creates(e, x))
              /\ (\E k \in DOMAIN outbox : Ends(outbox[k], x))' <=>
                   ((\E k \in DOMAIN outbox : Ends(outbox[k], x)) \/ Ends(e, x))
    BY <1>1, <1>2, <1>5, OneMoreEvent
  <1>7. \A x \in Memories : (Creates(e, x) <=> x = m) /\ ~Ends(e, x)
    BY <1>2, KnowledgeAssumption DEF Creates, Ends
  <1>8. \A x \in Memories : RecordIsTold(x)'
    <2> SUFFICES ASSUME NEW x \in Memories PROVE RecordIsTold(x)'
      OBVIOUS
    <2>1. RecordIsTold(x)
      BY DEF KnowledgeInv
    <2>2. CASE x = m
      BY <1>1, <1>3, <1>4, <1>6, <1>7, <2>1, <2>2 DEF RecordIsTold
    <2>3. CASE x # m
      BY <1>4, <1>6, <1>7, <2>1, <2>3 DEF RecordIsTold
    <2> QED
      BY <2>2, <2>3
  <1>9. LineagesAreLines'
    <2>1. memory[m].supersededBy = Nobody /\ memory[m].written = FALSE
      BY <1>1 DEF KnowledgeInv, RecordIsTold, Unwritten
    <2> QED
      BY <1>3, <1>4, <2>1, KnowledgeAssumption DEF KnowledgeInv, LineagesAreLines
  <1>10. ColumnIsTrue'
    BY <1>1, <1>3, <1>4 DEF KnowledgeInv, ColumnIsTrue
  <1>11. /\ updated' \in Seq(Memories) /\ IsInjective(updated')
         /\ ToSet(updated') = {x \in Memories : memory'[x].written}
    <2>1. m \notin ToSet(updated) /\ updated \in Seq(Memories) /\ IsInjective(updated)
      BY <1>1 DEF KnowledgeInv, KnowledgeTypeOK
    <2>2. {x \in Memories : memory'[x].written} = {x \in Memories : memory[x].written} \cup {m}
      BY <1>3, <1>4
    <2> QED
      BY <1>1, <2>1, <2>2, AppendedOnce DEF KnowledgeInv, KnowledgeTypeOK
  <1> QED
    BY <1>1, <1>4, <1>6, <1>8, <1>9, <1>10, <1>11 DEF KnowledgeInv, KnowledgeTypeOK, MemoryEvents

LEMMA ForgetKeeps == ASSUME KnowledgeInv, NEW m \in Memories, Forget(m) PROVE KnowledgeInv'
  <1> DEFINE e == Event("memory.deleted", m, Nobody)
  <1>1. /\ Forgettable(m) /\ outbox' = Append(outbox, e) /\ Touch(m) /\ UNCHANGED <<store, search>>
        /\ memory \in [Memories -> Records] /\ RecordIsTold(m)
    BY DEF Forget, KnowledgeInv, KnowledgeTypeOK
  <1>2. e \in MemoryEvents /\ e.type = "memory.deleted" /\ e.id = m /\ e.old = Nobody
    BY DEF Event, MemoryEvents
  <1> HIDE DEF e
  <1>3. PICK gone : gone = [memory[m] EXCEPT !.deleted = TRUE,
                               !.column = IF store = "postgres" THEN FALSE ELSE @]
    OBVIOUS
  <1>4. gone = [written |-> memory[m].written, supersedes |-> memory[m].supersedes,
                supersededBy |-> memory[m].supersededBy, deleted |-> TRUE, ended |-> memory[m].ended,
                column |-> IF store = "postgres" THEN FALSE ELSE memory[m].column]
    BY <1>1, <1>3 DEF Records
  <1>5. /\ gone \in Records /\ gone.written = memory[m].written /\ ~IsActive(gone)
        /\ gone.supersedes = memory[m].supersedes /\ gone.supersededBy = memory[m].supersededBy
        /\ gone.ended = memory[m].ended
        /\ store = "postgres" => gone.column = FALSE
    BY <1>1, <1>4 DEF Records, IsActive
  <1>6. memory' = [memory EXCEPT ![m] = gone]
    BY Zenon, <1>1, <1>3 DEF Forget
  <1>7. memory' \in [Memories -> Records] /\ memory'[m] = gone
        /\ \A x \in Memories \ {m} : memory'[x] = memory[x]
    BY <1>1, <1>5, <1>6
  <1>8. memory[m].written
    BY <1>1 DEF Forgettable, IsActive
  <1>9. \A x \in Memories : (Ends(e, x) <=> x = m) /\ ~Creates(e, x)
    BY <1>2, KnowledgeAssumption DEF Creates, Ends
  <1>10. \A x \in Memories : IsActive(memory[x]) => IsActive(memory[x])' \/ Ends(e, x)
    BY <1>7, <1>9
  <1>11. /\ outbox' \in Seq(MemoryEvents) /\ SearchesAreFresh'
         /\ \A q \in Readers : search'.of[q].since <= Len(outbox')
         /\ \A x \in Memories :
               /\ (\E k \in DOMAIN outbox : Creates(outbox[k], x))' <=>
                    ((\E k \in DOMAIN outbox : Creates(outbox[k], x)) \/ Creates(e, x))
               /\ (\E k \in DOMAIN outbox : Ends(outbox[k], x))' <=>
                    ((\E k \in DOMAIN outbox : Ends(outbox[k], x)) \/ Ends(e, x))
    BY <1>1, <1>2, <1>10, OneMoreEvent
  <1>12. \A x \in Memories : RecordIsTold(x)'
    <2> SUFFICES ASSUME NEW x \in Memories PROVE RecordIsTold(x)'
      OBVIOUS
    <2>1. RecordIsTold(x)
      BY DEF KnowledgeInv
    <2>2. CASE x = m
      BY <1>5, <1>7, <1>8, <1>9, <1>11, <2>1, <2>2 DEF RecordIsTold
    <2>3. CASE x # m
      BY <1>7, <1>9, <1>11, <2>1, <2>3 DEF RecordIsTold
    <2> QED
      BY <2>2, <2>3
  <1>13. LineagesAreLines'
    BY <1>5, <1>7 DEF KnowledgeInv, LineagesAreLines
  <1>14. ColumnIsTrue'
    BY <1>1, <1>5, <1>7 DEF KnowledgeInv, ColumnIsTrue
  <1>15. /\ updated' \in Seq(Memories) /\ IsInjective(updated')
         /\ ToSet(updated') = {x \in Memories : memory'[x].written}
    <2>1. {x \in Memories : memory'[x].written} = {x \in Memories : memory[x].written}
      BY <1>5, <1>7
    <2>2. /\ WithoutUpdate(m) \in Seq(Memories) /\ IsInjective(WithoutUpdate(m))
          /\ ToSet(WithoutUpdate(m)) = {x \in Memories : memory[x].written} \ {m}
      BY <1>8, MovedToTheEnd
    <2>3. updated' = Append(WithoutUpdate(m), m)
      BY <1>1 DEF Touch
    <2> QED
      BY <1>8, <2>1, <2>2, <2>3, AppendedOnce
  <1> QED
    BY <1>1, <1>7, <1>11, <1>12, <1>13, <1>14, <1>15 DEF KnowledgeInv, KnowledgeTypeOK, MemoryEvents

LEMMA SupersedeKeeps ==
  ASSUME KnowledgeInv, NEW old \in Memories, NEW new \in Memories, Supersede(old, new)
  PROVE  KnowledgeInv'
  <1> DEFINE e == Event("memory.superseded", new, old)
  <1>1. /\ old # new /\ IsActive(memory[old]) /\ ~memory[new].written
        /\ outbox' = Append(outbox, e)
        /\ updated' = WithoutUpdate(old) \o <<new, old>> /\ UNCHANGED <<store, search>>
        /\ memory \in [Memories -> Records]
    BY DEF Supersede, Supersedable, KnowledgeInv, KnowledgeTypeOK
  <1>2. e \in MemoryEvents /\ e.type = "memory.superseded" /\ e.id = new /\ e.old = old
    BY DEF Event, MemoryEvents
  <1> HIDE DEF e
  <1>3. PICK done : done = IF store = "sqlite" THEN SqliteSuperseded(memory[old], new)
                           ELSE PostgresSuperseded(memory[old], new)
    OBVIOUS
  <1>4. /\ done \in Records /\ done.written = memory[old].written /\ ~IsActive(done)
        /\ done.supersedes = memory[old].supersedes /\ done.supersededBy = new
        /\ store # "sqlite" => done.column = FALSE
    <2>1. CASE store = "sqlite"
      <3>1. done = [memory[old] EXCEPT !.supersededBy = new, !.ended = TRUE]
        BY <1>3, <2>1 DEF SqliteSuperseded
      <3>2. done = [written |-> memory[old].written, supersedes |-> memory[old].supersedes,
                    supersededBy |-> new, deleted |-> memory[old].deleted, ended |-> TRUE,
                    column |-> memory[old].column]
        BY <1>1, <3>1 DEF Records
      <3> QED
        BY <1>1, <2>1, <3>2 DEF Records, IsActive
    <2>2. CASE store # "sqlite"
      <3>1. done = [memory[old] EXCEPT !.supersededBy = new, !.column = FALSE]
        BY <1>3, <2>2 DEF PostgresSuperseded
      <3>2. done = [written |-> memory[old].written, supersedes |-> memory[old].supersedes,
                    supersededBy |-> new, deleted |-> memory[old].deleted,
                    ended |-> memory[old].ended, column |-> FALSE]
        BY <1>1, <3>1 DEF Records
      <3> QED
        BY <1>1, <3>2, KnowledgeAssumption DEF Records, IsActive
    <2> QED
      BY <2>1, <2>2
  <1>5. /\ NewRecord(old) \in Records /\ IsActive(NewRecord(old))
        /\ NewRecord(old).written /\ NewRecord(old).supersedes = old
        /\ NewRecord(old).supersededBy = Nobody /\ NewRecord(old).column
        /\ NewRecord(old).ended = FALSE
    BY NewRecordIsActive
  <1>6. memory' = [memory EXCEPT ![new] = NewRecord(old), ![old] = done]
    BY <1>1, <1>3 DEF Supersede
  <1>7. memory' \in [Memories -> Records] /\ memory'[new] = NewRecord(old) /\ memory'[old] = done
        /\ \A x \in Memories \ {old, new} : memory'[x] = memory[x]
    BY <1>1, <1>4, <1>5, <1>6
  <1>8. \A x \in Memories : (Ends(e, x) <=> x = old) /\ (Creates(e, x) <=> x = new)
    BY <1>2 DEF Creates, Ends
  <1>9. \A x \in Memories : IsActive(memory[x]) => IsActive(memory[x])' \/ Ends(e, x)
    BY <1>5, <1>7, <1>8
  <1>10. /\ outbox' \in Seq(MemoryEvents) /\ SearchesAreFresh'
         /\ \A q \in Readers : search'.of[q].since <= Len(outbox')
         /\ \A x \in Memories :
               /\ (\E k \in DOMAIN outbox : Creates(outbox[k], x))' <=>
                    ((\E k \in DOMAIN outbox : Creates(outbox[k], x)) \/ Creates(e, x))
               /\ (\E k \in DOMAIN outbox : Ends(outbox[k], x))' <=>
                    ((\E k \in DOMAIN outbox : Ends(outbox[k], x)) \/ Ends(e, x))
    BY <1>1, <1>2, <1>9, OneMoreEvent
  <1>11. memory[old].written /\ memory[old].supersededBy = Nobody
    BY <1>1 DEF IsActive
  <1>12. \A x \in Memories : RecordIsTold(x)'
    <2> SUFFICES ASSUME NEW x \in Memories PROVE RecordIsTold(x)'
      OBVIOUS
    <2>1. RecordIsTold(x)
      BY DEF KnowledgeInv
    <2>2. CASE x = old
      BY <1>4, <1>7, <1>8, <1>10, <1>11, <2>1, <2>2, KnowledgeAssumption, <1>1 DEF RecordIsTold
    <2>3. CASE x = new
      BY <1>1, <1>5, <1>7, <1>8, <1>10, <2>1, <2>3 DEF RecordIsTold
    <2>4. CASE x \notin {old, new}
      BY <1>7, <1>8, <1>10, <2>1, <2>4 DEF RecordIsTold
    <2> QED
      BY <2>2, <2>3, <2>4
  <1>13. LineagesAreLines'
    <2>1. memory[new].supersededBy = Nobody /\ memory[new].written = FALSE
      BY <1>1 DEF KnowledgeInv, RecordIsTold, Unwritten
    <2>2. \A x, y \in Memories :
            /\ memory[x].supersededBy = y => memory[y].written /\ memory[y].supersedes = x
            /\ memory[y].supersedes = x => memory[x].supersededBy = y
      BY DEF KnowledgeInv, LineagesAreLines
    <2> SUFFICES ASSUME NEW x \in Memories, NEW y \in Memories
                 PROVE  /\ memory'[x].supersededBy = y => memory'[y].written /\ memory'[y].supersedes = x
                        /\ memory'[y].supersedes = x => memory'[x].supersededBy = y
      BY DEF LineagesAreLines
    <2>3. memory[x].supersededBy # new
      BY <2>1, <2>2
    <2>4. memory[y].supersedes # old
      BY <1>11, <2>2, KnowledgeAssumption
    <2>5. /\ memory'[new].supersededBy = Nobody /\ memory'[new].supersedes = old
          /\ memory'[new].written
          /\ memory'[old].supersededBy = new /\ memory'[old].written
          /\ memory'[old].supersedes = memory[old].supersedes
      BY <1>4, <1>5, <1>7, <1>11
    <2>6. CASE x = old
      <3>1. CASE y = new
        BY <2>5, <2>6, <3>1
      <3>2. CASE y = old
        BY <1>1, <1>11, <2>2, <2>5, <2>6, <3>2, KnowledgeAssumption
      <3>3. CASE y \notin {old, new}
        BY <1>7, <2>4, <2>5, <2>6, <3>3
      <3> QED
        BY <3>1, <3>2, <3>3
    <2>7. CASE x = new
      <3>1. y # Nobody
        BY KnowledgeAssumption
      <3>2. memory'[y].supersedes # new
        <4>1. CASE y = new
          BY <1>1, <2>5, <4>1
        <4>2. CASE y # new
          <5>1. memory'[y].supersedes = memory[y].supersedes
            BY <1>7, <2>5, <4>2
          <5> QED
            BY <2>1, <2>2, <5>1, KnowledgeAssumption
        <4> QED
          BY <4>1, <4>2
      <3> QED
        BY <2>5, <2>7, <3>1, <3>2
    <2>8. CASE x \notin {old, new}
      <3>1. memory'[x] = memory[x]
        BY <1>7, <2>8
      <3>2. CASE y = new
        BY <2>3, <2>5, <2>8, <3>1, <3>2
      <3>3. CASE y # new
        <4>1. memory'[y].supersedes = memory[y].supersedes /\ (memory[y].written => memory'[y].written)
          BY <1>7, <2>5, <3>3
        <4> QED
          BY <2>2, <3>1, <4>1
      <3> QED
        BY <3>2, <3>3
    <2> QED
      BY <2>6, <2>7, <2>8
  <1>14. ColumnIsTrue'
    BY <1>1, <1>4, <1>5, <1>7 DEF KnowledgeInv, ColumnIsTrue
  <1>15. /\ updated' \in Seq(Memories) /\ IsInjective(updated')
         /\ ToSet(updated') = {x \in Memories : memory'[x].written}
    <2> DEFINE w == WithoutUpdate(old)
    <2>1. {x \in Memories : memory'[x].written} = {x \in Memories : memory[x].written} \cup {new}
      BY <1>4, <1>5, <1>7
    <2>2. /\ w \in Seq(Memories) /\ IsInjective(w)
          /\ ToSet(w) = {x \in Memories : memory[x].written} \ {old}
      BY <1>11, MovedToTheEnd
    <2> HIDE DEF w
    <2>3. updated' = Append(Append(w, new), old)
      <3>1. w \o <<new, old>> = Append(Append(w, new), old)
        BY <2>2
      <3> QED
        BY <1>1, <3>1 DEF w
    <2>4. /\ Append(w, new) \in Seq(Memories) /\ IsInjective(Append(w, new))
          /\ ToSet(Append(w, new)) = ToSet(w) \cup {new}
      BY <1>1, <2>2, AppendedOnce
    <2>5. old \notin ToSet(Append(w, new))
      BY <1>1, <2>2, <2>4
    <2>6. /\ updated' \in Seq(Memories) /\ IsInjective(updated')
          /\ ToSet(updated') = ToSet(Append(w, new)) \cup {old}
      <3>1. PICK v : v = Append(w, new)
        OBVIOUS
      <3>2. v \in Seq(Memories) /\ IsInjective(v) /\ old \notin ToSet(v)
        BY <2>4, <2>5, <3>1
      <3>3. /\ Append(v, old) \in Seq(Memories) /\ IsInjective(Append(v, old))
            /\ ToSet(Append(v, old)) = ToSet(v) \cup {old}
        BY <3>2, AppendedOnce
      <3> QED
        BY <2>3, <3>1, <3>3
    <2>7. ToSet(updated') = ({x \in Memories : memory[x].written} \ {old}) \cup {new, old}
      BY <2>2, <2>4, <2>6
    <2>8. old \in {x \in Memories : memory[x].written}
      BY <1>11
    <2> QED
      BY <2>1, <2>6, <2>7, <2>8
  <1> QED
    BY <1>1, <1>7, <1>10, <1>12, <1>13, <1>14, <1>15 DEF KnowledgeInv, KnowledgeTypeOK, MemoryEvents

\* What a search reads was active when it read it, in either repository.
LEMMA CandidatesAreActive == Candidates \subseteq {m \in Memories : IsActive(memory[m])}
  BY DEF Candidates, SqliteCandidates, PostgresCandidates, Youngest

\* A search that begins or ends, where only its own entry changes.
LEMMA SearchSetKeeps ==
  ASSUME KnowledgeInv, NEW r \in Readers, NEW s \in Searches,
         UNCHANGED <<store, memory, updated, outbox>>,
         NEW made \in Nat,
         search' = [made |-> made, of |-> [search.of EXCEPT ![r] = s]],
         s.since <= Len(outbox),
         \A m \in s.read : IsActive(memory[m])
  PROVE  KnowledgeInv'
  <1>1. PICK of \in [Readers -> Searches] :
          search.of = of /\ search' = [made |-> made, of |-> [of EXCEPT ![r] = s]]
    <2>1. search.of \in [Readers -> Searches]
      BY DEF KnowledgeInv
    <2> QED
      BY <2>1
  <1>2. PICK new \in [Readers -> Searches] :
          search' = [made |-> made, of |-> new] /\ new[r] = s
          /\ \A q \in Readers \ {r} : new[q] = of[q]
    <2> DEFINE f == [of EXCEPT ![r] = s]
    <2>1. f \in [Readers -> Searches] /\ f[r] = s /\ \A q \in Readers \ {r} : f[q] = of[q]
      OBVIOUS
    <2>2. search' = [made |-> made, of |-> f]
      BY <1>1
    <2> HIDE DEF f
    <2> QED
      BY <2>1, <2>2
  <1>3. search'.of = new
    BY <1>2
  <1>4. SearchesAreFresh'
    <2> SUFFICES ASSUME NEW q \in Readers, NEW m \in search'.of[q].read
                 PROVE  \/ IsActive(memory[m])
                        \/ \E k \in search'.of[q].since + 1 .. Len(outbox) :
                             (outbox[k].type = "memory.deleted" /\ outbox[k].id = m) \/ outbox[k].old = m
      BY DEF SearchesAreFresh
    <2>1. CASE q = r
      BY <1>2, <1>3, <2>1
    <2>2. CASE q # r
      <3>1. search'.of[q] = search.of[q]
        BY <1>1, <1>2, <1>3, <2>2
      <3> QED
        BY <3>1 DEF KnowledgeInv, SearchesAreFresh
    <2> QED
      BY <2>1, <2>2
  <1>5. (\E f \in [Readers -> Searches], n \in Nat : search = [made |-> n, of |-> f])'
    BY <1>2
  <1>6. \A q \in Readers : search'.of[q].since <= Len(outbox')
    BY <1>1, <1>2, <1>3 DEF KnowledgeInv
  <1>7. KnowledgeTypeOK' /\ LineagesAreLines' /\ ColumnIsTrue' /\ \A m \in Memories : RecordIsTold(m)'
    BY DEF KnowledgeInv, KnowledgeTypeOK, LineagesAreLines, ColumnIsTrue, RecordIsTold
  <1> QED
    BY <1>4, <1>5, <1>6, <1>7 DEF KnowledgeInv

LEMMA SearchTyped ==
  ASSUME KnowledgeInv
  PROVE  /\ search.made \in Nat /\ search.of \in [Readers -> Searches]
         /\ search = [made |-> search.made, of |-> search.of]
  BY DEF KnowledgeInv

LEMMA ReadCandidatesKeeps ==
  ASSUME KnowledgeInv, NEW r \in Readers, ReadCandidates(r) PROVE KnowledgeInv'
  <1>1. Len(outbox) \in Nat /\ search.made + 1 \in Nat
    BY SearchTyped DEF KnowledgeInv, KnowledgeTypeOK
  <1>2. PICK s : s = [at |-> "ranking", read |-> Candidates, since |-> Len(outbox)]
    OBVIOUS
  <1>3. s \in Searches /\ s.since <= Len(outbox) /\ \A m \in s.read : IsActive(memory[m])
    BY <1>1, <1>2, CandidatesAreActive DEF Searches
  <1>4. PICK made \in Nat : made = search.made + 1
    BY <1>1
  <1>5. /\ search' = [search EXCEPT !.made = @ + 1, !.of[r] = s]
        /\ UNCHANGED <<store, memory, updated, outbox>>
    BY Zenon, <1>2 DEF ReadCandidates
  <1>6. PICK h : h = [search.of EXCEPT ![r] = s]
    OBVIOUS
  <1>7. search' = [search EXCEPT !.made = made, !.of = h]
    BY Zenon, <1>4, <1>5, <1>6
  <1>8. search' = [made |-> made, of |-> [search.of EXCEPT ![r] = s]]
    BY <1>6, <1>7, SearchTyped
  <1>9. UNCHANGED <<store, memory, updated, outbox>>
    BY <1>5
  <1> QED
    BY <1>3, <1>8, <1>9, SearchSetKeeps

LEMMA AnswerSearchKeeps ==
  ASSUME KnowledgeInv, NEW r \in Readers, AnswerSearch(r) PROVE KnowledgeInv'
  <1>1. Len(outbox) \in Nat
    BY DEF KnowledgeInv, KnowledgeTypeOK
  <1>2. NoSearch \in Searches /\ NoSearch.since <= Len(outbox)
        /\ \A m \in NoSearch.read : IsActive(memory[m])
    BY <1>1 DEF Searches, NoSearch
  <1>3. /\ search' = [search EXCEPT !.of[r] = NoSearch]
        /\ UNCHANGED <<store, memory, updated, outbox>>
    BY Zenon DEF AnswerSearch
  <1>4. PICK made \in Nat : made = search.made
    BY SearchTyped
  <1>5. PICK h : h = [search.of EXCEPT ![r] = NoSearch]
    OBVIOUS
  <1>6. search' = [search EXCEPT !.of = h]
    BY Zenon, <1>3, <1>5
  <1>7. search' = [made |-> made, of |-> [search.of EXCEPT ![r] = NoSearch]]
    BY <1>4, <1>5, <1>6, SearchTyped
  <1>8. UNCHANGED <<store, memory, updated, outbox>>
    BY <1>3
  <1> QED
    BY <1>2, <1>7, <1>8, SearchSetKeeps

LEMMA KnowledgeInvInit == KnowledgeInit => KnowledgeInv
  <1> SUFFICES ASSUME KnowledgeInit PROVE KnowledgeInv
    OBVIOUS
  <1>1. PICK u \in Records : u = Unwritten
    BY DEF Unwritten, Records
  <1>2. ~u.written /\ u.supersedes = Nobody /\ u.supersededBy = Nobody /\ ~u.ended /\ ~u.column
    BY <1>1 DEF Unwritten
  <1>3. memory \in [Memories -> Records] /\ \A m \in Memories : memory[m] = u
    BY <1>1 DEF KnowledgeInit
  <1>4. updated = <<>> /\ outbox = <<>> /\ store \in Stores
    BY DEF KnowledgeInit
  <1>5. PICK z \in Searches : z = NoSearch
    BY DEF NoSearch, Searches
  <1>6. z.since = 0 /\ z.read = {}
    BY <1>5 DEF NoSearch
  <1>7. PICK f \in [Readers -> Searches] :
          search = [made |-> 0, of |-> f] /\ \A r \in Readers : f[r] = z
    BY <1>5 DEF KnowledgeInit
  <1>8. \A r \in Readers : search.of[r] = z
    BY <1>7
  <1>9. (\E of \in [Readers -> Searches], made \in Nat : search = [made |-> made, of |-> of])
    BY <1>7
  <1>10. SearchesAreFresh
    BY <1>6, <1>8 DEF SearchesAreFresh
  <1>11. ToSet(updated) = {m \in Memories : memory[m].written} /\ IsInjective(updated)
    BY <1>2, <1>3, <1>4 DEF ToSet, IsInjective
  <1>12. LineagesAreLines
    BY <1>2, <1>3, KnowledgeAssumption DEF LineagesAreLines
  <1>13. \A m \in Memories : RecordIsTold(m)
    BY <1>1, <1>2, <1>3, <1>4 DEF RecordIsTold, Creates, Ends
  <1>14. ColumnIsTrue
    BY <1>2, <1>3 DEF ColumnIsTrue, IsActive
  <1>15. KnowledgeTypeOK
    BY <1>3, <1>4, <1>11 DEF KnowledgeTypeOK
  <1>16. \A q \in Readers : search.of[q].since <= Len(outbox)
    BY <1>4, <1>6, <1>8
  <1> QED
    BY <1>9, <1>10, <1>12, <1>13, <1>14, <1>15, <1>16 DEF KnowledgeInv

LEMMA KnowledgeInvStep == KnowledgeInv /\ [KnowledgeNext]_knowledgeVars => KnowledgeInv'
  <1> SUFFICES ASSUME KnowledgeInv, [KnowledgeNext]_knowledgeVars PROVE KnowledgeInv'
    OBVIOUS
  <1>1. ASSUME NEW m \in Memories, Remember(m) \/ Forget(m) PROVE KnowledgeInv'
    BY <1>1, RememberKeeps, ForgetKeeps
  <1>2. ASSUME NEW old \in Memories, NEW new \in Memories, Supersede(old, new) PROVE KnowledgeInv'
    BY <1>2, SupersedeKeeps
  <1>3. ASSUME NEW r \in Readers, ReadCandidates(r) \/ AnswerSearch(r) PROVE KnowledgeInv'
    BY <1>3, ReadCandidatesKeeps, AnswerSearchKeeps
  <1>4. CASE UNCHANGED knowledgeVars
    BY <1>4 DEF knowledgeVars, KnowledgeInv, KnowledgeTypeOK, LineagesAreLines, ColumnIsTrue,
                SearchesAreFresh, RecordIsTold
  <1> QED
    BY <1>1, <1>2, <1>3, <1>4 DEF KnowledgeNext

\* The records, the order of their updates, their events and what a search has
\* read (MemoryService over either repository) stay as KnowledgeInv describes.
THEOREM KnowledgeInvariant == KnowledgeSpec => []KnowledgeInv
  <1> QED
    BY KnowledgeInvInit, KnowledgeInvStep, PTL DEF KnowledgeSpec

\* In SQLite and in PostgreSQL, a record, its events and the column that
\* active_candidates asks agree on what is active, and a search tells no other.
THEOREM ActivityStaysAgreed == KnowledgeSpec => []ActivityIsAgreed
  <1>1. ASSUME KnowledgeInv PROVE EventsTellActive
    <2> SUFFICES ASSUME NEW m \in Memories
                 PROVE  IsActive(memory[m]) <=>
                          /\ \E k \in DOMAIN outbox : Creates(outbox[k], m)
                          /\ ~\E k \in DOMAIN outbox : Ends(outbox[k], m)
      BY DEF EventsTellActive, Creates, Ends
    <2>1. RecordIsTold(m)
      BY <1>1 DEF KnowledgeInv
    <2>2. IsActive(memory[m]) => memory[m].written
      BY DEF IsActive
    <2> QED
      BY <2>1, <2>2 DEF RecordIsTold
  <1>2. KnowledgeInv => ActivityIsAgreed
    BY <1>1 DEF KnowledgeInv, ActivityIsAgreed
  <1> QED
    BY <1>2, KnowledgeInvariant, PTL

\* supersede and forget are final: what they ended never becomes active again.
THEOREM InactiveStaysInactive == KnowledgeSpec => InactiveForEver
  <1> DEFINE Kept(m) ==
        /\ memory[m].written /\ ~IsActive(memory[m]) => ~IsActive(memory'[m])
        /\ memory[m].deleted => memory'[m].deleted
  <1>1. ASSUME KnowledgeInv, [KnowledgeNext]_knowledgeVars, NEW m \in Memories PROVE Kept(m)
    <2>1. memory \in [Memories -> Records] /\ RecordIsTold(m)
      BY <1>1 DEF KnowledgeInv, KnowledgeTypeOK
    <2>2. memory[m].deleted => memory[m].written
      BY <2>1 DEF RecordIsTold, Unwritten
    <2>3. ASSUME NEW x \in Memories, Remember(x) PROVE Kept(m)
      <3>1. ~memory[x].written /\ \A y \in Memories \ {x} : memory'[y] = memory[y]
        BY <2>1, <2>3 DEF Remember
      <3> QED
        BY <2>2, <3>1
    <2>4. ASSUME NEW x \in Memories, Forget(x) PROVE Kept(m)
      <3>1. PICK gone : gone = [memory[x] EXCEPT !.deleted = TRUE,
                                   !.column = IF store = "postgres" THEN FALSE ELSE @]
        OBVIOUS
      <3>2. gone.deleted
        BY <2>1, <3>1 DEF Records
      <3>3. memory' = [memory EXCEPT ![x] = gone]
        BY Zenon, <2>4, <3>1 DEF Forget
      <3>4. memory'[x].deleted /\ \A y \in Memories \ {x} : memory'[y] = memory[y]
        BY <2>1, <3>2, <3>3
      <3> QED
        BY <3>4 DEF IsActive
    <2>5. ASSUME NEW old \in Memories, NEW new \in Memories, Supersede(old, new) PROVE Kept(m)
      <3>1. IsActive(memory[old]) /\ ~memory[new].written
            /\ \A y \in Memories \ {old, new} : memory'[y] = memory[y]
        BY <2>1, <2>5 DEF Supersede, Supersedable
      <3> QED
        BY <2>2, <3>1 DEF IsActive
    <2>6. ASSUME NEW r \in Readers, ReadCandidates(r) \/ AnswerSearch(r) PROVE Kept(m)
      BY <2>6 DEF ReadCandidates, AnswerSearch
    <2>7. CASE UNCHANGED knowledgeVars
      BY <2>7 DEF knowledgeVars
    <2> HIDE DEF Kept
    <2> QED
      BY <1>1, <2>3, <2>4, <2>5, <2>6, <2>7 DEF KnowledgeNext
  <1>2. KnowledgeInv /\ [KnowledgeNext]_knowledgeVars
          => [\A m \in Memories : Kept(m)]_knowledgeVars
    BY <1>1
  <1> QED
    BY <1>2, KnowledgeInvariant, PTL DEF KnowledgeSpec, InactiveForEver

\* Putting in front what is not there yet.
LEMMA PrependedOnce ==
  ASSUME NEW S, NEW s \in Seq(S), IsInjective(s), NEW x \in S, x \notin ToSet(s)
  PROVE  /\ <<x>> \o s \in Seq(S) /\ IsInjective(<<x>> \o s)
         /\ ToSet(<<x>> \o s) = ToSet(s) \cup {x}
  <1> DEFINE t == <<x>> \o s
             n == Len(s)
  <1>1. /\ n \in Nat /\ DOMAIN s = 1 .. n /\ t \in Seq(S) /\ DOMAIN t = 1 .. n + 1
        /\ t[1] = x
        /\ \A k \in 2 .. n + 1 : t[k] = s[k - 1]
    OBVIOUS
  <1> HIDE DEF t, n
  <1>2. \A k \in 1 .. n : k + 1 \in 1 .. n + 1 /\ t[k + 1] = s[k]
    <2> SUFFICES ASSUME NEW k \in 1 .. n PROVE k + 1 \in 1 .. n + 1 /\ t[k + 1] = s[k]
      OBVIOUS
    <2>1. k + 1 \in 2 .. n + 1 /\ (k + 1) - 1 = k
      BY <1>1
    <2> QED
      BY <1>1, <2>1
  <1>3. \A k \in 2 .. n + 1 : k - 1 \in 1 .. n /\ t[k] \in ToSet(s)
    <2> SUFFICES ASSUME NEW k \in 2 .. n + 1 PROVE k - 1 \in 1 .. n /\ t[k] \in ToSet(s)
      OBVIOUS
    <2>1. k - 1 \in 1 .. n
      BY <1>1
    <2> QED
      BY <1>1, <2>1 DEF ToSet
  <1>4. IsInjective(t)
    <2> SUFFICES ASSUME NEW j \in 1 .. n + 1, NEW k \in 1 .. n + 1, t[j] = t[k] PROVE j = k
      BY <1>1 DEF IsInjective
    <2>1. CASE j = 1 \/ k = 1
      BY <1>1, <1>3, <2>1
    <2>2. CASE j # 1 /\ k # 1
      <3>1. s[j - 1] = s[k - 1] /\ j - 1 \in DOMAIN s /\ k - 1 \in DOMAIN s
        BY <1>1, <1>3, <2>2
      <3>2. j - 1 = k - 1
        BY <3>1 DEF IsInjective
      <3> QED
        BY <1>1, <3>2
    <2> QED
      BY <2>1, <2>2
  <1>5. ToSet(t) = ToSet(s) \cup {x}
    <2>1. ASSUME NEW y \in ToSet(t) PROVE y \in ToSet(s) \cup {x}
      <3>1. PICK k \in DOMAIN t : y = t[k]
        BY <2>1 DEF ToSet
      <3>2. k = 1 \/ k \in 2 .. n + 1
        BY <1>1
      <3>3. CASE k = 1
        BY <1>1, <3>1, <3>3
      <3>4. CASE k \in 2 .. n + 1
        BY <1>3, <3>1, <3>4
      <3> QED
        BY <3>2, <3>3, <3>4
    <2>2. ASSUME NEW y \in ToSet(s) PROVE y \in ToSet(t)
      <3>1. PICK k \in 1 .. n : y = s[k]
        BY <1>1, <2>2 DEF ToSet
      <3>2. k + 1 \in DOMAIN t /\ t[k + 1] = y
        BY <1>1, <1>2, <3>1
      <3> QED
        BY <3>2 DEF ToSet
    <2>3. x \in ToSet(t)
      <3>1. 1 \in DOMAIN t
        BY <1>1
      <3> QED
        BY <1>1, <3>1 DEF ToSet
    <2> QED
      BY <2>1, <2>2, <2>3
  <1> QED
    BY <1>1, <1>4, <1>5 DEF t

-----------------------------------------------------------------------------
(* Billing: what was bought                                                *)

Subscriptions == [status : Statuses \cup {"none", "pending"}, bought : BOOLEAN, version : Nat]

BooksTyped ==
  /\ buying \in [Subscribers -> {"idle", "pending", "bought", "saved", "failed"}]
  /\ subscription \in [Subscribers -> Subscriptions]
  /\ recent \in Seq(Subscribers) /\ IsInjective(recent)
  /\ ToSet(recent) = {s \in Subscribers : subscription[s].status # "none"}
  /\ provider \in [ProviderSubs -> Seq(Statuses)]
  /\ webhooks \subseteq ProviderSubs \X Nat /\ IsFiniteSet(webhooks)

EventsOf(p) == {e \in webhooks : e[1] = p}

\* One row: bought by nobody else, changed once per event, its status reported.
RowFollowsProvider(s) ==
  subscription[s].bought =>
    /\ subscription[s].version <= 1 + Cardinality(EventsOf(BoughtBy[s]))
    /\ subscription[s].status \in ToSet(provider[BoughtBy[s]])
    /\ \A t \in Subscribers : subscription[t].bought /\ BoughtBy[t] = BoughtBy[s] => t = s

BooksInv ==
  /\ BooksTyped
  /\ \A s \in Subscribers : RowFollowsProvider(s)
  /\ \A s \in Subscribers :
       /\ buying[s] = "bought" => 1 \in DOMAIN provider[BoughtBy[s]]
       /\ subscription[s].bought => buying[s] = "saved"

\* The order of rows after one of them was updated.
LEMMA UpdatedGoesFirst ==
  ASSUME BooksTyped, NEW s \in Subscribers
  PROVE  /\ Updated(s) \in Seq(Subscribers) /\ IsInjective(Updated(s))
         /\ ToSet(Updated(s)) = ToSet(recent) \cup {s}
  <1>1. recent \in Seq(Subscribers) /\ IsInjective(recent)
    BY DEF BooksTyped
  <1>2. CASE s \in ToSet(recent)
    <2>1. \E i \in DOMAIN recent : recent[i] = s
      BY <1>2 DEF ToSet
    <2>2. PICK i \in DOMAIN recent : recent[i] = s /\ Updated(s) = <<s>> \o RemoveAt(recent, i)
      BY <1>2, <2>1 DEF Updated
    <2>3. PICK w : w = RemoveAt(recent, i)
      OBVIOUS
    <2>4. w \in Seq(Subscribers) /\ IsInjective(w) /\ ToSet(w) = ToSet(recent) \ {s}
      BY <1>1, <2>2, <2>3, RemovedOnce
    <2>5. /\ <<s>> \o w \in Seq(Subscribers) /\ IsInjective(<<s>> \o w)
          /\ ToSet(<<s>> \o w) = ToSet(w) \cup {s}
      BY <2>4, PrependedOnce
    <2> QED
      BY <1>2, <2>2, <2>3, <2>4, <2>5
  <1>3. CASE s \notin ToSet(recent)
    <2>1. Updated(s) = <<s>> \o recent
      BY <1>3 DEF Updated
    <2> QED
      BY <1>1, <1>3, <2>1, PrependedOnce
  <1> QED
    BY <1>2, <1>3

LEMMA InsertPendingKeeps ==
  ASSUME BooksInv, NEW s \in Subscribers, InsertPending(s) PROVE BooksInv'
  <1>1. /\ buying[s] = "idle" /\ buying' = [buying EXCEPT ![s] = "pending"]
        /\ recent' = Updated(s) /\ UNCHANGED <<provider, webhooks>>
        /\ BooksTyped
    BY DEF InsertPending, BooksInv
  <1>2. PICK row : row = [subscription[s] EXCEPT !.status = "pending"]
    OBVIOUS
  <1>3. row = [status |-> "pending", bought |-> subscription[s].bought,
               version |-> subscription[s].version]
    BY <1>1, <1>2 DEF BooksTyped, Subscriptions
  <1>4. row \in Subscriptions /\ row.status = "pending" /\ row.bought = subscription[s].bought
    BY <1>1, <1>3 DEF BooksTyped, Subscriptions
  <1>5. subscription' = [subscription EXCEPT ![s] = row]
    BY Zenon, <1>2 DEF InsertPending
  <1>6. /\ subscription' \in [Subscribers -> Subscriptions] /\ subscription'[s] = row
        /\ \A t \in Subscribers \ {s} : subscription'[t] = subscription[t]
        /\ buying' \in [Subscribers -> {"idle", "pending", "bought", "saved", "failed"}]
        /\ buying'[s] = "pending" /\ \A t \in Subscribers \ {s} : buying'[t] = buying[t]
    BY <1>1, <1>4, <1>5 DEF BooksTyped
  <1>7. /\ recent' \in Seq(Subscribers) /\ IsInjective(recent')
        /\ ToSet(recent') = ToSet(recent) \cup {s}
    BY <1>1, UpdatedGoesFirst
  <1>8. BooksTyped'
    <2>1. {t \in Subscribers : subscription'[t].status # "none"}
            = {t \in Subscribers : subscription[t].status # "none"} \cup {s}
      BY <1>4, <1>6
    <2> QED
      BY <1>1, <1>6, <1>7, <2>1 DEF BooksTyped
  <1>9. ~row.bought
    BY <1>1, <1>4 DEF BooksInv
  <1>10. \A t \in Subscribers : RowFollowsProvider(t)'
    BY <1>1, <1>6, <1>9 DEF BooksInv, RowFollowsProvider, EventsOf
  <1>11. \A t \in Subscribers :
           /\ buying'[t] = "bought" => 1 \in DOMAIN provider'[BoughtBy[t]]
           /\ subscription'[t].bought => buying'[t] = "saved"
    BY <1>1, <1>6, <1>9 DEF BooksInv
  <1> QED
    BY <1>8, <1>10, <1>11 DEF BooksInv

\* The provider's list of statuses only grows, so that what rows follow stays.
LEMMA ProviderGrows ==
  ASSUME BooksInv, UNCHANGED <<subscription, recent, webhooks>>,
         buying' \in [Subscribers -> {"idle", "pending", "bought", "saved", "failed"}],
         provider' \in [ProviderSubs -> Seq(Statuses)],
         \A p \in ProviderSubs : ToSet(provider[p]) \subseteq ToSet(provider'[p]),
         \A p \in ProviderSubs : 1 \in DOMAIN provider[p] => 1 \in DOMAIN provider'[p],
         \A s \in Subscribers :
           /\ buying[s] = "saved" => buying'[s] = "saved"
           /\ buying'[s] = "bought" => buying[s] = "bought" \/ 1 \in DOMAIN provider'[BoughtBy[s]]
  PROVE  BooksInv'
  <1>1. \A s \in Subscribers : BoughtBy[s] \in ProviderSubs
    BY BillingAssumption
  <1>2. BooksTyped'
    BY DEF BooksInv, BooksTyped
  <1>3. \A s \in Subscribers : RowFollowsProvider(s)'
    BY <1>1 DEF BooksInv, RowFollowsProvider, EventsOf
  <1>4. \A s \in Subscribers :
          /\ buying'[s] = "bought" => 1 \in DOMAIN provider'[BoughtBy[s]]
          /\ subscription'[s].bought => buying'[s] = "saved"
    BY <1>1 DEF BooksInv
  <1> QED
    BY <1>2, <1>3, <1>4 DEF BooksInv

LEMMA ProviderSubscribesKeeps ==
  ASSUME BooksInv, NEW s \in Subscribers, ProviderSubscribes(s) PROVE BooksInv'
  <1> DEFINE p == BoughtBy[s]
  <1>1. p \in ProviderSubs /\ BooksTyped
    BY BillingAssumption DEF BooksInv
  <1>2. /\ buying[s] = "pending" /\ buying' = [buying EXCEPT ![s] = "bought"]
        /\ UNCHANGED <<subscription, recent, webhooks>>
    BY DEF ProviderSubscribes
  <1>3. PICK status \in {"active", "past_due"} :
          provider' = [provider EXCEPT ![p] = IF @ = <<>> THEN <<status>> ELSE @]
    BY DEF ProviderSubscribes
  <1>4. PICK was \in Seq(Statuses) : was = provider[p]
    BY <1>1 DEF BooksTyped
  <1>5. PICK new \in Seq(Statuses) : new = IF was = <<>> THEN <<status>> ELSE was
    <2>1. <<status>> \in Seq(Statuses)
      BY DEF Statuses
    <2> QED
      BY <2>1
  <1>6. ToSet(was) \subseteq ToSet(new) /\ 1 \in DOMAIN new
    <2>1. CASE was = <<>>
      BY <1>5, <2>1 DEF ToSet
    <2>2. CASE was # <<>>
      BY <1>5, <2>2
    <2> QED
      BY <2>1, <2>2
  <1> HIDE DEF p
  <1>7. provider' \in [ProviderSubs -> Seq(Statuses)] /\ provider'[p] = new
        /\ \A q \in ProviderSubs \ {p} : provider'[q] = provider[q]
    BY <1>1, <1>3, <1>4, <1>5 DEF BooksTyped
  <1>8. buying' \in [Subscribers -> {"idle", "pending", "bought", "saved", "failed"}]
        /\ buying'[s] = "bought" /\ \A t \in Subscribers \ {s} : buying'[t] = buying[t]
    BY <1>1, <1>2 DEF BooksTyped
  <1>9. \A q \in ProviderSubs : ToSet(provider[q]) \subseteq ToSet(provider'[q])
    BY <1>4, <1>6, <1>7
  <1>10. \A q \in ProviderSubs : 1 \in DOMAIN provider[q] => 1 \in DOMAIN provider'[q]
    BY <1>4, <1>6, <1>7
  <1>11. \A t \in Subscribers :
           /\ buying[t] = "saved" => buying'[t] = "saved"
           /\ buying'[t] = "bought" => buying[t] = "bought" \/ 1 \in DOMAIN provider'[BoughtBy[t]]
    BY <1>2, <1>6, <1>7, <1>8 DEF p
  <1> QED
    BY <1>2, <1>7, <1>8, <1>9, <1>10, <1>11, ProviderGrows

LEMMA SubscribeFailsKeeps ==
  ASSUME BooksInv, NEW s \in Subscribers, SubscribeFails(s) PROVE BooksInv'
  BY ProviderGrows DEF SubscribeFails, BooksInv, BooksTyped

LEMMA StatusChangesKeeps ==
  ASSUME BooksInv, NEW p \in ProviderSubs, StatusChanges(p) PROVE BooksInv'
  <1>1. UNCHANGED <<buying, subscription, recent, webhooks>> /\ BooksTyped
    BY DEF StatusChanges, buyingVars, BooksInv
  <1>2. PICK status \in Statuses : provider' = [provider EXCEPT ![p] = Append(@, status)]
    BY DEF StatusChanges
  <1>3. PICK was \in Seq(Statuses) : was = provider[p]
    BY <1>1 DEF BooksTyped
  <1>4. PICK new \in Seq(Statuses) : new = Append(was, status)
    <2>1. Append(was, status) \in Seq(Statuses)
      BY AppendProperties
    <2> QED
      BY <2>1
  <1>5. ToSet(was) \subseteq ToSet(new) /\ (1 \in DOMAIN was => 1 \in DOMAIN new)
    <2>1. /\ DOMAIN was \subseteq DOMAIN new
          /\ \A k \in DOMAIN was : new[k] = was[k]
      BY <1>4
    <2> QED
      BY <2>1 DEF ToSet
  <1>6. provider' \in [ProviderSubs -> Seq(Statuses)] /\ provider'[p] = new
        /\ \A q \in ProviderSubs \ {p} : provider'[q] = provider[q]
    BY <1>1, <1>2, <1>3, <1>4 DEF BooksTyped
  <1>7. \A q \in ProviderSubs :
          /\ ToSet(provider[q]) \subseteq ToSet(provider'[q])
          /\ 1 \in DOMAIN provider[q] => 1 \in DOMAIN provider'[q]
    BY <1>3, <1>5, <1>6
  <1> QED
    BY <1>1, <1>6, <1>7, ProviderGrows DEF BooksTyped

LEMMA SaveSubscriptionKeeps ==
  ASSUME BooksInv, NEW s \in Subscribers, SaveSubscription(s) PROVE BooksInv'
  <1>1. /\ buying[s] = "bought" /\ UNCHANGED <<provider, webhooks>> /\ BooksTyped
        /\ BoughtBy[s] \in ProviderSubs
    BY BillingAssumption DEF SaveSubscription, BooksInv
  <1>2. CASE buying' = [buying EXCEPT ![s] = "failed"] /\ UNCHANGED <<subscription, recent>>
    BY <1>1, <1>2, ProviderGrows DEF BooksTyped
  <1>3. CASE /\ \A t \in Subscribers : subscription[t].bought => BoughtBy[t] # BoughtBy[s]
             /\ subscription' = [subscription EXCEPT ![s] =
                   [status |-> provider[BoughtBy[s]][1], bought |-> TRUE, version |-> 1]]
             /\ recent' = Updated(s)
             /\ buying' = [buying EXCEPT ![s] = "saved"]
    <2>1. PICK row : row = [status |-> provider[BoughtBy[s]][1], bought |-> TRUE, version |-> 1]
      OBVIOUS
    <2>2. 1 \in DOMAIN provider[BoughtBy[s]] /\ provider[BoughtBy[s]] \in Seq(Statuses)
      BY <1>1 DEF BooksInv, BooksTyped
    <2>3. /\ provider[BoughtBy[s]][1] \in Statuses
          /\ provider[BoughtBy[s]][1] \in ToSet(provider[BoughtBy[s]])
      BY <2>2 DEF ToSet
    <2>4. /\ row \in Subscriptions /\ row.status \in ToSet(provider[BoughtBy[s]])
          /\ row.status # "none" /\ row.bought = TRUE /\ row.version = 1
      BY <2>1, <2>3 DEF Subscriptions, Statuses
    <2>5. /\ subscription' \in [Subscribers -> Subscriptions] /\ subscription'[s] = row
          /\ \A t \in Subscribers \ {s} : subscription'[t] = subscription[t]
          /\ buying' \in [Subscribers -> {"idle", "pending", "bought", "saved", "failed"}]
          /\ buying'[s] = "saved" /\ \A t \in Subscribers \ {s} : buying'[t] = buying[t]
      BY <1>1, <1>3, <2>1, <2>4 DEF BooksTyped
    <2>6. /\ recent' \in Seq(Subscribers) /\ IsInjective(recent')
          /\ ToSet(recent') = ToSet(recent) \cup {s}
      BY <1>1, <1>3, UpdatedGoesFirst
    <2>7. BooksTyped'
      <3>1. {t \in Subscribers : subscription'[t].status # "none"}
              = {t \in Subscribers : subscription[t].status # "none"} \cup {s}
        BY <2>4, <2>5
      <3> QED
        BY <1>1, <2>5, <2>6, <3>1 DEF BooksTyped
    <2>8. \A t \in Subscribers : RowFollowsProvider(t)'
      <3> SUFFICES ASSUME NEW t \in Subscribers PROVE RowFollowsProvider(t)'
        OBVIOUS
      <3>1. RowFollowsProvider(t)
        BY DEF BooksInv
      <3>2. CASE t = s
        <4>1. EventsOf(BoughtBy[s])' = EventsOf(BoughtBy[s]) /\ IsFiniteSet(EventsOf(BoughtBy[s]))
          BY <1>1, FS_Subset DEF EventsOf, BooksTyped
        <4>2. Cardinality(EventsOf(BoughtBy[s])) \in Nat
          BY <4>1, FS_CardinalityType
        <4>3. subscription'[s].version <= 1 + Cardinality(EventsOf(BoughtBy[s])')
          BY <2>4, <2>5, <4>1, <4>2
        <4>4. \A u \in Subscribers :
                subscription'[u].bought /\ BoughtBy[u] = BoughtBy[s] => u = s
          BY <1>3, <2>5
        <4>5. subscription'[s].status \in ToSet(provider'[BoughtBy[s]])
          BY <1>1, <2>4, <2>5
        <4> QED
          BY <3>2, <4>3, <4>4, <4>5 DEF RowFollowsProvider
      <3>3. CASE t # s
        <4>1. subscription'[t] = subscription[t]
          BY <2>5, <3>3
        <4>2. subscription[t].bought => BoughtBy[t] # BoughtBy[s]
          BY <1>3
        <4> QED
          BY <1>1, <2>5, <3>1, <4>1, <4>2 DEF RowFollowsProvider, EventsOf
      <3> QED
        BY <3>2, <3>3
    <2>9. \A t \in Subscribers :
             /\ buying'[t] = "bought" => 1 \in DOMAIN provider'[BoughtBy[t]]
             /\ subscription'[t].bought => buying'[t] = "saved"
      BY <1>1, <2>4, <2>5 DEF BooksInv
    <2> QED
      BY <2>7, <2>8, <2>9 DEF BooksInv
  <1> QED
    BY <1>2, <1>3 DEF SaveSubscription

LEMMA ApplyWebhookKeeps ==
  ASSUME BooksInv, NEW p \in ProviderSubs, NEW n \in Nat, ApplyWebhook(p, n) PROVE BooksInv'
  <1>1. /\ n \in DOMAIN provider[p] /\ <<p, n>> \notin webhooks
        /\ webhooks' = webhooks \cup {<<p, n>>}
        /\ UNCHANGED <<buying, provider>> /\ BooksTyped
        /\ \A s \in Subscribers : BoughtBy[s] \in ProviderSubs
    BY BillingAssumption DEF ApplyWebhook, BooksInv
  <1>2. PICK status \in Statuses : status = provider[p][n] /\ status \in ToSet(provider[p])
    <2>1. provider[p] \in Seq(Statuses)
      BY <1>1 DEF BooksTyped
    <2> QED
      BY <1>1, <2>1 DEF ToSet
  <1>3. ASSUME NEW s \in Subscribers
        PROVE  /\ subscription'[s] \in Subscriptions
               /\ s \in Followed(p) =>
                    /\ subscription'[s].status = status /\ subscription'[s].bought = TRUE
                    /\ subscription'[s].version = subscription[s].version + 1
               /\ s \notin Followed(p) => subscription'[s] = subscription[s]
    <2>1. PICK row \in Subscriptions : row = subscription[s]
      BY <1>1 DEF BooksTyped
    <2>2. subscription'[s] = IF s \in Followed(p)
            THEN [row EXCEPT !.status = status, !.version = @ + 1] ELSE row
      BY <1>2, <2>1 DEF ApplyWebhook, Apply
    <2>3. CASE s \in Followed(p)
      <3>1. subscription'[s] = [status |-> status, bought |-> row.bought, version |-> row.version + 1]
        BY <2>2, <2>3 DEF Subscriptions
      <3>2. row.bought
        BY <2>1, <2>3 DEF Followed
      <3> QED
        BY <2>1, <2>3, <3>1, <3>2 DEF Subscriptions
    <2>4. CASE s \notin Followed(p)
      BY <2>1, <2>2, <2>4
    <2> QED
      BY <2>3, <2>4
  <1>4. subscription' \in [Subscribers -> Subscriptions]
    <2>1. subscription' = [s \in Subscribers |-> subscription'[s]]
      BY DEF ApplyWebhook, Apply
    <2> QED
      BY <1>3, <2>1
  <1>5. \A s, t \in Followed(p) : s = t
    BY DEF BooksInv, RowFollowsProvider, Followed
  <1>6. BooksTyped'
    <2>1. webhooks' \subseteq ProviderSubs \X Nat /\ IsFiniteSet(webhooks')
      <3>1. IsFiniteSet(webhooks) /\ webhooks \subseteq ProviderSubs \X Nat
        BY <1>1 DEF BooksTyped
      <3>2. IsFiniteSet(webhooks \cup {<<p, n>>})
        BY <3>1, FS_AddElement
      <3> QED
        BY <1>1, <3>1, <3>2
    <2>2. CASE Followed(p) = {}
      <3>1. recent' = recent /\ \A s \in Subscribers : subscription'[s] = subscription[s]
        BY <1>3, <2>2 DEF ApplyWebhook, Apply
      <3> QED
        BY <1>1, <1>4, <2>1, <3>1 DEF BooksTyped
    <2>3. CASE Followed(p) # {}
      <3>1. PICK s \in Followed(p) : recent' = Updated(s)
        BY <2>3 DEF ApplyWebhook, Apply
      <3>2. s \in Subscribers /\ \A t \in Subscribers : t \in Followed(p) <=> t = s
        BY <1>5 DEF Followed
      <3>3. /\ recent' \in Seq(Subscribers) /\ IsInjective(recent')
            /\ ToSet(recent') = ToSet(recent) \cup {s}
        BY <1>1, <3>1, <3>2, UpdatedGoesFirst
      <3>4. {t \in Subscribers : subscription'[t].status # "none"}
              = {t \in Subscribers : subscription[t].status # "none"} \cup {s}
        <4>1. subscription'[s].status # "none"
          BY <1>3, <3>2 DEF Statuses
        <4> QED
          BY <1>3, <3>2, <4>1
      <3> QED
        BY <1>1, <1>4, <2>1, <3>3, <3>4 DEF BooksTyped
    <2> QED
      BY <2>2, <2>3
  <1>7. \A s \in Subscribers : subscription'[s].bought = subscription[s].bought
    BY <1>3 DEF Followed
  <1>8. \A s \in Subscribers : RowFollowsProvider(s)'
    <2> SUFFICES ASSUME NEW s \in Subscribers, subscription[s].bought
                 PROVE  /\ subscription'[s].version <= 1 + Cardinality(EventsOf(BoughtBy[s])')
                        /\ subscription'[s].status \in ToSet(provider[BoughtBy[s]])
      BY <1>1, <1>7 DEF BooksInv, RowFollowsProvider
    <2>1. /\ subscription[s].version <= 1 + Cardinality(EventsOf(BoughtBy[s]))
          /\ subscription[s].status \in ToSet(provider[BoughtBy[s]])
          /\ subscription[s].version \in Nat
      BY <1>1 DEF BooksInv, RowFollowsProvider, BooksTyped, Subscriptions
    <2>2. IsFiniteSet(EventsOf(BoughtBy[s])) /\ Cardinality(EventsOf(BoughtBy[s])) \in Nat
      <3>1. EventsOf(BoughtBy[s]) \subseteq webhooks
        BY DEF EventsOf
      <3> QED
        BY <1>1, <3>1, FS_Subset, FS_CardinalityType DEF BooksTyped
    <2>3. CASE BoughtBy[s] = p
      <3>1. s \in Followed(p)
        BY <2>3 DEF Followed
      <3>2. EventsOf(p)' = EventsOf(p) \cup {<<p, n>>} /\ <<p, n>> \notin EventsOf(p)
        BY <1>1 DEF EventsOf
      <3>3. Cardinality(EventsOf(p)') = Cardinality(EventsOf(p)) + 1
        BY <2>2, <2>3, <3>2, FS_AddElement
      <3>4. subscription'[s].status = status /\ subscription'[s].version = subscription[s].version + 1
        BY <1>3, <3>1
      <3>5. EventsOf(BoughtBy[s])' = EventsOf(p)'
        BY <2>3 DEF EventsOf
      <3>6. subscription'[s].version <= 1 + Cardinality(EventsOf(p)')
        BY <2>1, <2>2, <2>3, <3>3, <3>4
      <3> QED
        BY <1>2, <2>3, <3>4, <3>5, <3>6
    <2>4. CASE BoughtBy[s] # p
      <3>1. s \notin Followed(p)
        BY <2>4 DEF Followed
      <3>2. EventsOf(BoughtBy[s])' = EventsOf(BoughtBy[s])
        BY <1>1, <2>4 DEF EventsOf
      <3> QED
        BY <1>3, <2>1, <3>1, <3>2
    <2> QED
      BY <2>3, <2>4
  <1>9. \A s \in Subscribers :
          /\ buying'[s] = "bought" => 1 \in DOMAIN provider'[BoughtBy[s]]
          /\ subscription'[s].bought => buying'[s] = "saved"
    BY <1>1, <1>7 DEF BooksInv
  <1> QED
    BY <1>6, <1>8, <1>9 DEF BooksInv

LEMMA BooksInvInit == BillingInit => BooksInv
  <1> SUFFICES ASSUME BillingInit PROVE BooksInv
    OBVIOUS
  <1>1. PICK none \in Subscriptions : none = NoSubscription
    BY DEF NoSubscription, Subscriptions
  <1>2. none.status = "none" /\ ~none.bought
    BY <1>1 DEF NoSubscription
  <1>3. /\ subscription \in [Subscribers -> Subscriptions]
        /\ \A s \in Subscribers : subscription[s] = none
        /\ recent = <<>> /\ webhooks = {}
        /\ buying \in [Subscribers -> {"idle", "pending", "bought", "saved", "failed"}]
        /\ \A s \in Subscribers : buying[s] = "idle"
        /\ provider \in [ProviderSubs -> Seq(Statuses)]
    BY <1>1 DEF BillingInit
  <1>4. BooksTyped
    <2>1. ToSet(recent) = {} /\ IsInjective(recent) /\ recent \in Seq(Subscribers)
      BY <1>3 DEF ToSet, IsInjective
    <2>2. IsFiniteSet(webhooks)
      BY <1>3, FS_EmptySet
    <2> QED
      BY <1>2, <1>3, <2>1, <2>2 DEF BooksTyped
  <1> QED
    BY <1>2, <1>3, <1>4 DEF BooksInv, RowFollowsProvider

-----------------------------------------------------------------------------
(* Billing: what was used                                                  *)

UsageRows ==
  [state : {"none", "prepared", "reporting", "reported", "failed", "uncertain"},
   by : Seq(Subscribers), quantity : Nat, attempts : Nat]
CallStages ==
  {"idle", "refused", "entitled", "prepared", "reporting", "received", "uncertain", "failed",
   "answered", "broken"}
UsageCalls ==
  [at : CallStages,
   by : Seq(Subscribers), tries : Nat]

\* A row and what the provider has counted for its key.
RowIsCounted(row, counted) ==
  /\ row.state = "none" => row = NoUsage
  /\ row.state # "none" => row.quantity # 0
  /\ row.state = "reported" => counted = row.quantity
  /\ counted # 0 => counted = row.quantity /\ row.attempts > 0

\* A call that has reached its row, and one that has sent it.
CallHasRow(at, row, counted) ==
  /\ at \in {"prepared", "reporting", "received", "uncertain", "failed"} => row.state # "none"
  /\ at = "reporting" => row.attempts > 0
  /\ at = "received" => counted = row.quantity

UsageInv ==
  /\ usage \in [UsageKeys -> UsageRows] /\ meter \in [UsageKeys -> Nat]
  /\ resent \in [UsageKeys -> BOOLEAN]
  /\ call \in [Calls -> UsageCalls]
  /\ \A k \in UsageKeys : RowIsCounted(usage[k], meter[k])
  /\ \A c \in Calls : CallHasRow(call[c].at, usage[Key(c)], meter[Key(c)])

\* What a row may become: it keeps its quantity, and what is counted stays.
Grows(old, counted, row, count) ==
  /\ old.state # "none" =>
       row.state # "none" /\ row.quantity = old.quantity /\ row.attempts >= old.attempts
  /\ counted # 0 => count = counted

\* One call moves, and with it the row of its key.
LEMMA UsageMoves ==
  ASSUME UsageInv, NEW c \in Calls, NEW row \in UsageRows, NEW count \in Nat,
         NEW moved \in UsageCalls,
         call' \in [Calls -> UsageCalls], call'[c] = moved,
         \A d \in Calls \ {c} : call'[d] = call[d],
         usage' \in [UsageKeys -> UsageRows], usage'[Key(c)] = row,
         meter' \in [UsageKeys -> Nat], meter'[Key(c)] = count,
         \A k \in UsageKeys \ {Key(c)} : usage'[k] = usage[k] /\ meter'[k] = meter[k],
         resent' \in [UsageKeys -> BOOLEAN],
         Grows(usage[Key(c)], meter[Key(c)], row, count),
         RowIsCounted(row, count), CallHasRow(moved.at, row, count)
  PROVE  UsageInv'
  <1>1. \A d \in Calls : Key(d) \in UsageKeys
    BY BillingAssumption DEF Key
  <1>2. ASSUME NEW k \in UsageKeys PROVE RowIsCounted(usage'[k], meter'[k])
    <2>1. CASE k = Key(c)
      BY <2>1
    <2>2. CASE k # Key(c)
      BY <2>2 DEF UsageInv
    <2> QED
      BY <2>1, <2>2
  <1>3. ASSUME NEW d \in Calls PROVE CallHasRow(call'[d].at, usage'[Key(d)], meter'[Key(d)])
    <2>1. CASE d = c
      BY <2>1
    <2>2. CASE d # c /\ Key(d) # Key(c)
      BY <1>1, <2>2 DEF UsageInv
    <2>3. CASE d # c /\ Key(d) = Key(c)
      <3>1. /\ CallHasRow(call[d].at, usage[Key(c)], meter[Key(c)])
            /\ RowIsCounted(usage[Key(c)], meter[Key(c)])
        BY <1>1, <2>3 DEF UsageInv
      <3>2. usage[Key(c)] \in UsageRows /\ meter[Key(c)] \in Nat /\ call'[d] = call[d]
        BY <1>1, <2>3 DEF UsageInv
      <3>3. usage[Key(c)].attempts \in Nat /\ usage[Key(c)].quantity \in Nat
            /\ row.attempts \in Nat /\ row.quantity \in Nat
        BY <3>2 DEF UsageRows
      <3>4. CallHasRow(call[d].at, row, count)
        BY <3>1, <3>2, <3>3 DEF CallHasRow, RowIsCounted, Grows
      <3> QED
        BY <2>3, <3>2, <3>4
    <2> QED
      BY <2>1, <2>2, <2>3
  <1> QED
    BY <1>2, <1>3 DEF UsageInv, Key

\* A call that only goes elsewhere.
LEMMA CallMoves ==
  ASSUME UsageInv, NEW c \in Calls, NEW moved \in UsageCalls,
         call' = [call EXCEPT ![c] = moved], UNCHANGED <<usage, meter, resent>>,
         CallHasRow(moved.at, usage[Key(c)], meter[Key(c)])
  PROVE  UsageInv'
  <1>1. Key(c) \in UsageKeys
    BY BillingAssumption DEF Key
  <1>2. PICK row \in UsageRows : row = usage[Key(c)]
    BY <1>1 DEF UsageInv
  <1>3. PICK count \in Nat : count = meter[Key(c)]
    BY <1>1 DEF UsageInv
  <1>4. call' \in [Calls -> UsageCalls] /\ call'[c] = moved
        /\ \A d \in Calls \ {c} : call'[d] = call[d]
    BY DEF UsageInv
  <1>5. RowIsCounted(row, count) /\ CallHasRow(moved.at, row, count)
    BY <1>1, <1>2, <1>3 DEF UsageInv
  <1>6. Grows(usage[Key(c)], meter[Key(c)], row, count)
    BY <1>2, <1>3 DEF Grows, UsageRows
  <1> QED
    BY <1>2, <1>3, <1>4, <1>5, <1>6, UsageMoves DEF UsageInv

\* Where CallGoesTo leads.
LEMMA CallGoes ==
  ASSUME UsageInv, NEW c \in Calls, NEW at \in CallStages, CallGoesTo(c, at)
  PROVE  \E moved \in UsageCalls : moved.at = at /\ call' = [call EXCEPT ![c] = moved]
  <1>1. PICK was \in UsageCalls : was = call[c]
    BY DEF UsageInv
  <1>2. PICK moved : moved = [was EXCEPT !.at = at]
    OBVIOUS
  <1>3. moved = [at |-> at, by |-> was.by, tries |-> was.tries]
    BY <1>2 DEF UsageCalls
  <1>4. call' = [call EXCEPT ![c] = moved]
    BY Zenon, <1>1, <1>2 DEF CallGoesTo
  <1>5. moved \in UsageCalls /\ moved.at = at
    BY <1>1, <1>2, <1>3 DEF UsageCalls
  <1> QED
    BY <1>4, <1>5

\* A call that goes elsewhere with nothing else changed.
LEMMA CallGoesKeeps ==
  ASSUME UsageInv, NEW c \in Calls, NEW at \in CallStages, CallGoesTo(c, at),
         UNCHANGED <<usage, meter, resent>>,
         CallHasRow(at, usage[Key(c)], meter[Key(c)])
  PROVE  UsageInv'
  <1>1. PICK moved \in UsageCalls : moved.at = at /\ call' = [call EXCEPT ![c] = moved]
    BY CallGoes
  <1> QED
    BY <1>1, CallMoves

\* A call that goes elsewhere while its row becomes another.
LEMMA RowMoves ==
  ASSUME UsageInv, NEW c \in Calls, NEW at \in CallStages, CallGoesTo(c, at),
         UNCHANGED <<meter, resent>>, NEW row \in UsageRows,
         usage' = [usage EXCEPT ![Key(c)] = row],
         Grows(usage[Key(c)], meter[Key(c)], row, meter[Key(c)]),
         RowIsCounted(row, meter[Key(c)]), CallHasRow(at, row, meter[Key(c)])
  PROVE  UsageInv'
  <1>1. PICK moved \in UsageCalls : moved.at = at /\ call' = [call EXCEPT ![c] = moved]
    BY CallGoes
  <1>2. Key(c) \in UsageKeys
    BY BillingAssumption DEF Key
  <1>3. PICK count \in Nat : count = meter[Key(c)]
    BY <1>2 DEF UsageInv
  <1>4. call' \in [Calls -> UsageCalls] /\ call'[c] = moved
        /\ \A d \in Calls \ {c} : call'[d] = call[d]
    BY <1>1 DEF UsageInv
  <1>5. usage' \in [UsageKeys -> UsageRows] /\ usage'[Key(c)] = row
        /\ \A k \in UsageKeys \ {Key(c)} : usage'[k] = usage[k]
    BY <1>2 DEF UsageInv
  <1>6. CallHasRow(moved.at, row, count) /\ RowIsCounted(row, count)
        /\ Grows(usage[Key(c)], meter[Key(c)], row, count)
    BY <1>1, <1>3
  <1>7. meter' \in [UsageKeys -> Nat] /\ meter'[Key(c)] = count
        /\ resent' \in [UsageKeys -> BOOLEAN]
        /\ \A k \in UsageKeys \ {Key(c)} : meter'[k] = meter[k]
    BY <1>3 DEF UsageInv
  <1> QED
    BY <1>4, <1>5, <1>6, <1>7, UsageMoves

\* What a transition makes of a row.
LEMMA TransitionRow ==
  ASSUME UsageInv, NEW c \in Calls, NEW n \in Nat,
         NEW state \in {"reporting", "reported", "failed", "uncertain"}, Transition(c, state, n)
  PROVE  \E row \in UsageRows :
           /\ usage' = [usage EXCEPT ![Key(c)] = row]
           /\ usage[Key(c)].state = "reported" => row = usage[Key(c)]
           /\ usage[Key(c)].state # "reported" =>
                /\ row.state = state /\ row.quantity = usage[Key(c)].quantity
                /\ row.attempts = usage[Key(c)].attempts + n
  <1>1. Key(c) \in UsageKeys
    BY BillingAssumption DEF Key
  <1>2. PICK old \in UsageRows : old = usage[Key(c)]
    BY <1>1 DEF UsageInv
  <1>3. CASE old.state = "reported"
    <2>1. usage' = usage
      BY <1>2, <1>3 DEF Transition
    <2>2. usage' = [usage EXCEPT ![Key(c)] = old]
      BY <1>2, <2>1 DEF UsageInv
    <2> QED
      BY <1>2, <1>3, <2>2
  <1>4. CASE old.state # "reported"
    <2>1. PICK row : row = [old EXCEPT !.state = state, !.attempts = @ + n]
      OBVIOUS
    <2>2. usage' = [usage EXCEPT ![Key(c)] = row]
      BY Zenon, <1>2, <1>4, <2>1 DEF Transition, ChangeUsage
    <2>3. row = [state |-> state, by |-> old.by, quantity |-> old.quantity,
                 attempts |-> old.attempts + n]
      BY <2>1 DEF UsageRows
    <2>4. row \in UsageRows /\ row.state = state /\ row.quantity = old.quantity
          /\ row.attempts = old.attempts + n
      BY <2>3 DEF UsageRows
    <2> QED
      BY <1>2, <1>4, <2>2, <2>4
  <1> QED
    BY <1>3, <1>4

\* Where the row of a call stands, with its types.
LEMMA RowOfCall ==
  ASSUME UsageInv, NEW c \in Calls
  PROVE  /\ Key(c) \in UsageKeys /\ call[c] \in UsageCalls
         /\ usage[Key(c)] \in UsageRows /\ meter[Key(c)] \in Nat
         /\ usage[Key(c)].attempts \in Nat /\ usage[Key(c)].quantity \in Nat
         /\ RowIsCounted(usage[Key(c)], meter[Key(c)])
         /\ CallHasRow(call[c].at, usage[Key(c)], meter[Key(c)])
  <1>1. Key(c) \in UsageKeys
    BY BillingAssumption DEF Key
  <1> QED
    BY <1>1 DEF UsageInv, UsageRows

LEMMA FindSubscriptionKeeps ==
  ASSUME UsageInv, BooksTyped, NEW c \in Calls, FindSubscription(c) PROVE UsageInv'
  <1>1. UNCHANGED <<usage, meter, resent>>
    BY DEF FindSubscription
  <1>2. CASE CallGoesTo(c, "refused")
    BY <1>1, <1>2, CallGoesKeeps DEF CallStages, CallHasRow
  <1>3. CASE \E i \in Entitling :
               call' = [call EXCEPT ![c].at = "entitled", ![c].by = <<recent[i]>>]
    <2>1. PICK i \in DOMAIN recent :
            call' = [call EXCEPT ![c].at = "entitled", ![c].by = <<recent[i]>>]
      BY <1>3 DEF Entitling
    <2>2. recent[i] \in Subscribers
      BY <2>1 DEF BooksTyped
    <2>3. PICK by \in Seq(Subscribers) : by = <<recent[i]>>
      <3>1. <<recent[i]>> \in Seq(Subscribers)
        BY <2>2
      <3> QED
        BY <3>1
    <2>4. PICK was \in UsageCalls : was = call[c]
      BY RowOfCall
    <2>5. PICK moved : moved = [was EXCEPT !.at = "entitled", !.by = by]
      OBVIOUS
    <2>6. moved = [at |-> "entitled", by |-> by, tries |-> was.tries]
      BY <2>5 DEF UsageCalls
    <2>7. moved \in UsageCalls /\ moved.at = "entitled"
      BY <2>6 DEF UsageCalls, CallStages
    <2>8. call' = [call EXCEPT ![c] = moved]
      BY Zenon, <2>1, <2>3, <2>4, <2>5
    <2> QED
      BY <1>1, <2>7, <2>8, CallMoves DEF CallHasRow
  <1> QED
    BY <1>2, <1>3 DEF FindSubscription

LEMMA PrepareUsageKeeps ==
  ASSUME UsageInv, NEW c \in Calls, PrepareUsage(c) PROVE UsageInv'
  <1>1. UNCHANGED <<meter, resent>>
    BY DEF PrepareUsage
  <1>2. CASE CallGoesTo(c, "refused") /\ UNCHANGED usage
    BY <1>1, <1>2, CallGoesKeeps DEF CallStages, CallHasRow
  <1>3. CASE /\ ChangeUsage(c, Persisted(c))
             /\ CallGoesTo(c, IF Persisted(c).state = "reported" THEN "answered" ELSE "prepared")
    <2>1. PICK row : row = Persisted(c)
      OBVIOUS
    <2>2. PICK at \in {"answered", "prepared"} : CallGoesTo(c, at)
      BY <1>3
    <2>3. usage' = [usage EXCEPT ![Key(c)] = row]
      BY <1>3, <2>1 DEF ChangeUsage
    <2>4. /\ row \in UsageRows /\ RowIsCounted(row, meter[Key(c)]) /\ row.state # "none"
          /\ Grows(usage[Key(c)], meter[Key(c)], row, meter[Key(c)])
      <3>1. CASE usage[Key(c)] # NoUsage
        <4>1. row = usage[Key(c)]
          BY <2>1, <3>1 DEF Persisted
        <4> QED
          BY <3>1, <4>1, RowOfCall DEF RowIsCounted, Grows
      <3>2. CASE usage[Key(c)] = NoUsage
        <4>1. row = [state |-> "prepared", by |-> call[c].by, quantity |-> UsageOf[c].quantity,
                     attempts |-> 0]
          BY <2>1, <3>2 DEF Persisted
        <4>2. UsageOf[c].quantity \in Nat \ {0}
          BY BillingAssumption
        <4>3. call[c].by \in Seq(Subscribers)
          BY RowOfCall DEF UsageCalls
        <4>4. PICK none \in UsageRows : none = NoUsage /\ none = usage[Key(c)]
          BY <3>2, RowOfCall
        <4>5. none.attempts = 0 /\ none.state = "none"
          BY <4>4 DEF NoUsage
        <4>6. meter[Key(c)] = 0
          BY <4>4, <4>5, RowOfCall DEF RowIsCounted
        <4> QED
          BY <4>1, <4>2, <4>3, <4>4, <4>5, <4>6 DEF RowIsCounted, Grows, UsageRows
      <3> QED
        BY <3>1, <3>2
    <2>5. CallHasRow(at, row, meter[Key(c)]) /\ at \in CallStages
      BY <2>4 DEF CallHasRow, CallStages
    <2> QED
      BY <1>1, <2>2, <2>3, <2>4, <2>5, RowMoves
  <1> QED
    BY <1>2, <1>3 DEF PrepareUsage

LEMMA MarkReportingKeeps ==
  ASSUME UsageInv, NEW c \in Calls, MarkReporting(c) PROVE UsageInv'
  <1>1. call[c].at = "prepared" /\ Transition(c, "reporting", 1) /\ CallGoesTo(c, "reporting")
        /\ UNCHANGED <<meter, resent>>
    BY DEF MarkReporting
  <1>2. PICK row \in UsageRows :
           /\ usage' = [usage EXCEPT ![Key(c)] = row]
           /\ usage[Key(c)].state = "reported" => row = usage[Key(c)]
           /\ usage[Key(c)].state # "reported" =>
                /\ row.state = "reporting" /\ row.quantity = usage[Key(c)].quantity
                /\ row.attempts = usage[Key(c)].attempts + 1
    BY <1>1, TransitionRow
  <1>3. usage[Key(c)].state # "none" /\ usage[Key(c)].quantity # 0
    BY <1>1, RowOfCall DEF CallHasRow, RowIsCounted
  <1>4. Grows(usage[Key(c)], meter[Key(c)], row, meter[Key(c)])
    BY <1>2, <1>3, RowOfCall DEF Grows
  <1>5. RowIsCounted(row, meter[Key(c)])
    BY <1>2, <1>3, RowOfCall DEF RowIsCounted
  <1>6. CallHasRow("reporting", row, meter[Key(c)])
    BY <1>2, <1>3, RowOfCall DEF CallHasRow, RowIsCounted
  <1> QED
    BY <1>1, <1>2, <1>4, <1>5, <1>6, RowMoves DEF CallStages

\* The call is sent, whatever becomes of the answer.
LEMMA DeliveryKeeps ==
  ASSUME UsageInv, NEW c \in Calls, call[c].at = "reporting",
         Delivered(c), UNCHANGED usage,
         NEW at \in {"received", "uncertain", "failed"}, CallGoesTo(c, at)
  PROVE  UsageInv'
  <1>1. PICK moved \in UsageCalls : moved.at = at /\ call' = [call EXCEPT ![c] = moved]
    BY CallGoes DEF CallStages
  <1>2. call' \in [Calls -> UsageCalls] /\ call'[c] = moved
        /\ \A d \in Calls \ {c} : call'[d] = call[d]
    BY <1>1 DEF UsageInv
  <1>3. PICK row \in UsageRows : row = usage[Key(c)]
    BY RowOfCall
  <1>4. PICK count \in Nat : count = IF meter[Key(c)] = 0 THEN row.quantity ELSE meter[Key(c)]
    BY <1>3, RowOfCall
  <1>5. meter' = [meter EXCEPT ![Key(c)] = count]
    BY <1>3, <1>4 DEF Delivered
  <1>6. meter' \in [UsageKeys -> Nat] /\ meter'[Key(c)] = count
        /\ \A k \in UsageKeys \ {Key(c)} : meter'[k] = meter[k]
    BY <1>5, RowOfCall DEF UsageInv
  <1>7. resent' \in [UsageKeys -> BOOLEAN]
    BY RowOfCall DEF Delivered, UsageInv
  <1>8. RowIsCounted(row, count) /\ CallHasRow(at, row, count)
        /\ Grows(usage[Key(c)], meter[Key(c)], row, count)
    BY <1>3, <1>4, RowOfCall DEF RowIsCounted, CallHasRow, Grows
  <1>9. usage' \in [UsageKeys -> UsageRows] /\ usage'[Key(c)] = row
        /\ \A k \in UsageKeys \ {Key(c)} : usage'[k] = usage[k] /\ meter'[k] = meter[k]
    BY <1>3, <1>6 DEF UsageInv
  <1> QED
    BY <1>1, <1>2, <1>6, <1>7, <1>8, <1>9, UsageMoves

LEMMA ReportFailsKeeps ==
  ASSUME UsageInv, NEW c \in Calls, ReportFails(c) PROVE UsageInv'
  <1>1. PICK at \in {"uncertain", "failed"} : CallGoesTo(c, at)
    BY DEF ReportFails
  <1>2. call[c].at = "reporting" /\ UNCHANGED usage
    BY DEF ReportFails
  <1>3. CASE Delivered(c)
    BY <1>1, <1>2, <1>3, DeliveryKeeps
  <1>4. CASE UNCHANGED <<meter, resent>>
    <2>1. CallHasRow(at, usage[Key(c)], meter[Key(c)]) /\ at \in CallStages
      BY <1>1, <1>2, RowOfCall DEF CallHasRow, CallStages
    <2> QED
      BY <1>1, <1>2, <1>4, <2>1, CallGoesKeeps
  <1> QED
    BY <1>3, <1>4 DEF ReportFails

LEMMA RecordOutcomeKeeps ==
  ASSUME UsageInv, NEW c \in Calls, RecordOutcome(c) PROVE UsageInv'
  <1>1. PICK state \in {"reported", "uncertain", "failed"}, at \in {"answered", "broken"} :
          /\ Transition(c, state, 0) /\ CallGoesTo(c, at)
          /\ call[c].at \in {"received", "uncertain", "failed"}
          /\ state = "reported" => call[c].at = "received"
    <2>1. CASE call[c].at = "received" /\ MarkReported(c) /\ CallGoesTo(c, "answered")
      BY <2>1 DEF MarkReported
    <2>2. CASE call[c].at \in {"uncertain", "failed"} /\ MarkFailed(c) /\ CallGoesTo(c, "broken")
      BY <2>2 DEF MarkFailed
    <2> QED
      BY <2>1, <2>2 DEF RecordOutcome
  <1>2. PICK row \in UsageRows :
           /\ usage' = [usage EXCEPT ![Key(c)] = row]
           /\ usage[Key(c)].state = "reported" => row = usage[Key(c)]
           /\ usage[Key(c)].state # "reported" =>
                /\ row.state = state /\ row.quantity = usage[Key(c)].quantity
                /\ row.attempts = usage[Key(c)].attempts + 0
    BY <1>1, TransitionRow
  <1>3. usage[Key(c)].state # "none" /\ usage[Key(c)].quantity # 0
    BY <1>1, RowOfCall DEF CallHasRow, RowIsCounted
  <1>4. Grows(usage[Key(c)], meter[Key(c)], row, meter[Key(c)])
    BY <1>1, <1>2, <1>3, RowOfCall DEF Grows
  <1>5. RowIsCounted(row, meter[Key(c)])
    BY <1>1, <1>2, <1>3, RowOfCall DEF RowIsCounted, CallHasRow
  <1>6. CallHasRow(at, row, meter[Key(c)]) /\ at \in CallStages
    BY <1>1 DEF CallHasRow, CallStages
  <1>7. UNCHANGED <<meter, resent>>
    BY DEF RecordOutcome
  <1> QED
    BY <1>1, <1>2, <1>4, <1>5, <1>6, <1>7, RowMoves

LEMMA SendCallAgainKeeps ==
  ASSUME UsageInv, NEW c \in Calls, SendCallAgain(c) PROVE UsageInv'
  <1>1. PICK moved : moved = [at |-> "idle", by |-> <<>>, tries |-> call[c].tries + 1]
    OBVIOUS
  <1>2. call' = [call EXCEPT ![c] = moved] /\ UNCHANGED <<usage, meter, resent>>
    BY <1>1 DEF SendCallAgain
  <1>3. call[c].tries \in Nat
    BY RowOfCall DEF UsageCalls
  <1>4. moved \in UsageCalls /\ moved.at = "idle"
    BY <1>1, <1>3 DEF UsageCalls, CallStages
  <1> QED
    BY <1>2, <1>4, CallMoves DEF CallHasRow

-----------------------------------------------------------------------------
(* Billing: the books                                                      *)

BillingInv == BooksInv /\ UsageInv

LEMMA BillingInvInit == BillingInit => BillingInv
  <1> SUFFICES ASSUME BillingInit PROVE BillingInv
    OBVIOUS
  <1>1. BooksInv
    BY BooksInvInit
  <1>2. PICK none \in UsageRows : none = NoUsage
    <2>1. PICK nobody \in Seq(Subscribers) : nobody = <<>>
      <3>1. <<>> \in Seq(Subscribers)
        OBVIOUS
      <3> QED
        BY <3>1
    <2>2. PICK none : none = [state |-> "none", by |-> nobody, quantity |-> 0, attempts |-> 0]
      OBVIOUS
    <2>3. none \in UsageRows
      BY <2>2 DEF UsageRows
    <2> QED
      BY <2>1, <2>2, <2>3 DEF NoUsage
  <1>3. none.state = "none"
    BY <1>2 DEF NoUsage
  <1>4. PICK idle \in UsageCalls : idle = [at |-> "idle", by |-> <<>>, tries |-> 0] /\ idle.at = "idle"
    <2>1. PICK nobody \in Seq(Subscribers) : nobody = <<>>
      <3>1. <<>> \in Seq(Subscribers)
        OBVIOUS
      <3> QED
        BY <3>1
    <2>2. PICK idle : idle = [at |-> "idle", by |-> nobody, tries |-> 0]
      OBVIOUS
    <2>3. idle \in UsageCalls /\ idle.at = "idle"
      BY <2>2 DEF UsageCalls, CallStages
    <2> QED
      BY <2>1, <2>2, <2>3
  <1>5. /\ usage \in [UsageKeys -> UsageRows] /\ \A k \in UsageKeys : usage[k] = none
        /\ meter \in [UsageKeys -> Nat] /\ \A k \in UsageKeys : meter[k] = 0
        /\ resent \in [UsageKeys -> BOOLEAN]
        /\ call \in [Calls -> UsageCalls] /\ \A c \in Calls : call[c] = idle
    BY <1>2, <1>4 DEF BillingInit
  <1> QED
    BY <1>1, <1>2, <1>3, <1>4, <1>5 DEF BillingInv, UsageInv, RowIsCounted, CallHasRow

LEMMA UsageUntouched == ASSUME UsageInv, UNCHANGED usageVars PROVE UsageInv'
  BY DEF UsageInv, usageVars, Key

LEMMA BooksUntouched == ASSUME BooksInv, UNCHANGED others PROVE BooksInv'
  BY DEF BooksInv, BooksTyped, RowFollowsProvider, EventsOf, others, buyingVars

LEMMA BillingInvStep == BillingInv /\ [BillingNext]_billingVars => BillingInv'
  <1> SUFFICES ASSUME BillingInv, [BillingNext]_billingVars PROVE BillingInv'
    OBVIOUS
  <1> USE DEF BillingInv
  <1>1. ASSUME NEW s \in Subscribers,
               \/ InsertPending(s) \/ ProviderSubscribes(s) \/ SaveSubscription(s) \/ SubscribeFails(s)
        PROVE  BillingInv'
    <2>1. UNCHANGED usageVars
      BY <1>1 DEF InsertPending, ProviderSubscribes, SaveSubscription, SubscribeFails
    <2>2. BooksInv'
      BY <1>1, InsertPendingKeeps, ProviderSubscribesKeeps, SaveSubscriptionKeeps, SubscribeFailsKeeps
    <2> QED
      BY <2>1, <2>2, UsageUntouched
  <1>2. ASSUME NEW p \in ProviderSubs, StatusChanges(p) PROVE BillingInv'
    BY <1>2, StatusChangesKeeps, UsageUntouched DEF StatusChanges
  <1>3. ASSUME NEW p \in ProviderSubs, NEW n \in 1 .. MaxStatuses, ApplyWebhook(p, n)
        PROVE  BillingInv'
    <2>1. n \in Nat
      BY <1>3 DEF ApplyWebhook, BooksInv, BooksTyped
    <2> QED
      BY <1>3, <2>1, ApplyWebhookKeeps, UsageUntouched DEF ApplyWebhook
  <1>4. ASSUME NEW c \in Calls,
               \/ FindSubscription(c) \/ PrepareUsage(c) \/ MarkReporting(c) \/ ReportUsage(c)
               \/ ReportFails(c) \/ RecordOutcome(c) \/ CallBreaks(c) \/ SendCallAgain(c)
        PROVE  BillingInv'
    <2>1. UNCHANGED others
      BY <1>4 DEF FindSubscription, PrepareUsage, MarkReporting, ReportUsage, ReportFails,
                  RecordOutcome, CallBreaks, SendCallAgain
    <2>2. ASSUME FindSubscription(c) PROVE UsageInv'
      BY <2>2, FindSubscriptionKeeps DEF BooksInv
    <2>3. ASSUME ReportUsage(c) PROVE UsageInv'
      <3>1. call[c].at = "reporting" /\ Delivered(c) /\ UNCHANGED usage /\ CallGoesTo(c, "received")
        BY <2>3 DEF ReportUsage
      <3> QED
        BY <3>1, DeliveryKeeps
    <2>4. ASSUME CallBreaks(c) PROVE UsageInv'
      <3>1. CallGoesTo(c, "broken") /\ UNCHANGED <<usage, meter, resent>>
        BY <2>4 DEF CallBreaks
      <3> QED
        BY <3>1, CallGoesKeeps DEF CallStages, CallHasRow
    <2>5. UsageInv'
      BY <1>4, <2>2, <2>3, <2>4, PrepareUsageKeeps, MarkReportingKeeps, ReportFailsKeeps,
         RecordOutcomeKeeps, SendCallAgainKeeps
    <2> QED
      BY <2>1, <2>5, BooksUntouched
  <1>5. CASE UNCHANGED billingVars
    <2>1. UNCHANGED others /\ UNCHANGED usageVars
      BY <1>5 DEF billingVars, others, usageVars, buyingVars
    <2> QED
      BY <2>1, BooksUntouched, UsageUntouched
  <1> QED
    BY <1>1, <1>2, <1>3, <1>4, <1>5 DEF BillingNext

\* The subscriptions, webhooks, ledger rows and calls of BillingService stay in
\* order with what the provider has seen, as BillingInv describes.
THEOREM BillingInvariant == BillingSpec => []BillingInv
  <1> QED
    BY BillingInvInit, BillingInvStep, PTL DEF BillingSpec

\* However record_usage is retried and webhooks repeat: what is Reported was
\* counted once, and a subscription has a status the provider reported.
THEOREM BooksKeepFollowing == BillingSpec => []BooksFollowProvider
  <1>1. ASSUME BillingInv PROVE BillingTypeOK
    BY <1>1 DEF BillingInv, BooksInv, BooksTyped, UsageInv, BillingTypeOK, UsageRows, Subscriptions
  <1>2. ASSUME BillingInv PROVE LedgerMatchesProvider
    <2>1. \A k \in UsageKeys : usage[k] \in UsageRows /\ RowIsCounted(usage[k], meter[k])
      BY <1>2 DEF BillingInv, UsageInv
    <2> QED
      BY <2>1 DEF LedgerMatchesProvider, RowIsCounted
  <1>3. ASSUME BillingInv PROVE WebhooksApplyOnce
    <2> SUFFICES ASSUME NEW s \in Subscribers, subscription[s].bought
                 PROVE  /\ subscription[s].version <= 1 + Cardinality(EventsOf(BoughtBy[s]))
                        /\ Followed(BoughtBy[s]) = {s}
                        /\ subscription[s].status \in ToSet(provider[BoughtBy[s]])
      BY DEF WebhooksApplyOnce, EventsOf
    <2>1. RowFollowsProvider(s)
      BY <1>3 DEF BillingInv, BooksInv
    <2> QED
      BY <2>1 DEF RowFollowsProvider, Followed
  <1>4. BillingInv => BooksFollowProvider
    BY <1>1, <1>2, <1>3 DEF BooksFollowProvider
  <1> QED
    BY <1>4, BillingInvariant, PTL

\* A late failure of one attempt (mark_failed) does not undo what another one
\* reported, nor does a retry.
THEOREM ReportedStaysFinal == BillingSpec => ReportedIsFinal
  <1>1. ASSUME BillingInv, [BillingNext]_billingVars, NEW k \in UsageKeys, usage[k].state = "reported"
        PROVE  usage'[k] = usage[k]
    <2>1. UsageInv /\ usage \in [UsageKeys -> UsageRows]
      BY <1>1 DEF BillingInv, UsageInv
    <2>2. CASE usage' = usage
      BY <2>2
    <2>3. ASSUME NEW c \in Calls, PrepareUsage(c), usage' # usage PROVE usage'[k] = usage[k]
      <3>1. usage' = [usage EXCEPT ![Key(c)] = Persisted(c)]
        BY <2>3 DEF PrepareUsage, ChangeUsage
      <3>2. CASE k = Key(c)
        <4>1. usage[k] # NoUsage
          BY <1>1 DEF NoUsage
        <4>2. Persisted(c) = usage[k]
          BY <3>2, <4>1 DEF Persisted
        <4> QED
          BY <2>1, <3>1, <3>2, <4>2
      <3> QED
        BY <2>1, <3>1, <3>2
    <2>4. ASSUME NEW c \in Calls, NEW state, NEW n, Transition(c, state, n) PROVE usage'[k] = usage[k]
      BY <1>1, <2>1, <2>4 DEF Transition, ChangeUsage
    <2>5. ASSUME NEW c \in Calls, MarkReporting(c) \/ RecordOutcome(c) PROVE usage'[k] = usage[k]
      BY <2>4, <2>5 DEF MarkReporting, RecordOutcome, MarkReported, MarkFailed
    <2>6. \/ usage' = usage
          \/ \E c \in Calls : PrepareUsage(c) \/ MarkReporting(c) \/ RecordOutcome(c)
      BY <1>1 DEF BillingNext, billingVars, usageVars, InsertPending, ProviderSubscribes,
                  SaveSubscription, SubscribeFails, StatusChanges, ApplyWebhook, FindSubscription,
                  ReportUsage, ReportFails, CallBreaks, SendCallAgain
    <2> QED
      BY <2>2, <2>3, <2>5, <2>6
  <1>2. BillingInv /\ [BillingNext]_billingVars
          => [\A k \in UsageKeys : usage[k].state = "reported" => usage'[k] = usage[k]]_billingVars
    BY <1>1
  <1> QED
    BY <1>2, BillingInvariant, PTL DEF BillingSpec, ReportedIsFinal

-----------------------------------------------------------------------------
(* Certification                                                           *)

Levels == {"preflight", "rc", "ga"}

\* A package is what its files are, whatever is in its certifications.
PackageIsShaped ==
  package # NoFile =>
    \E level \in Levels, manifests \in [Files -> Manifests \cup {NoFile}] :
    \E sources, activation, made, certifications :
      /\ certifications = [a \in Adapters |-> certifications[a]]
      /\ package = [level |-> level, manifests |-> manifests, certifications |-> certifications,
                    sources |-> sources, activation |-> activation, edits |-> made]
      /\ GatePasses(evidence, level)

Runtimes ==
  [at : {"stopped", "loading", "serving"}, todo : SUBSET DOMAIN ManifestFiles,
   manifest : Manifests \cup {NoFile}, certified : SUBSET Adapters, registered : Nat]

\* A certification that speaks for an adapter in a Runtime of this build.
SpeaksFor(c, adapter) ==
  /\ c.digest.adapter = adapter /\ c.commit = BuildCommit
  /\ c.digest.production => c.approved
  /\ \A gate \in c.digest.gates :
       /\ \E item \in ToSet(c.gates) : item.gate = gate /\ item.passed
       /\ \A item \in ToSet(c.gates) : item.gate = gate => item.passed

CertifiedAreKnown ==
  /\ \A a \in daemon.certified : \E c \in certificates : SpeaksFor(c, a)
  /\ \A i \in 1 .. daemon.registered : RuntimeProviders[i] \in daemon.certified

\* While the Runtime runs, whatever the package certifies is remembered.
PackedAreKnown ==
  daemon.at # "stopped" =>
    package # NoFile /\ \A a \in Adapters : package.certifications[a] \in certificates \cup {NoFile}

CertificationInv ==
  PackageIsShaped /\ daemon \in Runtimes /\ CertifiedAreKnown /\ PackedAreKnown

\* A report that passes leaves no required gate in doubt.
LEMMA PassedReportsSpeak ==
  ASSUME NEW m, NEW c, NEW sources, ReportPasses(m, c, sources), IsForThisBuild(c)
  PROVE  SpeaksFor(c, m.adapter)
  <1>1. c.digest = m /\ c.commit = BuildCommit /\ (m.production => c.approved)
        /\ (\A gate \in m.gates : GateIsProven(c, gate)) /\ GatesAreUnique(c)
    BY DEF ReportPasses, IsForThisBuild
  <1>2. \A i, j \in DOMAIN c.gates : c.gates[i].gate = c.gates[j].gate => i = j
    <2> DEFINE f == [i \in DOMAIN c.gates |-> c.gates[i].gate]
    <2>1. IsInjective(f) /\ DOMAIN f = DOMAIN c.gates /\ \A i \in DOMAIN c.gates : f[i] = c.gates[i].gate
      BY <1>1 DEF GatesAreUnique
    <2> HIDE DEF f
    <2> QED
      BY <2>1 DEF IsInjective
  <1>3. ASSUME NEW gate \in m.gates
        PROVE  /\ \E item \in ToSet(c.gates) : item.gate = gate /\ item.passed
               /\ \A item \in ToSet(c.gates) : item.gate = gate => item.passed
    <2>1. PICK i \in DOMAIN c.gates : c.gates[i].gate = gate /\ c.gates[i].passed
      BY <1>1 DEF GateIsProven
    <2>2. ASSUME NEW item \in ToSet(c.gates), item.gate = gate PROVE item.passed
      <3>1. PICK j \in DOMAIN c.gates : item = c.gates[j]
        BY DEF ToSet
      <3> QED
        BY <1>2, <2>1, <2>2, <3>1
    <2>3. c.gates[i] \in ToSet(c.gates)
      BY DEF ToSet
    <2> QED
      BY <2>1, <2>2, <2>3
  <1> QED
    BY <1>1, <1>3 DEF SpeaksFor

\* The levels of the gate are ordered.
LEMMA LevelsAreOrdered ==
  ASSUME NEW e, NEW level \in Levels, GatePasses(e, level)
  PROVE  GatePasses(e, "preflight") /\ (level = "ga" => GatePasses(e, "rc"))
  <1>1. GatePasses(e, "preflight")
    BY DEF GatePasses, GateHolds
  <1>2. ASSUME level = "ga" PROVE GatePasses(e, "rc")
    <2>1. ASSUME NEW role \in ReleasePolicy.roles PROVE SignedOff(e, role, "rc")
      BY <1>2 DEF GatePasses, SignedOff, Approves
    <2> QED
      BY <1>2, <2>1 DEF GatePasses, GateHolds
  <1> QED
    BY <1>1, <1>2

LEMMA StoppedIsRuntime ==
  /\ Stopped \in Runtimes /\ Stopped.at = "stopped" /\ Stopped.certified = {}
  /\ Stopped.registered = 0 /\ Stopped.manifest = NoFile
  BY DEF Stopped, Runtimes

LEMMA PackagesAreFiles ==
  ASSUME NEW level, NEW manifests, NEW certifications, NEW sources, NEW activation, NEW made
  PROVE  [level |-> level, manifests |-> manifests, certifications |-> certifications,
          sources |-> sources, activation |-> activation, edits |-> made] # NoFile
  <1> DEFINE p == [level |-> level, manifests |-> manifests, certifications |-> certifications,
                   sources |-> sources, activation |-> activation, edits |-> made]
  <1>1. "level" \in DOMAIN p /\ "level" \notin DOMAIN NoFile
    BY DEF NoFile
  <1> HIDE DEF p
  <1>2. p # NoFile
    BY <1>1
  <1> QED
    BY <1>2 DEF p

\* A Runtime that stops, or was never started, has certified nothing.
LEMMA PanicKeeps ==
  ASSUME CertificationInv, Panics, UNCHANGED <<evidence, package, certificates>>
  PROVE  CertificationInv'
  <1>1. daemon' \in Runtimes /\ daemon'.at = "stopped" /\ daemon'.certified = {}
        /\ daemon'.registered = 0
    BY StoppedIsRuntime DEF Panics
  <1>2. CertifiedAreKnown' /\ PackedAreKnown'
    BY <1>1 DEF CertifiedAreKnown, PackedAreKnown
  <1> QED
    BY <1>1, <1>2 DEF CertificationInv, PackageIsShaped

\* A Runtime that goes on with the same package.
LEMMA DaemonMoves ==
  ASSUME CertificationInv, UNCHANGED <<evidence, package, certificates>>,
         daemon.at # "stopped", daemon' \in Runtimes,
         \A a \in daemon'.certified : \E c \in certificates : SpeaksFor(c, a),
         \A i \in 1 .. daemon'.registered : RuntimeProviders[i] \in daemon'.certified
  PROVE  CertificationInv'
  <1>1. CertifiedAreKnown' /\ PackedAreKnown'
    BY DEF CertificationInv, PackedAreKnown, CertifiedAreKnown
  <1> QED
    BY <1>1 DEF CertificationInv, PackageIsShaped

LEMMA PackageReleaseKeeps ==
  ASSUME CertificationInv, NEW level \in Levels, PackageRelease(level) PROVE CertificationInv'
  <1>1. PICK manifests \in [Files -> Manifests \cup {NoFile}] :
          package' = [level |-> level, manifests |-> manifests,
                      certifications |-> [a \in Adapters |-> CertificationOf(manifests, a)],
                      sources |-> SourcePaths, activation |-> ToSet(RuntimeProviders), edits |-> 0]
    BY DEF PackageRelease
  <1>2. package = NoFile /\ GatePasses(evidence, level) /\ UNCHANGED <<evidence, daemon, certificates>>
    BY DEF PackageRelease
  <1>3. PICK certifications : certifications = [a \in Adapters |-> CertificationOf(manifests, a)]
    OBVIOUS
  <1>4. certifications = [a \in Adapters |-> certifications[a]]
    BY <1>3
  <1>5. PackageIsShaped'
    <2>1. package' = [level |-> level, manifests |-> manifests, certifications |-> certifications,
                      sources |-> SourcePaths, activation |-> ToSet(RuntimeProviders), edits |-> 0]
      BY <1>1, <1>3
    <2>2. GatePasses(evidence', level)
      BY <1>2
    <2> QED
      BY <1>4, <2>1, <2>2 DEF PackageIsShaped
  <1>6. daemon.at = "stopped"
    BY <1>2 DEF CertificationInv, PackedAreKnown
  <1>7. daemon' \in Runtimes /\ CertifiedAreKnown' /\ PackedAreKnown'
    BY <1>2, <1>6 DEF CertificationInv, CertifiedAreKnown, PackedAreKnown
  <1> QED
    BY <1>5, <1>7 DEF CertificationInv

LEMMA EditPackageKeeps == ASSUME CertificationInv, EditPackage PROVE CertificationInv'
  <1>1. package # NoFile /\ UNCHANGED <<evidence, daemon>>
    BY DEF EditPackage
  <1>a. PICK level \in Levels, manifests \in [Files -> Manifests \cup {NoFile}] :
        \E sources, activation, made, certifications :
          /\ certifications = [a \in Adapters |-> certifications[a]]
          /\ package = [level |-> level, manifests |-> manifests, certifications |-> certifications,
                        sources |-> sources, activation |-> activation, edits |-> made]
          /\ GatePasses(evidence, level)
    BY <1>1 DEF CertificationInv, PackageIsShaped
  <1>2. PICK sources, activation, made, certifications :
          /\ certifications = [a \in Adapters |-> certifications[a]]
          /\ package = [level |-> level, manifests |-> manifests, certifications |-> certifications,
                        sources |-> sources, activation |-> activation, edits |-> made]
          /\ GatePasses(evidence, level)
    BY <1>a
  <1>3. SUFFICES \E newManifests \in [Files -> Manifests \cup {NoFile}] :
                 \E newSources, newActivation, newEdits, newCertifications :
                   /\ newCertifications = [a \in Adapters |-> newCertifications[a]]
                   /\ package' = [level |-> level, manifests |-> newManifests,
                                  certifications |-> newCertifications, sources |-> newSources,
                                  activation |-> newActivation, edits |-> newEdits]
                   /\ certificates \subseteq certificates'
                   /\ \A a \in Adapters :
                        newCertifications[a] \in {certifications[a], NoFile} \cup certificates'
    <2>a. PICK newManifests \in [Files -> Manifests \cup {NoFile}] :
          \E newSources, newActivation, newEdits, newCertifications :
            /\ newCertifications = [a \in Adapters |-> newCertifications[a]]
            /\ package' = [level |-> level, manifests |-> newManifests,
                           certifications |-> newCertifications, sources |-> newSources,
                           activation |-> newActivation, edits |-> newEdits]
            /\ certificates \subseteq certificates'
            /\ \A a \in Adapters :
                 newCertifications[a] \in {certifications[a], NoFile} \cup certificates'
      BY <1>3
    <2>1. PICK newSources, newActivation, newEdits, newCertifications :
            /\ newCertifications = [a \in Adapters |-> newCertifications[a]]
            /\ package' = [level |-> level, manifests |-> newManifests,
                           certifications |-> newCertifications, sources |-> newSources,
                           activation |-> newActivation, edits |-> newEdits]
            /\ certificates \subseteq certificates'
            /\ \A a \in Adapters :
                 newCertifications[a] \in {certifications[a], NoFile} \cup certificates'
      BY <2>a
    <2>2. GatePasses(evidence', level)
      BY <1>1, <1>2
    <2>3. PackageIsShaped'
      BY <2>1, <2>2 DEF PackageIsShaped
    <2>4. daemon' \in Runtimes /\ CertifiedAreKnown'
      BY <1>1, <2>1 DEF CertificationInv, CertifiedAreKnown
    <2>5. package'.certifications = newCertifications /\ package.certifications = certifications
      BY <1>2, <2>1
    <2>6. PackedAreKnown'
      <3> SUFFICES ASSUME daemon'.at # "stopped"
                   PROVE  /\ package' # NoFile
                          /\ \A a \in Adapters : package'.certifications[a] \in certificates' \cup {NoFile}
        BY DEF PackedAreKnown
      <3>1. \A a \in Adapters : certifications[a] \in certificates \cup {NoFile}
        BY <1>1, <2>5 DEF CertificationInv, PackedAreKnown
      <3>2. package' # NoFile
        BY <2>1, PackagesAreFiles
      <3> QED
        BY <2>1, <2>5, <3>1, <3>2
    <2> QED
      BY <2>3, <2>4, <2>6 DEF CertificationInv
  <1>4. /\ package.level = level /\ package.manifests = manifests /\ package.sources = sources
        /\ package.certifications = certifications
        /\ package.activation = activation /\ package.edits = made
    BY <1>2
  <1>5. CASE \E f \in Files, m \in Manifests \cup {NoFile} :
               /\ package' = [package EXCEPT !.manifests[f] = m, !.edits = @ + 1]
               /\ certificates' = certificates
    <2>1. PICK f \in Files, m \in Manifests \cup {NoFile} :
            /\ package' = [package EXCEPT !.manifests[f] = m, !.edits = @ + 1]
            /\ certificates' = certificates
      BY <1>5
    <2>2. PICK changed \in [Files -> Manifests \cup {NoFile}] : changed = [manifests EXCEPT ![f] = m]
      OBVIOUS
    <2>3. package' = [package EXCEPT !.manifests = changed, !.edits = @ + 1]
      BY Zenon, <1>4, <2>1, <2>2
    <2>4. package' = [level |-> level, manifests |-> changed, certifications |-> certifications,
                      sources |-> sources, activation |-> activation, edits |-> made + 1]
      BY <1>2, <2>3
    <2> QED
      BY <1>2, <2>1, <2>4
  <1>6. CASE \E a \in Adapters, c \in Certifications \cup {NoFile} :
               /\ package' = [package EXCEPT !.certifications[a] = c, !.edits = @ + 1]
               /\ certificates' = certificates \cup ({c} \ {NoFile})
    <2>1. PICK a \in Adapters, c \in Certifications \cup {NoFile} :
            /\ package' = [package EXCEPT !.certifications[a] = c, !.edits = @ + 1]
            /\ certificates' = certificates \cup ({c} \ {NoFile})
      BY <1>6
    <2>2. PICK changed : changed = [certifications EXCEPT ![a] = c]
      OBVIOUS
    <2>3. /\ changed = [b \in Adapters |-> changed[b]] /\ changed[a] = c
          /\ \A b \in Adapters \ {a} : changed[b] = certifications[b]
      BY <1>2, <2>2
    <2>4. package' = [package EXCEPT !.certifications = changed, !.edits = @ + 1]
      BY Zenon, <1>4, <2>1, <2>2
    <2>5. package' = [level |-> level, manifests |-> manifests, certifications |-> changed,
                      sources |-> sources, activation |-> activation, edits |-> made + 1]
      BY <1>2, <2>4
    <2>6. certificates \subseteq certificates'
          /\ \A b \in Adapters : changed[b] \in {certifications[b], NoFile} \cup certificates'
      BY <2>1, <2>3
    <2> QED
      BY <2>3, <2>5, <2>6
  <1>7. CASE \E s \in SourcePaths :
               /\ package' = [package EXCEPT !.sources = @ \ {s}, !.edits = @ + 1]
               /\ certificates' = certificates
    <2>1. PICK s \in SourcePaths :
            /\ package' = [package EXCEPT !.sources = @ \ {s}, !.edits = @ + 1]
            /\ certificates' = certificates
      BY <1>7
    <2>2. package' = [level |-> level, manifests |-> manifests, certifications |-> certifications,
                      sources |-> sources \ {s}, activation |-> activation, edits |-> made + 1]
      BY <1>2, <2>1
    <2> QED
      BY <1>2, <2>1, <2>2
  <1>8. CASE \E new \in SUBSET Adapters :
               /\ package' = [package EXCEPT !.activation = new, !.edits = @ + 1]
               /\ certificates' = certificates
    <2>1. PICK new \in SUBSET Adapters :
            /\ package' = [package EXCEPT !.activation = new, !.edits = @ + 1]
            /\ certificates' = certificates
      BY <1>8
    <2>2. package' = [level |-> level, manifests |-> manifests, certifications |-> certifications,
                      sources |-> sources, activation |-> new, edits |-> made + 1]
      BY <1>2, <2>1
    <2> QED
      BY <1>2, <2>1, <2>2
  <1> QED
    BY Zenon, <1>5, <1>6, <1>7, <1>8 DEF EditPackage

LEMMA ReadDirectoryKeeps == ASSUME CertificationInv, ReadDirectory PROVE CertificationInv'
  <1>1. package # NoFile /\ certificates' = PackedCertifications /\ UNCHANGED <<evidence, package>>
    BY DEF ReadDirectory
  <1>2. PICK todo \in SUBSET DOMAIN ManifestFiles :
          daemon' = [Stopped EXCEPT !.at = "loading", !.todo = todo]
    BY DEF ReadDirectory
  <1>3. PICK stopped \in Runtimes :
          stopped = Stopped /\ stopped.certified = {} /\ stopped.registered = 0
    BY StoppedIsRuntime
  <1>4. daemon' = [at |-> "loading", todo |-> todo, manifest |-> stopped.manifest,
                   certified |-> stopped.certified, registered |-> stopped.registered]
    BY <1>2, <1>3 DEF Runtimes
  <1>5. daemon' \in Runtimes /\ daemon'.certified = {} /\ daemon'.registered = 0
    BY <1>3, <1>4 DEF Runtimes
  <1>6. CertifiedAreKnown'
    BY <1>5 DEF CertifiedAreKnown
  <1>7. PackedAreKnown'
    BY <1>1 DEF PackedAreKnown, PackedCertifications
  <1> QED
    BY <1>1, <1>5, <1>6, <1>7 DEF CertificationInv, PackageIsShaped

LEMMA ReadManifestKeeps == ASSUME CertificationInv, ReadManifest PROVE CertificationInv'
  <1>1. daemon.at = "loading" /\ UNCHANGED <<evidence, package, certificates>>
        /\ daemon \in Runtimes
    BY DEF ReadManifest, DaemonStep, CertificationInv
  <1>2. PICK i \in daemon.todo :
          LET m == package.manifests[ManifestFiles[i]] IN
          IF m = NoFile THEN Panics
          ELSE daemon' = [daemon EXCEPT !.manifest = m, !.todo = @ \ {i}]
    BY DEF ReadManifest
  <1>3. PICK m : m = package.manifests[ManifestFiles[i]]
    OBVIOUS
  <1>4. CASE m = NoFile
    BY <1>1, <1>2, <1>3, <1>4, PanicKeeps
  <1>5. CASE m # NoFile
    <2>1. daemon' = [daemon EXCEPT !.manifest = m, !.todo = @ \ {i}]
      BY <1>2, <1>3, <1>5
    <2>2. package # NoFile
      BY <1>1 DEF CertificationInv, PackedAreKnown
    <2>3. package.manifests \in [Files -> Manifests \cup {NoFile}]
      BY <2>2 DEF CertificationInv, PackageIsShaped
    <2>4. ManifestFiles[i] \in Files
      BY <1>1 DEF Runtimes, Files, ToSet
    <2>5. m \in Manifests
      BY <1>3, <1>5, <2>3, <2>4
    <2>6. daemon' = [at |-> "loading", todo |-> daemon.todo \ {i}, manifest |-> m,
                     certified |-> daemon.certified, registered |-> daemon.registered]
      BY <1>1, <2>1 DEF Runtimes
    <2>7. daemon' \in Runtimes /\ daemon'.certified = daemon.certified
          /\ daemon'.registered = daemon.registered
      BY <1>1, <2>5, <2>6 DEF Runtimes
    <2> QED
      BY <1>1, <2>7, DaemonMoves DEF CertificationInv, CertifiedAreKnown
  <1> QED
    BY <1>4, <1>5

LEMMA VerifyCertificationKeeps ==
  ASSUME CertificationInv, VerifyCertification PROVE CertificationInv'
  <1>1. daemon.at = "loading" /\ daemon.manifest # NoFile
        /\ UNCHANGED <<evidence, package, certificates>> /\ daemon \in Runtimes
    BY DEF VerifyCertification, DaemonStep, CertificationInv
  <1>2. PICK m, c : m = daemon.manifest /\ c = package.certifications[m.adapter]
    OBVIOUS
  <1>3. \/ Panics
        \/ /\ c # NoFile /\ ReportPasses(m, c, package.sources) /\ IsForThisBuild(c)
           /\ daemon' = [daemon EXCEPT !.manifest = NoFile, !.certified = @ \cup {m.adapter}]
    BY <1>2 DEF VerifyCertification
  <1>4. CASE Panics
    BY <1>1, <1>4, PanicKeeps
  <1>5. CASE /\ c # NoFile /\ ReportPasses(m, c, package.sources) /\ IsForThisBuild(c)
             /\ daemon' = [daemon EXCEPT !.manifest = NoFile, !.certified = @ \cup {m.adapter}]
    <2>1. m \in Manifests /\ m.adapter \in Adapters
      BY <1>1, <1>2 DEF Runtimes, Adapters
    <2>2. c \in certificates
      BY <1>1, <1>2, <1>5, <2>1 DEF CertificationInv, PackedAreKnown
    <2>3. SpeaksFor(c, m.adapter)
      BY <1>5, PassedReportsSpeak
    <2>4. daemon' = [at |-> "loading", todo |-> daemon.todo, manifest |-> NoFile,
                     certified |-> daemon.certified \cup {m.adapter},
                     registered |-> daemon.registered]
      BY <1>1, <1>5 DEF Runtimes
    <2>5. daemon' \in Runtimes /\ daemon'.certified = daemon.certified \cup {m.adapter}
          /\ daemon'.registered = daemon.registered
      BY <1>1, <2>1, <2>4 DEF Runtimes
    <2>6. \A a \in daemon'.certified : \E d \in certificates : SpeaksFor(d, a)
      BY <2>2, <2>3, <2>5 DEF CertificationInv, CertifiedAreKnown
    <2>7. \A i \in 1 .. daemon'.registered : RuntimeProviders[i] \in daemon'.certified
      BY <2>5 DEF CertificationInv, CertifiedAreKnown
    <2> QED
      BY <1>1, <2>5, <2>6, <2>7, DaemonMoves
  <1> QED
    BY <1>3, <1>4, <1>5

LEMMA VerifyActivationKeeps ==
  ASSUME CertificationInv, VerifyActivation PROVE CertificationInv'
  <1>1. daemon.at = "loading" /\ UNCHANGED <<evidence, package, certificates>>
        /\ daemon \in Runtimes
    BY DEF VerifyActivation, DaemonStep, CertificationInv
  <1>2. CASE Panics
    BY <1>1, <1>2, PanicKeeps
  <1>3. CASE daemon' = [daemon EXCEPT !.at = "serving"]
    <2>1. daemon' = [at |-> "serving", todo |-> daemon.todo, manifest |-> daemon.manifest,
                     certified |-> daemon.certified, registered |-> daemon.registered]
      BY <1>1, <1>3 DEF Runtimes
    <2>2. daemon' \in Runtimes /\ daemon'.certified = daemon.certified
          /\ daemon'.registered = daemon.registered
      BY <1>1, <2>1 DEF Runtimes
    <2> QED
      BY <1>1, <2>2, DaemonMoves DEF CertificationInv, CertifiedAreKnown
  <1> QED
    BY <1>2, <1>3 DEF VerifyActivation

LEMMA RegisterProviderKeeps ==
  ASSUME CertificationInv, RegisterProvider PROVE CertificationInv'
  <1>1. daemon.at = "serving" /\ UNCHANGED <<evidence, package, certificates>>
        /\ daemon \in Runtimes
    BY DEF RegisterProvider, DaemonStep, CertificationInv
  <1>2. CASE Panics
    BY <1>1, <1>2, PanicKeeps
  <1>3. CASE /\ RuntimeProviders[daemon.registered + 1] \in daemon.certified
             /\ daemon' = [daemon EXCEPT !.registered = @ + 1]
    <2>1. daemon' = [at |-> "serving", todo |-> daemon.todo, manifest |-> daemon.manifest,
                     certified |-> daemon.certified, registered |-> daemon.registered + 1]
      BY <1>1, <1>3 DEF Runtimes
    <2>2. daemon' \in Runtimes /\ daemon'.certified = daemon.certified
          /\ daemon'.registered = daemon.registered + 1 /\ daemon.registered \in Nat
      BY <1>1, <2>1 DEF Runtimes
    <2>3. \A i \in 1 .. daemon'.registered : RuntimeProviders[i] \in daemon'.certified
      <3> SUFFICES ASSUME NEW i \in 1 .. daemon.registered + 1
                   PROVE  RuntimeProviders[i] \in daemon.certified
        BY <2>2
      <3>1. i \in 1 .. daemon.registered \/ i = daemon.registered + 1
        BY <2>2
      <3> QED
        BY <1>3, <3>1 DEF CertificationInv, CertifiedAreKnown
    <2> QED
      BY <1>1, <2>2, <2>3, DaemonMoves DEF CertificationInv, CertifiedAreKnown
  <1> QED
    BY <1>2, <1>3 DEF RegisterProvider

LEMMA CertificationInvInit == CertificationInit => CertificationInv
  <1> SUFFICES ASSUME CertificationInit PROVE CertificationInv
    OBVIOUS
  <1>1. package = NoFile /\ daemon = Stopped
    BY DEF CertificationInit
  <1>2. daemon \in Runtimes /\ daemon.at = "stopped" /\ daemon.certified = {} /\ daemon.registered = 0
    BY <1>1, StoppedIsRuntime
  <1> QED
    BY <1>1, <1>2 DEF CertificationInv, PackageIsShaped, CertifiedAreKnown, PackedAreKnown

LEMMA CertificationInvStep ==
  CertificationInv /\ [CertificationNext]_certificationVars => CertificationInv'
  <1> SUFFICES ASSUME CertificationInv, [CertificationNext]_certificationVars
               PROVE  CertificationInv'
    OBVIOUS
  <1>1. ASSUME NEW level \in Levels, PackageRelease(level) PROVE CertificationInv'
    BY <1>1, PackageReleaseKeeps
  <1>2. CASE EditPackage
    BY <1>2, EditPackageKeeps
  <1>3. CASE ReadDirectory
    BY <1>3, ReadDirectoryKeeps
  <1>4. CASE ReadManifest
    BY <1>4, ReadManifestKeeps
  <1>5. CASE VerifyCertification
    BY <1>5, VerifyCertificationKeeps
  <1>6. CASE VerifyActivation
    BY <1>6, VerifyActivationKeeps
  <1>7. CASE RegisterProvider
    BY <1>7, RegisterProviderKeeps
  <1>8. CASE StopDaemon
    BY <1>8, PanicKeeps DEF StopDaemon, DaemonStep
  <1>9. CASE UNCHANGED certificationVars
    BY <1>9 DEF certificationVars, CertificationInv, PackageIsShaped, CertifiedAreKnown, PackedAreKnown
  <1> QED
    BY <1>1, <1>2, <1>3, <1>4, <1>5, <1>6, <1>7, <1>8, <1>9 DEF CertificationNext, Levels

\* A package has the level its evidence passed, and what a Runtime has loaded
\* came from certifications that were in its package when it read them.
THEOREM CertificationInvariant == CertificationSpec => []CertificationInv
  <1> QED
    BY CertificationInvInit, CertificationInvStep, PTL DEF CertificationSpec

\* evaluate lets no release have a grade its evidence does not reach, and a
\* production provider is registered only with a certification of its own.
THEOREM ReleasesStayCertified == CertificationSpec => []ReleasesAreCertified
  <1>1. ASSUME CertificationInv PROVE ProvidersAreCertified
    <2> SUFFICES ASSUME NEW i \in 1 .. daemon.registered
                 PROVE  \E c \in certificates : SpeaksFor(c, RuntimeProviders[i])
      BY DEF ProvidersAreCertified, SpeaksFor
    <2> QED
      BY <1>1 DEF CertificationInv, CertifiedAreKnown
  <1>2. ASSUME CertificationInv PROVE ReleasesAreGraded
    <2> SUFFICES ASSUME package # NoFile
                 PROVE  /\ GatePasses(evidence, "preflight")
                        /\ package.level = "ga" =>
                             /\ GatePasses(evidence, "rc")
                             /\ \A role \in ReleasePolicy.roles : \E s \in ToSet(evidence.signoffs) :
                                  s.role = role /\ s.human /\ s.decision = "ga" /\ s.evidenced
      BY DEF ReleasesAreGraded
    <2>1. package.level \in Levels /\ GatePasses(evidence, package.level)
      BY <1>2 DEF CertificationInv, PackageIsShaped
    <2>2. GatePasses(evidence, "preflight") /\ (package.level = "ga" => GatePasses(evidence, "rc"))
      BY <2>1, LevelsAreOrdered
    <2>3. ASSUME package.level = "ga", NEW role \in ReleasePolicy.roles
          PROVE  \E s \in ToSet(evidence.signoffs) :
                   s.role = role /\ s.human /\ s.decision = "ga" /\ s.evidenced
      <3>1. PICK i \in DOMAIN evidence.signoffs :
              evidence.signoffs[i].role = role /\ Approves(evidence.signoffs[i], "ga")
        BY <2>1, <2>3 DEF GatePasses, SignedOff
      <3> QED
        BY <3>1 DEF Approves, ToSet
    <2> QED
      BY <2>2, <2>3
  <1>3. CertificationInv => ReleasesAreCertified
    BY <1>1, <1>2 DEF ReleasesAreCertified
  <1> QED
    BY <1>3, CertificationInvariant, PTL

-----------------------------------------------------------------------------
(* Sums over sets *)

\* A set of numbers has a first member.
LEMMA FirstOfNumbers ==
  ASSUME NEW S \in SUBSET Nat, S # {}
  PROVE  \E m \in S : \A y \in S : m <= y
  <1>1. PICK R : R = OpToRel(<, Nat)
    OBVIOUS
  <1>2. IsWellFoundedOn(R, Nat)
    BY <1>1, NatLessThanWellFounded
  <1>3. PICK x \in S : \A y \in S : ~(<<y, x>> \in R)
    BY <1>2, WFMin
  <1>4. \A y \in Nat, z \in Nat : y < z => <<y, z>> \in R
    BY <1>1 DEF OpToRel
  <1>5. x \in Nat /\ \A y \in S : y \in Nat /\ ~(y < x)
    BY <1>3, <1>4
  <1>6. \A y \in S : x <= y
    BY <1>5
  <1> QED
    BY <1>6

\* g gives the sum of w over every subset of S, whichever member is added last.
IsSetSum(g, w, S) ==
  /\ g \in [SUBSET S -> Nat]
  /\ g[{}] = 0
  /\ \A T \in SUBSET S : \A x \in T : g[T] = g[T \ {x}] + w[x]

\* One more member, with its number added wherever it takes part.
LEMMA SetSumOfMore ==
  ASSUME NEW S, NEW x, x \notin S, NEW w \in [S \cup {x} -> Nat], NEW g, IsSetSum(g, w, S)
  PROVE  \E h : IsSetSum(h, w, S \cup {x})
  <1> DEFINE h == [T \in SUBSET (S \cup {x}) |-> IF x \in T THEN g[T \ {x}] + w[x] ELSE g[T]]
  <1>1. \A T \in SUBSET (S \cup {x}) : T \ {x} \in SUBSET S /\ (x \notin T => T \in SUBSET S)
    OBVIOUS
  <1>2. h \in [SUBSET (S \cup {x}) -> Nat]
    BY <1>1 DEF IsSetSum
  <1>3. h[{}] = 0
    BY DEF IsSetSum
  <1>4. ASSUME NEW T \in SUBSET (S \cup {x}), NEW y \in T
        PROVE  h[T] = h[T \ {y}] + w[y]
    <2>1. T \ {y} \in SUBSET (S \cup {x}) /\ w[y] \in Nat /\ w[x] \in Nat
      OBVIOUS
    <2>2. CASE y = x
      <3>1. h[T] = g[T \ {x}] + w[x]
        BY <2>2
      <3>2. h[T \ {x}] = g[T \ {x}]
        BY <2>1, <2>2
      <3> QED
        BY <2>2, <3>1, <3>2
    <2>3. CASE y # x /\ x \in T
      <3>1. h[T] = g[T \ {x}] + w[x]
        BY <2>3
      <3>2. x \in T \ {y} /\ h[T \ {y}] = g[(T \ {y}) \ {x}] + w[x]
        BY <2>1, <2>3
      <3>3. (T \ {y}) \ {x} = (T \ {x}) \ {y}
        OBVIOUS
      <3>4. T \ {x} \in SUBSET S /\ y \in T \ {x} /\ (T \ {x}) \ {y} \in SUBSET S
        BY <2>3
      <3>5. g[T \ {x}] = g[(T \ {x}) \ {y}] + w[y]
        <4>1. PICK U \in SUBSET S : U = T \ {x}
          BY <3>4
        <4>2. g[U] = g[U \ {y}] + w[y]
          BY <3>4, <4>1 DEF IsSetSum
        <4> QED
          BY <4>1, <4>2
      <3>6. g[(T \ {x}) \ {y}] \in Nat
        BY <3>4 DEF IsSetSum
      <3>7. PICK a \in Nat, b \in Nat, c \in Nat :
              a = g[(T \ {x}) \ {y}] /\ b = w[x] /\ c = w[y]
        BY <2>1, <3>6
      <3>8. h[T] = (a + c) + b /\ h[T \ {y}] = a + b
        BY <3>1, <3>2, <3>3, <3>5, <3>7
      <3> QED
        BY <3>7, <3>8
    <2>4. CASE x \notin T
      <3>1. T \in SUBSET S /\ T \ {y} \in SUBSET S
        BY <2>4
      <3>2. h[T] = g[T] /\ h[T \ {y}] = g[T \ {y}]
        BY <2>1, <2>4
      <3> QED
        BY <3>1, <3>2 DEF IsSetSum
    <2> QED
      BY <2>2, <2>3, <2>4
  <1> HIDE DEF h
  <1>5. IsSetSum(h, w, S \cup {x})
    BY <1>2, <1>3, <1>4 DEF IsSetSum
  <1> QED
    BY <1>5

\* A smallest subset without a sum has a member, and is a smaller one and that.
LEMMA SetSumsExist ==
  ASSUME NEW S, IsFiniteSet(S), NEW w \in [S -> Nat]
  PROVE  \E g : IsSetSum(g, w, S)
  <1> DEFINE Bad == {T \in SUBSET S : ~\E g : IsSetSum(g, w, T)}
             counts == {Cardinality(T) : T \in Bad}
  <1>1. \A T \in SUBSET S : IsFiniteSet(T) /\ Cardinality(T) \in Nat
    BY FS_Subset, FS_CardinalityType
  <1>2. Bad = {}
    <2>1. SUFFICES ASSUME Bad # {} PROVE FALSE
      OBVIOUS
    <2>2. PICK m \in counts : \A y \in counts : m <= y
      <3>1. counts \in SUBSET Nat /\ counts # {}
        BY <1>1, <2>1
      <3> QED
        BY <3>1, FirstOfNumbers
    <2>3. PICK T \in Bad : m = Cardinality(T)
      BY <2>2
    <2>4. T # {}
      <3>1. SUFFICES ASSUME T = {} PROVE FALSE
        OBVIOUS
      <3> DEFINE z == [U \in {{}} |-> 0]
      <3>2. z \in [SUBSET {} -> Nat] /\ z[{}] = 0
        OBVIOUS
      <3> HIDE DEF z
      <3>3. IsSetSum(z, w, {})
        BY <3>2 DEF IsSetSum
      <3> QED
        BY <2>3, <3>1, <3>3
    <2>5. PICK x \in T : TRUE
      BY <2>4
    <2>6. PICK U \in SUBSET S : U = T \ {x}
      BY <2>3
    <2>7. Cardinality(U) = m - 1 /\ m \in Nat
      BY <1>1, <2>3, <2>5, <2>6, FS_RemoveElement
    <2>8. U \notin Bad
      <3>1. SUFFICES ASSUME U \in Bad PROVE FALSE
        OBVIOUS
      <3>2. Cardinality(U) \in counts
        BY <3>1
      <3>3. m <= m - 1
        BY <2>2, <2>7, <3>2
      <3> QED
        BY <2>7, <3>3
    <2>9. PICK g : IsSetSum(g, w, U)
      BY <2>8
    <2>10. U \cup {x} = T /\ x \notin U /\ T \in SUBSET S
      BY <2>3, <2>5, <2>6
    <2>11. PICK v \in [T -> Nat] : v = [c \in T |-> w[c]]
      BY <2>10
    <2>12. IsSetSum(g, v, U)
      BY <2>9, <2>10, <2>11 DEF IsSetSum
    <2>13. PICK h : IsSetSum(h, v, T)
      BY <2>10, <2>12, SetSumOfMore
    <2>14. IsSetSum(h, w, T)
      <3>1. \A V \in SUBSET T : \A y \in V : h[V] = h[V \ {y}] + v[y] /\ v[y] = w[y]
        BY <2>11, <2>13 DEF IsSetSum
      <3> QED
        BY <2>13, <3>1 DEF IsSetSum
    <2> QED
      BY <2>3, <2>14
  <1>3. S \notin Bad
    BY <1>2
  <1> QED
    BY <1>3

\* The sum of the library, which chooses an order, is that sum.
LEMMA SumIsSetSum ==
  ASSUME NEW S, IsFiniteSet(S), NEW w \in [S -> Nat], NEW g, IsSetSum(g, w, S),
         NEW T \in SUBSET S
  PROVE  SumFunctionOnSet(w, T) = g[T]
  <1> DEFINE Defines(u) == u = [s \in SUBSET T |->
                             IF s = {} THEN 0
                             ELSE w[CHOOSE x \in s : TRUE] + u[s \ {CHOOSE x \in s : TRUE}]]
             u == CHOOSE u : Defines(u)
  <1>0. \A U \in SUBSET T : /\ IsFiniteSet(U) /\ Cardinality(U) \in Nat /\ U \in SUBSET S
                            /\ g[U] \in Nat
    BY FS_Subset, FS_CardinalityType DEF IsSetSum
  <1>1. \A U \in SUBSET T : U # {} =>
          /\ (CHOOSE x \in U : TRUE) \in U
          /\ U \ {CHOOSE x \in U : TRUE} \in SUBSET T
          /\ g[U] = w[CHOOSE x \in U : TRUE] + g[U \ {CHOOSE x \in U : TRUE}]
    <2>1. SUFFICES ASSUME NEW U \in SUBSET T, U # {}
                   PROVE  /\ (CHOOSE x \in U : TRUE) \in U
                          /\ U \ {CHOOSE x \in U : TRUE} \in SUBSET T
                          /\ g[U] = w[CHOOSE x \in U : TRUE] + g[U \ {CHOOSE x \in U : TRUE}]
      OBVIOUS
    <2>2. PICK x \in U : x = CHOOSE y \in U : TRUE
      BY <2>1
    <2>3. U \ {x} \in SUBSET T /\ w[x] \in Nat /\ g[U \ {x}] \in Nat
      BY <1>0
    <2>4. g[U] = g[U \ {x}] + w[x]
      BY <1>0 DEF IsSetSum
    <2>5. g[U] = w[x] + g[U \ {x}]
      BY <2>3, <2>4
    <2> QED
      BY <2>2, <2>3, <2>5
  <1>2. PICK v : v = [U \in SUBSET T |-> g[U]]
    OBVIOUS
  <1>3. Defines(v)
    <2>1. \A U \in SUBSET T :
            v[U] = IF U = {} THEN 0
                   ELSE w[CHOOSE x \in U : TRUE] + v[U \ {CHOOSE x \in U : TRUE}]
      <3>1. ASSUME NEW U \in SUBSET T, U # {}
            PROVE  v[U] = w[CHOOSE x \in U : TRUE] + v[U \ {CHOOSE x \in U : TRUE}]
        BY <1>1, <1>2, <3>1
      <3>2. v[{}] = 0
        BY <1>2 DEF IsSetSum
      <3> QED
        BY <3>1, <3>2
    <2>2. v = [U \in SUBSET T |-> v[U]]
      BY <1>2
    <2> QED
      BY <2>1, <2>2
  <1>4. Defines(u)
    BY <1>3
  <1>5. SumFunctionOnSet(w, T) = u[T]
    BY DEF SumFunctionOnSet, FoldFunctionOnSet, MapThenFoldSet
  <1> HIDE DEF u
  <1>6. \A U \in SUBSET T :
          u[U] = IF U = {} THEN 0
                 ELSE w[CHOOSE x \in U : TRUE] + u[U \ {CHOOSE x \in U : TRUE}]
    BY <1>4
  <1> DEFINE Bad == {U \in SUBSET T : u[U] # g[U]}
             counts == {Cardinality(U) : U \in Bad}
  <1>7. Bad = {}
    <2>1. SUFFICES ASSUME Bad # {} PROVE FALSE
      OBVIOUS
    <2>2. PICK m \in counts : \A y \in counts : m <= y
      <3>1. counts \in SUBSET Nat /\ counts # {}
        BY <1>0, <2>1
      <3> QED
        BY <3>1, FirstOfNumbers
    <2>3. PICK U \in Bad : m = Cardinality(U)
      BY <2>2
    <2>4. U # {}
      BY <1>6, <2>3 DEF IsSetSum
    <2>5. PICK x \in U : x = CHOOSE y \in U : TRUE
      BY <2>4
    <2>6. PICK V \in SUBSET T : V = U \ {x}
      BY <2>3
    <2>7. Cardinality(V) = m - 1 /\ m \in Nat
      BY <1>0, <2>3, <2>5, <2>6, FS_RemoveElement
    <2>8. V \notin Bad
      <3>1. SUFFICES ASSUME V \in Bad PROVE FALSE
        OBVIOUS
      <3>2. Cardinality(V) \in counts
        BY <3>1
      <3>3. m <= m - 1
        BY <2>2, <2>7, <3>2
      <3> QED
        BY <2>7, <3>3
    <2>9. u[U] = w[x] + u[V] /\ g[U] = w[x] + g[V]
      BY <1>1, <1>6, <2>3, <2>4, <2>5, <2>6
    <2> QED
      BY <2>3, <2>8, <2>9
  <1> QED
    BY <1>5, <1>7

\* Numbers added make no sum smaller.
LEMMA LargerSetLargerSum ==
  ASSUME NEW S, IsFiniteSet(S), NEW w \in [S -> Nat], NEW g, IsSetSum(g, w, S),
         NEW U \in SUBSET S, NEW T \in SUBSET U
  PROVE  g[T] <= g[U]
  <1> DEFINE Bad == {V \in SUBSET U : T \subseteq V /\ ~(g[T] <= g[V])}
             counts == {Cardinality(V) : V \in Bad}
  <1>1. \A V \in SUBSET U : /\ IsFiniteSet(V) /\ Cardinality(V) \in Nat /\ V \in SUBSET S
                            /\ g[V] \in Nat
    BY FS_Subset, FS_CardinalityType DEF IsSetSum
  <1>2. Bad = {}
    <2>1. SUFFICES ASSUME Bad # {} PROVE FALSE
      OBVIOUS
    <2>2. PICK m \in counts : \A y \in counts : m <= y
      <3>1. counts \in SUBSET Nat /\ counts # {}
        BY <1>1, <2>1
      <3> QED
        BY <3>1, FirstOfNumbers
    <2>3. PICK V \in Bad : m = Cardinality(V)
      BY <2>2
    <2>4. T # V
      BY <1>1, <2>3
    <2>5. PICK x \in V : x \notin T
      BY <2>3, <2>4
    <2>6. PICK W \in SUBSET U : W = V \ {x}
      BY <2>3
    <2>7. Cardinality(W) = m - 1 /\ m \in Nat
      BY <1>1, <2>3, <2>5, <2>6, FS_RemoveElement
    <2>8. W \notin Bad
      <3>1. SUFFICES ASSUME W \in Bad PROVE FALSE
        OBVIOUS
      <3>2. Cardinality(W) \in counts
        BY <3>1
      <3>3. m <= m - 1
        BY <2>2, <2>7, <3>2
      <3> QED
        BY <2>7, <3>3
    <2>9. g[T] <= g[W]
      BY <2>3, <2>5, <2>6, <2>8
    <2>10. g[V] = g[W] + w[x] /\ w[x] \in Nat
      BY <1>1, <2>3, <2>5, <2>6 DEF IsSetSum
    <2>11. g[T] \in Nat /\ g[V] \in Nat /\ g[W] \in Nat
      BY <1>1
    <2>12. g[T] <= g[V]
      BY <2>9, <2>10, <2>11
    <2> QED
      BY <2>3, <2>12
  <1> QED
    BY <1>1, <1>2

-----------------------------------------------------------------------------
(* Packages of context *)

PackingShape ==
  /\ \E ids \in SUBSET ContextIds : offered \in [ids -> ContextCandidates]
  /\ budget \in [max : Limits, reserved : Reserves]
  /\ outcome \in {"start", "building", "invalid_budget", "required_overflow"}
  /\ pending \cup items \cup omitted = DOMAIN offered
  /\ pending \cap items = {} /\ pending \cap omitted = {} /\ items \cap omitted = {}

\* Candidates are considered in the order of the list; the required ones are
\* within the budget, and so is what is packed; what was left out did not fit.
PackingInv ==
  /\ PackingShape
  /\ spent = TokensOf(items)
  /\ \A c \in items \cup omitted, d \in pending : Before(c, d)
  /\ outcome = "start" => items = {} /\ omitted = {} /\ spent = 0
  /\ outcome = "building" => RequiredFit /\ spent <= Usable
  /\ OmissionsWereNeeded

\* The tokens of the candidates, and a function that sums them.
TokenSums(w, g) ==
  /\ w = [c \in DOMAIN offered |-> offered[c].tokens]
  /\ w \in [DOMAIN offered -> Nat]
  /\ IsSetSum(g, w, DOMAIN offered)
  /\ \A ids \in SUBSET DOMAIN offered : SumFunctionOnSet(w, ids) = g[ids] /\ g[ids] \in Nat
  /\ \A U \in SUBSET DOMAIN offered : \A T \in SUBSET U : g[T] <= g[U]

\* TokensOf sums what is offered.
LEMMA TokensAreSums == PackingShape => \E w, g : TokenSums(w, g)
  <1> SUFFICES ASSUME PackingShape PROVE \E w, g : TokenSums(w, g)
    OBVIOUS
  <1>1. PICK ids \in SUBSET ContextIds : offered \in [ids -> ContextCandidates]
    BY DEF PackingShape
  <1>2. IsFiniteSet(ids) /\ DOMAIN offered = ids
    BY <1>1, FS_Subset, PackingAssumption
  <1>3. PICK w : w = [c \in DOMAIN offered |-> offered[c].tokens]
    OBVIOUS
  <1>4. \A c \in ids : offered[c].tokens \in Nat
    BY <1>1, PackingAssumption DEF ContextCandidates
  <1>5. w \in [ids -> Nat]
    BY <1>2, <1>3, <1>4
  <1>6. PICK g : IsSetSum(g, w, ids)
    BY <1>2, <1>5, SetSumsExist
  <1>7. ASSUME NEW T \in SUBSET ids
        PROVE  SumFunctionOnSet(w, T) = g[T] /\ g[T] \in Nat
    <2>1. SumFunctionOnSet(w, T) = g[T]
      BY <1>2, <1>5, <1>6, SumIsSetSum
    <2> QED
      BY <1>6, <2>1 DEF IsSetSum
  <1>8. \A U \in SUBSET ids : \A T \in SUBSET U : g[T] <= g[U]
    BY <1>2, <1>5, <1>6, LargerSetLargerSum
  <1> QED
    BY <1>2, <1>3, <1>5, <1>6, <1>7, <1>8 DEF TokenSums

LEMMA PackingInvInit == PackingInit => PackingInv
  <1> SUFFICES ASSUME PackingInit PROVE PackingInv
    OBVIOUS
  <1>1. PackingShape
    BY DEF PackingInit, PackingShape
  <1>2. PICK w, g : TokenSums(w, g)
    BY <1>1, TokensAreSums
  <1>3. TokensOf(items) = g[{}] /\ g[{}] = 0
    BY <1>2 DEF PackingInit, TokensOf, TokenSums, IsSetSum
  <1> QED
    BY <1>1, <1>3 DEF PackingInit, PackingInv, OmissionsWereNeeded

\* A required candidate is packed only after required ones.
LEMMA RequiredFirst ==
  ASSUME PackingInv, NEW c \in pending, offered[c].required
  PROVE  items \cup {c} \subseteq RequiredOnes
  <1>1. \A d \in items : Before(d, c) /\ d \in DOMAIN offered
    BY DEF PackingInv, PackingShape
  <1>2. c \in DOMAIN offered
    BY DEF PackingInv, PackingShape
  <1> QED
    BY <1>1, <1>2 DEF Before, RequiredOnes

\* The candidate considered goes to one side, in its turn.
LEMMA ConsiderKeepsShape ==
  ASSUME PackingInv, NEW c, Consider(c)
  PROVE  PackingShape' /\ \A x \in items' \cup omitted', d \in pending' : Before(x, d)'
  <1>1. /\ UNCHANGED <<offered, budget, outcome>>
        /\ c \in pending /\ pending' = pending \ {c}
        /\ \/ items' = items \cup {c} /\ omitted' = omitted
           \/ omitted' = omitted \cup {c} /\ items' = items
    BY DEF Consider
  <1>2. PackingShape'
    BY <1>1 DEF PackingInv, PackingShape
  <1>3. ASSUME NEW x \in items' \cup omitted', NEW d \in pending'
        PROVE  Before(x, d)'
    <2>1. Before(x, d)
      BY <1>1, <1>3 DEF PackingInv, Consider
    <2> QED
      BY <1>1, <2>1 DEF Before
  <1> QED
    BY <1>2, <1>3

\* A candidate that is taken keeps the budget; one that is left out has no room.
LEMMA ConsiderKeepsPacking ==
  ASSUME PackingInv, NEW c, Consider(c)
  PROVE  PackingInv'
  <1>1. /\ offered' = offered /\ budget' = budget /\ outcome' = outcome
        /\ outcome = "building" /\ c \in pending /\ pending' = pending \ {c}
    BY DEF Consider
  <1>2. PICK w, g : TokenSums(w, g)
    BY TokensAreSums DEF PackingInv
  <1>3. /\ items \in SUBSET DOMAIN offered /\ omitted \in SUBSET DOMAIN offered
        /\ c \in DOMAIN offered /\ c \notin items /\ c \notin omitted
    BY <1>1 DEF PackingInv, PackingShape
  <1>4. /\ \A ids \in SUBSET DOMAIN offered : TokensOf(ids) = g[ids] /\ g[ids] \in Nat
        /\ w[c] = offered[c].tokens /\ w[c] \in Nat
    BY <1>2, <1>3 DEF TokenSums, TokensOf
  <1>5. Usable \in Int /\ Usable' = Usable
    <2>1. budget.max \in Limits /\ budget.reserved \in Reserves
      BY DEF PackingInv, PackingShape
    <2>2. budget.max \in Nat /\ budget.reserved \in Nat
      BY <2>1, PackingAssumption
    <2> QED
      BY <1>1, <2>2 DEF Usable
  <1>6. RequiredFit' /\ RequiredOnes' = RequiredOnes /\ g[RequiredOnes] <= Usable
    <2>1. RequiredOnes' = RequiredOnes /\ RequiredOnes \in SUBSET DOMAIN offered
      BY <1>1 DEF RequiredOnes
    <2>2. RequiredFit /\ RequiredFit'
      BY <1>1, <1>5, <2>1 DEF PackingInv, RequiredFit, TokensOf
    <2> QED
      BY <1>4, <2>1, <2>2 DEF RequiredFit
  <1>7. PackingShape' /\ \A x \in items' \cup omitted', d \in pending' : Before(x, d)'
    BY ConsiderKeepsShape
  <1>8. spent = g[items] /\ spent \in Nat
    BY <1>3, <1>4 DEF PackingInv
  <1>9. CASE Fits(c)
    <2>1. items' = items \cup {c} /\ spent' = spent + w[c] /\ omitted' = omitted
      BY <1>4, <1>9 DEF Consider
    <2>2. g[items \cup {c}] = g[items] + w[c]
      <3>1. PICK T \in SUBSET DOMAIN offered : T = items \cup {c}
        BY <1>3
      <3>2. c \in T /\ T \ {c} = items
        BY <1>3, <3>1
      <3>3. \A S \in SUBSET DOMAIN offered : \A x \in S : g[S] = g[S \ {x}] + w[x]
        BY <1>2 DEF TokenSums, IsSetSum
      <3>4. g[T] = g[T \ {c}] + w[c]
        BY <3>1, <3>2, <3>3
      <3> QED
        BY <3>1, <3>2, <3>4
    <2>3. TokensOf(items)' = g[items']
      <3>1. items' \in SUBSET DOMAIN offered
        BY <1>3, <2>1
      <3> QED
        BY <1>1, <1>2, <3>1 DEF TokenSums, TokensOf
    <2>4. spent' = TokensOf(items)'
      BY <1>8, <2>1, <2>2, <2>3
    <2>5. spent' <= Usable
      <3>1. CASE offered[c].required
        <4>1. items' \in SUBSET RequiredOnes /\ RequiredOnes \in SUBSET DOMAIN offered
          BY <1>1, <2>1, <3>1, RequiredFirst DEF RequiredOnes
        <4>2. g[items'] <= g[RequiredOnes] /\ g[items'] \in Nat /\ g[RequiredOnes] \in Nat
          BY <1>2, <4>1 DEF TokenSums
        <4> QED
          BY <1>5, <1>6, <2>3, <2>4, <4>2
      <3>2. CASE ~offered[c].required
        BY <1>4, <1>9, <2>1, <3>2 DEF Fits
      <3> QED
        BY <3>1, <3>2
    <2>6. OmissionsWereNeeded'
      <3>1. SUFFICES ASSUME NEW x \in omitted
                     PROVE  /\ ~offered[x].required
                            /\ spent' + offered[x].tokens > Usable
                            /\ TokensOf({d \in items : Before(d, x)})' + offered[x].tokens > Usable
        BY <1>1, <1>5, <2>1 DEF OmissionsWereNeeded
      <3>2. /\ ~offered[x].required
            /\ spent + offered[x].tokens > Usable
            /\ TokensOf({d \in items : Before(d, x)}) + offered[x].tokens > Usable
        BY <1>1, <3>1 DEF PackingInv, OmissionsWereNeeded
      <3>3. offered[x].tokens \in Nat
        BY <1>2, <1>3, <3>1 DEF TokenSums
      <3>4. PICK T \in SUBSET DOMAIN offered : T = {d \in items : Before(d, x)}
        BY <1>3
      <3>5. PICK U \in SUBSET DOMAIN offered : U = {d \in items' : Before(d, x)'}
        BY <1>3, <2>1
      <3>6. T \in SUBSET U
        BY <1>1, <2>1, <3>4, <3>5 DEF Before
      <3>7. TokensOf({d \in items : Before(d, x)})' = g[U]
        BY <1>1, <1>2, <3>5 DEF TokenSums, TokensOf
      <3>8. TokensOf({d \in items : Before(d, x)}) = g[T]
        BY <1>4, <3>4
      <3>9. g[T] <= g[U] /\ g[T] \in Nat /\ g[U] \in Nat
        BY <1>2, <3>6 DEF TokenSums
      <3>10. g[U] + offered[x].tokens > Usable
        BY <1>5, <3>2, <3>3, <3>8, <3>9
      <3>11. spent' + offered[x].tokens > Usable
        BY <1>4, <1>5, <1>8, <2>1, <3>2, <3>3
      <3> QED
        BY <3>2, <3>7, <3>10, <3>11
    <2> QED
      BY <1>1, <1>5, <1>6, <1>7, <2>4, <2>5, <2>6 DEF PackingInv
  <1>10. CASE ~Fits(c)
    <2>1. items' = items /\ spent' = spent /\ omitted' = omitted \cup {c}
      BY <1>10 DEF Consider
    <2>2. \A ids \in SUBSET DOMAIN offered : SumFunctionOnSet(w, ids) = TokensOf(ids)
      BY <1>2 DEF TokenSums, TokensOf
    <2>3. spent' = TokensOf(items)'
      BY <1>1, <2>1 DEF PackingInv, TokensOf
    <2>4. OmissionsWereNeeded'
      <3>1. SUFFICES ASSUME NEW x \in omitted \cup {c}
                     PROVE  /\ ~offered[x].required
                            /\ spent + offered[x].tokens > Usable
                            /\ TokensOf({d \in items : Before(d, x)})' + offered[x].tokens > Usable
        BY <1>1, <1>5, <2>1 DEF OmissionsWereNeeded
      <3>2. TokensOf({d \in items : Before(d, x)})' = TokensOf({d \in items : Before(d, x)})
        BY <1>1, <2>1 DEF TokensOf, Before
      <3>3. CASE x \in omitted
        BY <1>1, <3>2, <3>3 DEF PackingInv, OmissionsWereNeeded
      <3>4. CASE x = c
        <4>1. {d \in items : Before(d, c)} = items
          BY <1>1 DEF PackingInv
        <4>2. TokensOf({d \in items : Before(d, c)}) = spent
          BY <4>1 DEF PackingInv
        <4>3. ~offered[c].required /\ ~(spent + offered[c].tokens <= Usable)
          BY <1>10 DEF Fits
        <4>4. spent + offered[c].tokens > Usable
          BY <1>4, <1>5, <1>8, <4>3
        <4> QED
          BY <3>2, <3>4, <4>2, <4>3, <4>4
      <3> QED
        BY <3>1, <3>3, <3>4
    <2> QED
      BY <1>1, <1>5, <1>6, <1>7, <2>1, <2>3, <2>4 DEF PackingInv
  <1> QED
    BY <1>9, <1>10

LEMMA PackingInvStep == PackingInv /\ [PackingNext]_packingVars => PackingInv'
  <1> SUFFICES ASSUME PackingInv, [PackingNext]_packingVars PROVE PackingInv'
    OBVIOUS
  <1>1. CASE RejectBudget
    <2>1. /\ UNCHANGED <<offered, budget, pending, items, omitted, spent>>
          /\ outcome' = "invalid_budget"
      BY <1>1 DEF RejectBudget
    <2> QED
      BY <2>1 DEF PackingInv, PackingShape, TokensOf, Before, OmissionsWereNeeded
  <1>2. CASE StartPacking
    <2>1. /\ UNCHANGED <<offered, budget, pending, items, omitted, spent>>
          /\ outcome = "start" /\ budget.reserved < budget.max
          /\ outcome' = IF RequiredFit THEN "building" ELSE "required_overflow"
      BY <1>2 DEF StartPacking
    <2>2. budget.max \in Nat /\ budget.reserved \in Nat
      <3>1. budget.max \in Limits /\ budget.reserved \in Reserves
        BY DEF PackingInv, PackingShape
      <3> QED
        BY <3>1, PackingAssumption
    <2>3. items = {} /\ omitted = {} /\ 0 <= Usable /\ spent = 0
      BY <2>1, <2>2 DEF PackingInv, Usable
    <2>4. PackingShape' /\ OmissionsWereNeeded'
      BY <2>1, <2>3 DEF PackingInv, PackingShape, OmissionsWereNeeded
    <2>5. outcome' = "building" => RequiredFit' /\ spent' <= Usable'
      BY <2>1, <2>3 DEF RequiredFit, RequiredOnes, TokensOf, Usable
    <2>6. outcome' # "start" /\ spent' = TokensOf(items)'
      BY <2>1 DEF PackingInv, TokensOf
    <2> QED
      BY <2>1, <2>3, <2>4, <2>5, <2>6 DEF PackingInv
  <1>3. ASSUME NEW c \in ContextIds, Consider(c)
        PROVE  PackingInv'
    BY <1>3, ConsiderKeepsPacking
  <1>4. CASE UNCHANGED packingVars
    BY <1>4 DEF packingVars, PackingInv, PackingShape, TokensOf, Before, OmissionsWereNeeded,
       RequiredFit, RequiredOnes, Usable
  <1> QED
    BY <1>1, <1>2, <1>3, <1>4 DEF PackingNext

\* What was left out has no room in the finished package, nor had it beside what
\* comes before it.
LEMMA PackingInvTight == PackingInv => PackagesAreTight
  <1> SUFFICES ASSUME PackingInv PROVE PackagesAreTight
    OBVIOUS
  <1>1. IsFiniteSet(DOMAIN offered)
    BY FS_Subset, PackingAssumption DEF PackingInv, PackingShape
  <1>2. PICK a, b, c : a = pending /\ b = items /\ c = omitted
    OBVIOUS
  <1>3. /\ a \cup b \cup c = DOMAIN offered
        /\ a \cap b = {} /\ (a \cup b) \cap c = {}
    BY <1>2 DEF PackingInv, PackingShape
  <1>4. IsFiniteSet(a) /\ IsFiniteSet(b) /\ IsFiniteSet(c) /\ IsFiniteSet(a \cup b)
    BY <1>1, <1>3, FS_Subset
  <1>5. /\ Cardinality(a \cup b) = Cardinality(a) + Cardinality(b)
        /\ Cardinality(a \cup b \cup c) = Cardinality(a \cup b) + Cardinality(c)
    <2>1. ASSUME NEW S, NEW T, IsFiniteSet(S), IsFiniteSet(T), S \cap T = {}
          PROVE  Cardinality(S \cup T) = Cardinality(S) + Cardinality(T)
      <3>1. Cardinality(S \cup T) = Cardinality(S) + Cardinality(T) - Cardinality(S \cap T)
        BY <2>1, FS_Union
      <3>2. Cardinality(S \cap T) = 0 /\ Cardinality(S) \in Nat /\ Cardinality(T) \in Nat
        BY <2>1, FS_EmptySet, FS_CardinalityType
      <3> QED
        BY <3>1, <3>2
    <2>2. Cardinality(a \cup b) = Cardinality(a) + Cardinality(b)
      BY <1>3, <1>4, <2>1
    <2>3. Cardinality((a \cup b) \cup c) = Cardinality(a \cup b) + Cardinality(c)
      BY <1>3, <1>4, <2>1
    <2> QED
      BY <2>2, <2>3
  <1>6. PackingTypeOK
    BY <1>2, <1>3, <1>5 DEF PackingTypeOK, PackingInv, PackingShape
  <1>7. BudgetIsKept
    <2>1. SUFFICES ASSUME outcome = "building" PROVE spent + budget.reserved <= budget.max
      BY DEF BudgetIsKept
    <2>2. budget.max \in Limits /\ budget.reserved \in Reserves
      BY DEF PackingInv, PackingShape
    <2>3. budget.max \in Nat /\ budget.reserved \in Nat
      BY <2>2, PackingAssumption
    <2>4. spent \in Nat
      <3>1. PICK w, g : TokenSums(w, g)
        BY TokensAreSums DEF PackingInv
      <3>2. items \in SUBSET DOMAIN offered
        BY DEF PackingInv, PackingShape
      <3> QED
        BY <3>1, <3>2 DEF TokenSums, TokensOf, PackingInv
    <2>5. spent <= budget.max - budget.reserved
      BY <2>1 DEF PackingInv, Usable
    <2> QED
      BY <2>3, <2>4, <2>5
  <1> QED
    BY <1>6, <1>7 DEF PackagesAreTight, PackingInv

\* ContextBuilder::build never takes more than the budget leaves beside its reserve, keeps
\* what is required, and leaves out a candidate only for want of room, whatever
\* candidates of whatever sizes it is offered.
THEOREM PackagesStayTight == PackingSpec => []PackagesAreTight
  BY PackingInvInit, PackingInvStep, PackingInvTight, PTL DEF PackingSpec

-----------------------------------------------------------------------------
(* The index of a workspace *)

IndexedFiles == [Paths -> (Contents \ (Unparsed \cup Oversized)) \cup {Absent}]
FilesSeen == UNION {[S -> Contents \cup {Absent}] : S \in SUBSET Paths}
Indexes == [files : IndexedFiles, edges : SUBSET (Paths \X Paths), revision : IndexedFiles]
Polls == [at : {"idle", "reading", "updating", "reindexing"},
          outcome : {"updated", "failed", "restarted", "polling"},
          todo : SUBSET Paths, seen : FilesSeen, affected : SUBSET Paths,
          changed : SUBSET Paths, since : Nat]

\* While the files hold still, what a poll has read, what it has put into the
\* index and what it leaves there are the files on disk.
FollowsDisk(p) ==
  p.since = edits =>
    /\ p.at = "reading" =>
         /\ p.todo \cup DOMAIN p.seen = Present(disk)
         /\ \A q \in DOMAIN p.seen : p.seen[q] = disk[q]
    /\ p.at = "updating" => \A q \in Paths \ p.todo : index.files[q] = disk[q]
    /\ p.at = "reindexing" => index.files = disk
    /\ p.at = "idle" /\ p.outcome = "updated" => index.files = disk

\* Edges and revision are those of the files until an update begins to replace
\* files, and again after one that ends.
IndexInv ==
  /\ disk \in [Paths -> Contents \cup {Absent}] /\ edits \in Nat
  /\ index \in Indexes /\ poll \in Polls /\ abandoned \in BOOLEAN
  /\ snapshot = NoSnapshot \/ snapshot.files \in IndexedFiles
  /\ poll.since <= edits
  /\ poll.at \in {"idle", "reading"} /\ ~abandoned => index = Fresh(index.files)
  /\ FollowsDisk(poll)

\* A poll begins with nothing seen.
LEMMA NothingIsSeen == <<>> \in FilesSeen
  <1>1. {} \in SUBSET Paths /\ <<>> \in [{} -> Contents \cup {Absent}]
    BY DEF FilesSeen
  <1> QED
    BY <1>1 DEF FilesSeen

\* Idle and Fresh have their types.
LEMMA IdleIsPoll ==
  ASSUME NEW o \in {"updated", "failed", "restarted", "polling"}
  PROVE  Idle(o) \in Polls
  <1>1. PICK none \in FilesSeen : none = <<>>
    BY NothingIsSeen
  <1> QED
    BY <1>1 DEF Idle, Polls

LEMMA FreshIsIndex ==
  ASSUME NEW files \in IndexedFiles
  PROVE  Fresh(files) \in Indexes /\ Fresh(files).files = files
  <1>1. BuildEdges(files) \in SUBSET (Paths \X Paths)
    BY DEF BuildEdges, Present
  <1> QED
    BY <1>1 DEF Fresh, RevisionOf, Indexes

\* The next path of a poll is one of those it has to do.
LEMMA LeastPath ==
  ASSUME NEW S \in SUBSET Paths, S # {}
  PROVE  Min(S) \in S
  <1>1. S \in SUBSET Nat
    BY PathsAreNumbers
  <1>2. \E x \in S : \A y \in S : x <= y
    BY <1>1, FirstOfNumbers
  <1> QED
    BY <1>2 DEF Min

LEMMA IndexInvInit == IndexInit => IndexInv
  <1> SUFFICES ASSUME IndexInit PROVE IndexInv
    OBVIOUS
  <1>1. disk \in IndexedFiles /\ disk \in [Paths -> Contents \cup {Absent}]
    BY DEF IndexInit, IndexedFiles
  <1>2. index \in Indexes /\ index = Fresh(index.files) /\ index.files = disk
    BY <1>1, FreshIsIndex DEF IndexInit
  <1>3. poll \in Polls
    BY IdleIsPoll DEF IndexInit
  <1>4. poll.at = "idle" /\ poll.since = 0
    BY DEF IndexInit, Idle
  <1>5. FollowsDisk(poll)
    BY <1>2, <1>4 DEF FollowsDisk
  <1>6. edits \in Nat /\ poll.since <= edits
    BY <1>4 DEF IndexInit
  <1>7. snapshot = NoSnapshot /\ abandoned = FALSE
    BY DEF IndexInit
  <1> QED
    BY <1>1, <1>2, <1>3, <1>5, <1>6, <1>7 DEF IndexInv

\* A file that changes makes every poll in progress one that does not count.
LEMMA EditKeepsIndex ==
  ASSUME IndexInv, NEW p \in Paths, NEW c \in Contents \cup {Absent}, Edit(p, c)
  PROVE  IndexInv'
  <1>1. disk' \in [Paths -> Contents \cup {Absent}] /\ edits' \in Nat
    BY DEF Edit, IndexInv
  <1>2. poll.since # edits' /\ poll.since <= edits'
    BY DEF Edit, IndexInv, Polls
  <1>3. poll' = poll /\ index' = index /\ snapshot' = snapshot /\ abandoned' = abandoned
    BY DEF Edit
  <1> QED
    BY <1>1, <1>2, <1>3 DEF IndexInv, FollowsDisk

\* A poll that ends remembers when it began.
LEMMA FinishedIsPoll ==
  ASSUME IndexInv, NEW o \in {"updated", "failed", "restarted", "polling"}, Finished(o)
  PROVE  poll' \in Polls /\ poll'.at = "idle" /\ poll'.outcome = o /\ poll'.since = poll.since
  <1>1. PICK i \in Polls : i = Idle(o)
    BY IdleIsPoll
  <1>2. i.at = "idle" /\ i.outcome = o
    BY <1>1 DEF Idle
  <1>3. poll.since \in Nat
    BY DEF IndexInv, Polls
  <1>4. poll' = [i EXCEPT !.since = poll.since]
    BY <1>1 DEF Finished
  <1> QED
    BY <1>2, <1>3, <1>4 DEF Polls

\* What a poll has to read are the files there are.
LEMMA ScanKeepsIndex ==
  ASSUME IndexInv, ScanFiles
  PROVE  IndexInv'
  <1>1. PICK i \in Polls : i = Idle("polling")
    BY IdleIsPoll
  <1>2. poll' = [i EXCEPT !.at = "reading", !.todo = Present(disk), !.since = edits]
    BY <1>1 DEF ScanFiles
  <1>3. /\ poll' \in Polls /\ poll'.at = "reading" /\ poll'.todo = Present(disk)
        /\ poll'.seen = i.seen /\ poll'.since = edits
    BY <1>2 DEF Polls, IndexInv, Present
  <1>4. i.seen = <<>> /\ DOMAIN i.seen = {}
    BY <1>1 DEF Idle
  <1> QED
    BY <1>3, <1>4 DEF ScanFiles, IndexInv, FollowsDisk, Present

\* What has been read is as it is on disk.
LEMMA ReadKeepsIndex ==
  ASSUME IndexInv, ReadRevision
  PROVE  IndexInv'
  <1>1. PICK p \in poll.todo : p = Min(poll.todo)
    <2>1. poll.todo \in SUBSET Paths /\ poll.todo # {}
      BY DEF ReadRevision, IndexInv, Polls
    <2> QED
      BY <2>1, LeastPath
  <1>2. p \in Paths /\ poll.at = "reading" /\ UNCHANGED <<disk, edits, index, snapshot, abandoned>>
    BY <1>1 DEF ReadRevision, IndexInv, Polls
  <1>3. CASE Finished("failed")
    <2>1. poll' \in Polls /\ poll'.at = "idle" /\ poll'.outcome = "failed" /\ poll'.since = poll.since
      BY <1>3, FinishedIsPoll
    <2> QED
      BY <1>2, <2>1 DEF IndexInv, FollowsDisk
  <1>4. CASE /\ disk[p] \notin Oversized \cup {Absent}
             /\ poll' = [poll EXCEPT !.todo = @ \ {p},
                           !.seen = [q \in DOMAIN @ \cup {p} |-> IF q = p THEN disk[p] ELSE @[q]]]
    <2> DEFINE seen == [q \in DOMAIN poll.seen \cup {p} |-> IF q = p THEN disk[p] ELSE poll.seen[q]]
    <2>1. poll.seen \in FilesSeen
      BY DEF IndexInv, Polls
    <2>2. seen \in FilesSeen
      <3>1. PICK S \in SUBSET Paths : poll.seen \in [S -> Contents \cup {Absent}]
        BY <2>1 DEF FilesSeen
      <3>2. disk[p] \in Contents \cup {Absent}
        BY <1>2 DEF IndexInv
      <3>3. S \cup {p} \in SUBSET Paths /\ seen \in [S \cup {p} -> Contents \cup {Absent}]
        BY <1>2, <3>1, <3>2
      <3> QED
        BY <3>3 DEF FilesSeen
    <2>3. DOMAIN seen = DOMAIN poll.seen \cup {p}
      OBVIOUS
    <2>4. \A q \in DOMAIN seen : seen[q] = IF q = p THEN disk[p] ELSE poll.seen[q]
      OBVIOUS
    <2>5. PICK s \in FilesSeen : s = seen
      BY <2>2
    <2>6. poll' = [poll EXCEPT !.todo = @ \ {p}, !.seen = s]
      BY <1>4, <2>5
    <2>7. poll \in Polls
      BY DEF IndexInv
    <2>8. /\ poll' \in Polls /\ poll'.at = "reading" /\ poll'.since = poll.since
          /\ poll'.todo = poll.todo \ {p} /\ poll'.seen = s
      BY <1>2, <2>6, <2>7 DEF Polls
    <2>9. p \in Present(disk)
      BY <1>2, <1>4 DEF Present
    <2> HIDE DEF seen
    <2> QED
      BY <1>1, <1>2, <2>3, <2>4, <2>5, <2>8, <2>9 DEF IndexInv, FollowsDisk
  <1> QED
    BY <1>1, <1>3, <1>4 DEF ReadRevision

\* What a poll finds unchanged is as it is on disk, though it reads no file twice.
LEMMA ChangedIsTrue ==
  ASSUME IndexInv, poll.at = "reading", poll.todo = {}
  PROVE  /\ Changed \in SUBSET Paths
         /\ poll.since = edits => \A p \in Paths \ Changed : index.files[p] = disk[p]
  <1>1. PICK S \in SUBSET Paths : poll.seen \in [S -> Contents \cup {Absent}]
    BY DEF IndexInv, Polls, FilesSeen
  <1>2. DOMAIN poll.seen = S
    BY <1>1
  <1>3. Changed \in SUBSET Paths
    BY <1>1, <1>2 DEF Changed, Present
  <1>4. ASSUME poll.since = edits, NEW p \in Paths, p \notin Changed
        PROVE  index.files[p] = disk[p]
    <2>1. S = Present(disk) /\ \A q \in S : poll.seen[q] = disk[q]
      BY <1>2, <1>4 DEF IndexInv, FollowsDisk
    <2>2. CASE p \in S
      BY <1>2, <1>4, <2>1, <2>2 DEF Changed
    <2>3. CASE p \notin S
      <3>1. disk[p] = Absent
        BY <2>1, <2>3 DEF Present
      <3>2. p \notin Present(index.files)
        BY <1>2, <1>4, <2>3 DEF Changed
      <3> QED
        BY <3>1, <3>2 DEF Present
    <2> QED
      BY <2>2, <2>3
  <1> QED
    BY <1>3, <1>4

\* A poll that found changes begins to replace them; one that found none ends.
LEMMA DetectedKeepsIndex ==
  ASSUME IndexInv, Detected
  PROVE  IndexInv'
  <1>1. /\ poll.at = "reading" /\ UNCHANGED <<disk, edits, index, snapshot, abandoned>>
        /\ index.files \in IndexedFiles /\ disk \in [Paths -> Contents \cup {Absent}]
    BY DEF Detected, IndexInv, Indexes
  <1>2. /\ Changed \in SUBSET Paths
        /\ poll.since = edits => \A p \in Paths \ Changed : index.files[p] = disk[p]
    BY ChangedIsTrue DEF Detected
  <1>3. CASE Changed = {} /\ Finished("updated")
    <2>1. poll' \in Polls /\ poll'.at = "idle" /\ poll'.since = poll.since
      BY <1>3, FinishedIsPoll
    <2>2. poll.since = edits => index.files = disk
      BY <1>1, <1>2, <1>3 DEF IndexedFiles
    <2> QED
      BY <1>1, <2>1, <2>2 DEF IndexInv, FollowsDisk
  <1>4. CASE poll' = [poll EXCEPT !.at = "updating", !.changed = Changed, !.todo = Changed,
                        !.affected = ReverseDependents(index.edges, Changed)]
    <2>1. PICK c \in SUBSET Paths : c = Changed
      BY <1>2
    <2>2. PICK a \in SUBSET Paths : a = ReverseDependents(index.edges, Changed)
      BY DEF ReverseDependents
    <2>3. poll' = [poll EXCEPT !.at = "updating", !.changed = c, !.todo = c, !.affected = a]
      BY <1>4, <2>1, <2>2
    <2>4. /\ poll' \in Polls /\ poll'.at = "updating" /\ poll'.since = poll.since
          /\ poll'.todo = Changed
      BY <2>1, <2>3 DEF IndexInv, Polls
    <2> QED
      BY <1>1, <1>2, <2>4 DEF IndexInv, FollowsDisk
  <1> QED
    BY <1>3, <1>4 DEF Detected

\* A file put into the index is as it is on disk; the others stay.
LEMMA FileIsPut ==
  ASSUME IndexInv, NEW p \in Paths,
         disk[p] \notin Unparsed \cup Oversized \/ disk[p] = Absent,
         index' = [index EXCEPT !.files[p] = disk[p]]
  PROVE  /\ index' \in Indexes
         /\ \A q \in Paths : index'.files[q] = IF q = p THEN disk[p] ELSE index.files[q]
  <1>1. disk[p] \in (Contents \ (Unparsed \cup Oversized)) \cup {Absent}
    BY DEF IndexInv
  <1>2. PICK i \in Indexes : i = index
    BY DEF IndexInv
  <1>3. i.files \in IndexedFiles
    BY DEF Indexes
  <1>4. PICK files \in IndexedFiles : files = [i.files EXCEPT ![p] = disk[p]]
    BY <1>1, <1>3 DEF IndexedFiles
  <1>5. index' = [i EXCEPT !.files = files]
    BY <1>2, <1>4
  <1>6. index' \in Indexes /\ index'.files = files
    BY <1>5 DEF Indexes
  <1>7. \A q \in Paths : files[q] = IF q = p THEN disk[p] ELSE i.files[q]
    BY <1>3, <1>4 DEF IndexedFiles
  <1> QED
    BY <1>2, <1>6, <1>7

\* An update stops at a file that fails, or has replaced one more.
LEMMA UpdateKeepsIndex ==
  ASSUME IndexInv, UpdateFile
  PROVE  IndexInv'
  <1>1. PICK p \in poll.todo : p = Min(poll.todo)
    <2>1. poll.todo \in SUBSET Paths /\ poll.todo # {}
      BY DEF UpdateFile, IndexInv, Polls
    <2> QED
      BY <2>1, LeastPath
  <1>2. p \in Paths /\ poll.at = "updating" /\ UNCHANGED <<disk, edits, snapshot>>
    BY <1>1 DEF UpdateFile, IndexInv, Polls
  <1>3. CASE Finished("failed") /\ abandoned' = TRUE /\ index' = index
    <2>1. poll' \in Polls /\ poll'.at = "idle" /\ poll'.outcome = "failed" /\ poll'.since = poll.since
      BY <1>3, FinishedIsPoll
    <2> QED
      BY <1>2, <1>3, <2>1 DEF IndexInv, FollowsDisk
  <1>4. CASE /\ disk[p] \notin Unparsed \cup Oversized \/ disk[p] = Absent
             /\ index' = [index EXCEPT !.files[p] = disk[p]]
             /\ poll' = [poll EXCEPT !.todo = @ \ {p}]
             /\ abandoned' = abandoned
    <2>1. /\ index' \in Indexes
          /\ \A q \in Paths : index'.files[q] = IF q = p THEN disk[p] ELSE index.files[q]
      BY <1>2, <1>4, FileIsPut
    <2>2. /\ poll' \in Polls /\ poll'.at = "updating" /\ poll'.since = poll.since
          /\ poll'.todo = poll.todo \ {p}
      BY <1>2, <1>4 DEF IndexInv, Polls
    <2> QED
      BY <1>2, <1>4, <2>1, <2>2 DEF IndexInv, FollowsDisk
  <1> QED
    BY <1>1, <1>3, <1>4 DEF UpdateFile, IndexFile

\* With every changed file replaced, the index has the files on disk.
LEMMA RebuildKeepsIndex ==
  ASSUME IndexInv, RebuildEdges
  PROVE  IndexInv'
  <1>1. /\ poll.at = "updating" /\ poll.todo = {}
        /\ UNCHANGED <<disk, edits, snapshot, abandoned>>
        /\ index.files \in IndexedFiles /\ disk \in [Paths -> Contents \cup {Absent}]
    BY DEF RebuildEdges, IndexInv, Indexes
  <1>2. PICK edges \in SUBSET (Paths \X Paths) : edges = BuildEdges(index.files)
    BY DEF BuildEdges, Present
  <1>3. PICK todo \in SUBSET Paths :
          todo = ((poll.affected \cup ReverseDependents(edges, poll.changed)) \ poll.changed)
                 \cap Present(index.files)
    BY DEF Present
  <1>4. index' = [index EXCEPT !.edges = edges]
    BY <1>2 DEF RebuildEdges
  <1>5. poll' = [poll EXCEPT !.at = "reindexing", !.todo = todo]
    BY <1>2, <1>3 DEF RebuildEdges
  <1>6. index' \in Indexes /\ index'.files = index.files
    BY <1>4 DEF IndexInv, Indexes
  <1>7. poll' \in Polls /\ poll'.at = "reindexing" /\ poll'.since = poll.since
    BY <1>5 DEF IndexInv, Polls
  <1>8. poll.since = edits => index.files = disk
    <2>1. poll.since = edits => \A q \in Paths : index.files[q] = disk[q]
      BY <1>1 DEF IndexInv, FollowsDisk
    <2> QED
      BY <1>1, <2>1 DEF IndexedFiles
  <1> QED
    BY <1>1, <1>6, <1>7, <1>8 DEF IndexInv, FollowsDisk

\* A dependent read again is what it was, unless it was edited.
LEMMA ReindexKeepsIndex ==
  ASSUME IndexInv, ReindexDependent
  PROVE  IndexInv'
  <1>1. PICK p \in poll.todo : p = Min(poll.todo)
    <2>1. poll.todo \in SUBSET Paths /\ poll.todo # {}
      BY DEF ReindexDependent, IndexInv, Polls
    <2> QED
      BY <2>1, LeastPath
  <1>2. /\ p \in Paths /\ poll.at = "reindexing" /\ UNCHANGED <<disk, edits, snapshot>>
        /\ index.files \in IndexedFiles /\ disk \in [Paths -> Contents \cup {Absent}]
    BY <1>1 DEF ReindexDependent, IndexInv, Polls, Indexes
  <1>3. CASE Finished("failed") /\ abandoned' = TRUE /\ index' = index
    <2>1. poll' \in Polls /\ poll'.at = "idle" /\ poll'.outcome = "failed" /\ poll'.since = poll.since
      BY <1>3, FinishedIsPoll
    <2> QED
      BY <1>2, <1>3, <2>1 DEF IndexInv, FollowsDisk
  <1>4. CASE poll' = [poll EXCEPT !.todo = @ \ {p}] /\ abandoned' = abandoned
    <2>1. poll' \in Polls /\ poll'.at = "reindexing" /\ poll'.since = poll.since
      BY <1>2, <1>4 DEF IndexInv, Polls
    <2>2. CASE index' = index
      BY <1>2, <1>4, <2>1, <2>2 DEF IndexInv, FollowsDisk
    <2>3. CASE /\ disk[p] \notin Unparsed \cup Oversized
               /\ index' = [index EXCEPT !.files[p] = disk[p]]
      <3>1. /\ index' \in Indexes
            /\ \A q \in Paths : index'.files[q] = IF q = p THEN disk[p] ELSE index.files[q]
        BY <1>2, <2>3, FileIsPut
      <3>2. index.files = disk => index'.files = disk
        BY <1>2, <3>1 DEF Indexes, IndexedFiles
      <3> QED
        BY <1>2, <1>4, <2>1, <3>1, <3>2 DEF IndexInv, FollowsDisk
    <2> QED
      BY <1>1, <1>2, <2>2, <2>3, <1>3, <1>4 DEF ReindexDependent, IndexFile
  <1> QED
    BY <1>1, <1>3, <1>4 DEF ReindexDependent, IndexFile

\* An update that ends leaves edges and revision of the files it has.
LEMMA FinishKeepsIndex ==
  ASSUME IndexInv, FinishUpdate
  PROVE  IndexInv'
  <1>1. PICK files \in IndexedFiles : files = index.files
    BY DEF IndexInv, Indexes
  <1>2. poll.at = "reindexing" /\ UNCHANGED <<disk, edits, snapshot>> /\ abandoned' = FALSE
    BY DEF FinishUpdate
  <1>3. index' = Fresh(files)
    BY <1>1 DEF FinishUpdate, Fresh, IndexInv, Indexes
  <1>4. index' \in Indexes /\ index'.files = files
    BY <1>3, FreshIsIndex
  <1>5. /\ poll' \in Polls /\ poll'.at = "idle" /\ poll'.outcome = "updated"
        /\ poll'.since = poll.since
    BY FinishedIsPoll DEF FinishUpdate
  <1> QED
    BY <1>1, <1>2, <1>3, <1>4, <1>5 DEF IndexInv, FollowsDisk

\* What is loaded or built anew is of one piece.
LEMMA RestartKeepsIndex ==
  ASSUME IndexInv, RestartIndexer
  PROVE  IndexInv'
  <1>1. PICK files \in IndexedFiles : index' = Fresh(files)
    <2>1. CASE Accepted
      BY <2>1 DEF RestartIndexer, Accepted, Loaded, IndexInv
    <2>2. CASE ~Accepted
      <3>1. \A p \in Present(disk) : disk[p] \notin Unparsed \cup Oversized
        BY <2>2 DEF RestartIndexer
      <3>2. disk \in IndexedFiles
        BY <3>1 DEF IndexInv, IndexedFiles, Present
      <3> QED
        BY <2>2, <3>2 DEF RestartIndexer
    <2> QED
      BY <2>1, <2>2
  <1>2. index' \in Indexes /\ index'.files = files
    BY <1>1, FreshIsIndex
  <1>3. poll' \in Polls
    BY IdleIsPoll DEF RestartIndexer
  <1>4. poll'.at = "idle" /\ poll'.outcome = "restarted" /\ poll'.since = 0
    BY DEF RestartIndexer, Idle
  <1>5. abandoned' = FALSE /\ UNCHANGED <<disk, edits, snapshot>>
    BY DEF RestartIndexer
  <1>6. FollowsDisk(poll)'
    BY <1>4 DEF FollowsDisk
  <1>7. poll'.since <= edits'
    BY <1>4, <1>5 DEF IndexInv
  <1> QED
    BY <1>1, <1>2, <1>3, <1>5, <1>6, <1>7 DEF IndexInv

\* A snapshot is what was indexed.
LEMMA SaveKeepsIndex ==
  ASSUME IndexInv, SaveSnapshot
  PROVE  IndexInv'
  <1>1. snapshot'.files \in IndexedFiles
    BY DEF SaveSnapshot, IndexInv, Indexes
  <1> QED
    BY <1>1 DEF SaveSnapshot, IndexInv, FollowsDisk

LEMMA IndexInvStep == IndexInv /\ [IndexNext]_indexVars => IndexInv'
  <1> SUFFICES ASSUME IndexInv, [IndexNext]_indexVars PROVE IndexInv'
    OBVIOUS
  <1>1. ASSUME NEW p \in Paths, NEW c \in Contents \cup {Absent}, Edit(p, c)
        PROVE  IndexInv'
    BY <1>1, EditKeepsIndex
  <1>2. CASE PollNext
    BY <1>2, ScanKeepsIndex, ReadKeepsIndex, DetectedKeepsIndex, UpdateKeepsIndex,
       RebuildKeepsIndex, ReindexKeepsIndex, FinishKeepsIndex DEF PollNext
  <1>3. CASE SaveSnapshot
    BY <1>3, SaveKeepsIndex
  <1>4. CASE RestartIndexer
    BY <1>4, RestartKeepsIndex
  <1>5. CASE UNCHANGED indexVars
    BY <1>5 DEF indexVars, IndexInv, FollowsDisk
  <1> QED
    BY <1>1, <1>2, <1>3, <1>4, <1>5 DEF IndexNext

LEMMA IndexInvTells == IndexInv => IndexTellsTheTruth
  <1> SUFFICES ASSUME IndexInv PROVE IndexTellsTheTruth
    OBVIOUS
  <1>1. IndexTypeOK
    BY DEF IndexTypeOK, IndexInv, Indexes, IndexedFiles, Polls
  <1>2. RevisionIsDerived
    BY DEF RevisionIsDerived, IndexInv
  <1>3. PolledIsRebuilt
    BY DEF PolledIsRebuilt, IndexInv, FollowsDisk
  <1> QED
    BY <1>1, <1>2, <1>3 DEF IndexTellsTheTruth

\* Whatever files there are and whoever edits them while a poll runs, between polls
\* edges and revision are those of the files indexed, unless the last update left
\* half way, and a poll that succeeds with no edit in between has indexed the files
\* on disk.
THEOREM IndexAlwaysTellsTheTruth == IndexSpec => []IndexTellsTheTruth
  BY IndexInvInit, IndexInvStep, IndexInvTells, PTL DEF IndexSpec

-----------------------------------------------------------------------------
(* Both together *)

\* What an agent is given as context keeps its budget, and tells of the files as
\* they are: packing and index share no state.
THEOREM ContextStaysTrue == ContextSpec => []ContextIsTrue
  BY PackagesStayTight, IndexAlwaysTellsTheTruth, PTL DEF ContextSpec, ContextIsTrue
=============================================================================
