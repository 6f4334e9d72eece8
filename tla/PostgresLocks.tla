---------------------------- MODULE PostgresLocks ----------------------------
(***************************************************************************)
(* The leases and task claims of service mode: the operations of           *)
(* crates/sessionweft-service-postgres, called by several Runtimes at once.*)
(* A lock operation reads its Runtime's clock, waits for a connection and  *)
(* for row locks, and then runs one transaction, so its reading may be     *)
(* late; no mutex is held since, as it is for SQLite.  An acquisition locks*)
(* the workspace's guard row, a heartbeat and a release only the lease.    *)
(* The module's leases are those of one workspace.                         *)
(***************************************************************************)
EXTENDS Naturals, Sequences, FiniteSets

CONSTANTS
  Holders,      \* owner ids
  Places,       \* lock resources, as their segments()
  LongestTtl,   \* largest ttl_seconds, and ttl of a task claim
  EndOfTime,    \* bound on the clock
  TokenBound,   \* bound on next_fencing_token
  MaxDelay,     \* bound: how late a reading of the clock may be
  Tasks,        \* task ids
  ClaimBound    \* bound on claim tokens

ASSUME DelayAssumption == MaxDelay \in Nat /\ LongestTtl \in Nat \ {0}
ASSUME PlacesAssumption == Places \subseteq Seq(STRING)

VARIABLES
  rows,        \* sessionweft_locks; expired leases stay
  issued,      \* next_fencing_token - 1
  clock,
  answered,    \* the leases acquire_lock has returned
  overlooked,  \* auxiliary: tokens whose lease an acquisition found expired
  acquiredAt,  \* auxiliary: the latest reading of an acquisition
  revived,     \* auxiliary: overlooked tokens that a heartbeat renewed
  touchedAt,   \* auxiliary: when a lease was last touched that is not overlooked
  taskRows,    \* sessionweft_task_claims
  taskClaims,  \* what claim_task has returned and nobody has released
  claimTokens  \* how many claim tokens there were

auxiliaryVars == <<overlooked, acquiredAt, revived, touchedAt>>
leaseVars == <<rows, issued, answered, auxiliaryVars>>
taskVars == <<taskRows, taskClaims, claimTokens>>
pgVars == <<leaseVars, clock, taskVars>>

(***************************************************************************)
(* The contract of the repository, as SQLite meets it: there acquire_lock  *)
(* deletes expired leases, here it overlooks them.                         *)
(***************************************************************************)
Contract == INSTANCE LockLease WITH
  Owners <- Holders, Resources <- Places, MaxTtl <- LongestTtl,
  Horizon <- EndOfTime, MaxToken <- TokenBound,
  leases <- {l \in rows : l.token \notin overlooked}, sequence <- issued,
  now <- clock, freed <- touchedAt, granted <- answered

PgReadings == {t \in 0 .. clock : t + MaxDelay >= clock}

-----------------------------------------------------------------------------
(* Leases.                                                                 *)

\* Fault: leases are looked up by their own resource.
ConflictingSameResource(q, t) ==
  {l \in rows : l.expires > t /\ l.resource = q.resource /\ Contract!ConflictsWith(l, q)}

Conflicting(q, t) == {l \in rows : l.expires > t /\ Contract!ConflictsWith(l, q)}

AcquireLease(q, ttl, t) ==
  /\ issued < TokenBound
  /\ Conflicting(q, t) = {}
  /\ rows' = rows \cup {Contract!LeaseOf(Contract!NewGrant(q), t + ttl)}
  /\ answered' = answered \cup {Contract!NewGrant(q)}
  /\ issued' = issued + 1
  /\ overlooked' = overlooked \cup {l.token : l \in {k \in rows : k.expires <= t}}
  /\ acquiredAt' = IF t > acquiredAt THEN t ELSE acquiredAt
  /\ touchedAt' = clock
  /\ UNCHANGED <<clock, revived, taskVars>>

HeartbeatLease(g, ttl, t) ==
  \E l \in rows :
    /\ l.owner = g.owner /\ l.token = g.token /\ l.expires > t
    /\ rows' = (rows \ {l}) \cup {[l EXCEPT !.expires = t + ttl]}
    /\ overlooked' = overlooked \ {l.token}
    /\ revived' = revived \cup (overlooked \cap {l.token})
    /\ touchedAt' = clock
    /\ UNCHANGED <<issued, clock, answered, acquiredAt, taskVars>>

\* The lease's expiry does not matter, and no clock is read.
ReleaseLease(g) ==
  \E l \in rows :
    /\ l.owner = g.owner /\ l.token = g.token
    /\ rows' = rows \ {l}
    /\ touchedAt' = IF l.token \in overlooked THEN touchedAt ELSE clock
    /\ UNCHANGED <<issued, clock, answered, overlooked, acquiredAt, revived, taskVars>>

\* validate_fence compares the resource, where SQLite looks for an overlap.
FenceHolds(r, o, k, t) ==
  \E l \in rows : l.owner = o /\ l.token = k /\ l.expires > t /\ l.resource = r

-----------------------------------------------------------------------------
(* Task claims: one statement each, over the database's own clock; only    *)
(* the expiry comes from the Runtime's.                                    *)

ClaimTask(task, o, t) ==
  /\ claimTokens < ClaimBound
  /\ \A c \in taskRows : c.task = task => c.expires < clock
  /\ LET claim == [task |-> task, owner |-> o, token |-> claimTokens + 1,
                   expires |-> t + LongestTtl]
     IN  /\ taskRows' = {c \in taskRows : c.task # task} \cup {claim}
         /\ taskClaims' = taskClaims \cup {claim}
  /\ claimTokens' = claimTokens + 1
  /\ UNCHANGED <<leaseVars, clock>>

\* Fault: the claim is found by its task and owner alone.
SameOwner(c, claim) == c.task = claim.task /\ c.owner = claim.owner

SameClaim(c, claim) ==
  c.task = claim.task /\ c.owner = claim.owner /\ c.token = claim.token

ReleaseTaskClaim(claim) ==
  /\ taskRows' = {c \in taskRows : ~SameClaim(c, claim)}
  /\ taskClaims' = taskClaims \ {claim}
  /\ UNCHANGED <<leaseVars, clock, claimTokens>>

ClockTicks ==
  /\ clock < EndOfTime
  /\ clock' = clock + 1
  /\ UNCHANGED <<leaseVars, taskVars>>

-----------------------------------------------------------------------------
PgInit ==
  /\ rows = {} /\ issued = 0 /\ clock = 0 /\ answered = {}
  /\ overlooked = {} /\ acquiredAt = 0 /\ revived = {} /\ touchedAt = 0
  /\ taskRows = {} /\ taskClaims = {} /\ claimTokens = 0

PgNext ==
  \/ \E t \in PgReadings, ttl \in 1 .. LongestTtl :
       \/ \E q \in Contract!Requests : AcquireLease(q, ttl, t)
       \/ \E g \in answered : HeartbeatLease(g, ttl, t)
  \/ \E g \in answered : ReleaseLease(g)
  \/ \E t \in PgReadings, task \in Tasks, o \in Holders : ClaimTask(task, o, t)
  \/ \E claim \in taskClaims : ReleaseTaskClaim(claim)
  \/ ClockTicks

PgSpec == PgInit /\ [][PgNext]_pgVars

-----------------------------------------------------------------------------
PgTypeOK ==
  /\ rows \subseteq Contract!Leases /\ answered \subseteq Contract!Grants
  /\ issued \in 0 .. TokenBound /\ {acquiredAt, touchedAt} \subseteq 0 .. clock
  /\ taskRows \subseteq [task : Tasks, owner : Holders, token : Nat, expires : Nat]
  /\ taskClaims \subseteq [task : Tasks, owner : Holders, token : Nat, expires : Nat]

\* What SQLite never does: the lease is written back.  The heartbeat read its
\* clock before an acquisition that came first and overlooked the lease.
RevivesOverlooked ==
  \E g \in answered, ttl \in 1 .. LongestTtl, t \in 0 .. clock :
    /\ g.token \in overlooked /\ t < acquiredAt
    /\ Contract!HeartbeatReviving(g, ttl, t)

\* Two leases that are live together and conflict: one of them was revived.
ConflictsAreRevivals ==
  \A l, k \in rows :
    l.expires > clock /\ k.expires > clock /\ l.token # k.token /\ Contract!ConflictsWith(l, k) =>
      l.token \in revived \/ k.token \in revived

\* What validates here validates in SQLite, which also accepts a part of r.
FencesAreOfTheContract ==
  \A l \in rows, r \in Places :
    FenceHolds(r, l.owner, l.token, clock) => Contract!ValidFence(r, l.owner, l.token, clock)

(* "The PostgreSQL adapter must use database transaction locking and       *)
(* preserve the same repository contract": a guard row and overlooked rows *)
(* do as one mutex and deleted rows do, however late clocks are read, but  *)
(* for one thing: a heartbeat late behind an acquisition may revive a lease*)
(* the acquisition overlooked.  Only such leases ever conflict.            *)
PostgresKeepsContract ==
  /\ Contract!Init
  /\ [][Contract!LateNext \/ RevivesOverlooked]_(Contract!vars)
  /\ [](ConflictsAreRevivals /\ FencesAreOfTheContract)

(* A Runtime that holds an unexpired claim is the only one: its claim is   *)
(* the task's row, whoever claims, expires and releases late.              *)
TasksHaveOneHolder ==
  /\ \A c \in taskClaims : c.expires > clock => c \in taskRows
  /\ \A c, d \in taskRows : c.task = d.task => c = d

(* "Release blocker: ... two Runtime instances own one exclusive resource":*)
(* what a late heartbeat makes false.                                      *)
LiveLeasesAreCompatible ==
  \A l, k \in rows :
    l.expires > clock /\ k.expires > clock /\ l.token # k.token =>
      ~Contract!ConflictsWith(l, k)
=============================================================================
