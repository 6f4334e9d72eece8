------------------------------ MODULE LockLease -----------------------------
(***************************************************************************)
(* Lock leases with fencing tokens: acquire_lock, heartbeat_lock and       *)
(* release_lock of crates/sessionweft-orchestration-sqlite over the tables *)
(* lock_leases and lock_sequence, and the two checks made against them.    *)
(*                                                                         *)
(* The three operations hold lock_guard, read the clock, and then run one  *)
(* transaction; the clock may have moved on when it commits.  Release      *)
(* reads no clock.  A lock id and a fencing token are both new for every   *)
(* lease, so a lease is identified by its token.  Sessions are abstracted: *)
(* an owner id stands for an owner and its session.                        *)
(***************************************************************************)
EXTENDS Integers, Sequences

CONSTANTS Owners,     \* owner ids of lock requests
          Resources,  \* lock resources, as their segments()
          MaxTtl,     \* largest ttl_seconds
          Horizon,    \* bound on the clock
          MaxToken    \* bound on lock_sequence

Modes == {"shared", "exclusive"}

ASSUME LeaseAssumption == /\ Resources \subseteq Seq(STRING)
                          /\ MaxTtl \in Nat \ {0}
                          /\ Horizon \in Nat
                          /\ MaxToken \in Nat

VARIABLES leases,    \* rows of lock_leases
          sequence,  \* lock_sequence
          now,       \* the clock
          freed,     \* when lock_guard was last released
          granted    \* what acquire_lock has returned, but for the expiry, which
                     \* no operation reads from a client

vars == <<leases, sequence, now, freed, granted>>

-----------------------------------------------------------------------------
(* Resources and modes *)

IsPrefixOf(l, r) == Len(l) <= Len(r) /\ \A i \in 1 .. Len(l) : l[i] = r[i]

Overlaps(r, s) == IsPrefixOf(r, s) \/ IsPrefixOf(s, r)

ModesConflict(m, k) == m = "exclusive" \/ k = "exclusive"

Requests == [owner : Owners, resource : Resources, mode : Modes]

Grants == [owner : Owners, resource : Resources, mode : Modes, token : Nat \ {0}]

Leases == [owner : Owners, resource : Resources, mode : Modes,
           token : Nat \ {0}, expires : Nat]

Live(l, t) == l.expires > t

ConflictsWith(l, q) == Overlaps(l.resource, q.resource) /\ ModesConflict(l.mode, q.mode)

-----------------------------------------------------------------------------
(* The repository *)

TypeOK == /\ leases \subseteq Leases
          /\ granted \subseteq Grants
          /\ sequence \in Nat
          /\ now \in Nat
          /\ freed \in Nat /\ freed <= now

Init == /\ leases = {}
        /\ sequence = 0
        /\ now = 0
        /\ freed = 0
        /\ granted = {}

Unexpired(t) == {l \in leases : Live(l, t)}

\* Readings of the clock by an operation that holds lock_guard since freed.
Readings == freed .. now

NewGrant(q) == [owner    |-> q.owner,
                resource |-> q.resource,
                mode     |-> q.mode,
                token    |-> sequence + 1]

LeaseOf(g, expires) == [owner    |-> g.owner,
                        resource |-> g.resource,
                        mode     |-> g.mode,
                        token    |-> g.token,
                        expires  |-> expires]

\* The end of acquire_lock: the row beside the others, and the answer.
Insert(q, others, expires) ==
    /\ sequence < MaxToken
    /\ leases' = others \cup {LeaseOf(NewGrant(q), expires)}
    /\ granted' = granted \cup {NewGrant(q)}
    /\ sequence' = sequence + 1
    /\ freed' = now
    /\ UNCHANGED now

\* Fault: an owner's own leases give way to its new one.
AcquireTakingOver(q, ttl, t) ==
    LET own == {l \in Unexpired(t) : l.owner = q.owner /\ ConflictsWith(l, q)}
    IN  /\ \A l \in Unexpired(t) \ own : ~ConflictsWith(l, q)
        /\ Insert(q, Unexpired(t) \ own, t + ttl)

\* Expired rows of every workspace go, then any conflict is an error, which
\* rolls the deletion back.
AcquireLock(q, ttl, t) ==
    /\ \A l \in Unexpired(t) : ~ConflictsWith(l, q)
    /\ Insert(q, Unexpired(t), t + ttl)

\* Fault: the row is written back even if it is gone.
HeartbeatReviving(g, ttl, t) ==
    /\ leases' = {l \in leases : l.token # g.token} \cup {LeaseOf(g, t + ttl)}
    /\ freed' = now
    /\ UNCHANGED <<sequence, now, granted>>

\* The owner presents lock id and token, from lease g it was granted.
HeartbeatLock(g, ttl, t) ==
    \E l \in Unexpired(t) :
        /\ l.owner = g.owner /\ l.token = g.token
        /\ leases' = (leases \ {l}) \cup {[l EXCEPT !.expires = t + ttl]}
        /\ freed' = now
        /\ UNCHANGED <<sequence, now, granted>>

\* An expired lease can still be released, as long as its row is there.
ReleaseLock(g) ==
    \E l \in leases :
        /\ l.owner = g.owner /\ l.token = g.token
        /\ leases' = leases \ {l}
        /\ freed' = now
        /\ UNCHANGED <<sequence, now, granted>>

Tick == /\ now < Horizon
        /\ now' = now + 1
        /\ UNCHANGED <<leases, sequence, freed, granted>>

Next == \/ \E ttl \in 1 .. MaxTtl, t \in Readings :
               \/ \E q \in Requests : AcquireLock(q, ttl, t)
               \/ \E g \in granted : HeartbeatLock(g, ttl, t)
        \/ \E g \in granted : ReleaseLock(g)
        \/ Tick

Spec == Init /\ [][Next]_vars

\* The same operations without the mutex: any reading may be late.
LateNext == \/ \E ttl \in 1 .. MaxTtl, t \in 0 .. now :
                   \/ \E q \in Requests : AcquireLock(q, ttl, t)
                   \/ \E g \in granted : HeartbeatLock(g, ttl, t)
            \/ \E g \in granted : ReleaseLock(g)
            \/ Tick

-----------------------------------------------------------------------------
(* The checks *)

\* validate_fence(resource, owner, token, now)
ValidFence(r, o, k, t) ==
    \E l \in Unexpired(t) : /\ l.owner = o /\ l.token = k
                            /\ Overlaps(l.resource, r)

ModeSuffices(held, required) == required = "shared" \/ held = "exclusive"

\* lock_fence_for: the leases of o that meet a requirement.
FencesFor(o, r, m, t) == {l \in Unexpired(t) : /\ l.owner = o
                                               /\ ModeSuffices(l.mode, m)
                                               /\ Overlaps(l.resource, r)}

-----------------------------------------------------------------------------
(* Properties *)

(***************************************************************************)
(* Mutual exclusion over the hierarchy: two rows never conflict, though    *)
(* parents and children lock each other out and any clock reading under    *)
(* the guard may be late.                                                  *)
(***************************************************************************)
NoConflictingLeases ==
    \A l, k \in leases : l.token # k.token => ~ConflictsWith(l, k)

(***************************************************************************)
(* Fencing: once a conflicting lease has been granted after it, a lease is *)
(* gone for good.  No clock reading, late heartbeat or release brings its  *)
(* token back.                                                             *)
(***************************************************************************)
OvertakenIsFenced ==
    \A g, h \in granted : g.token < h.token /\ ConflictsWith(g, h) =>
        \A l \in leases : l.token # g.token

(***************************************************************************)
(* A token names one lease: its row has the owner, resource and mode that  *)
(* were granted with it, whatever heartbeats did since.                    *)
(***************************************************************************)
TokensIdentifyLeases ==
    \A l \in leases, g \in granted : l.token = g.token =>
        l.owner = g.owner /\ l.resource = g.resource /\ l.mode = g.mode

\* A live row leaves the table only by a release with its token.
HonoursLive ==
    \A l \in leases : Live(l, now) /\ (\A k \in leases' : k.token # l.token) =>
        \E g \in granted : g.token = l.token /\ ReleaseLock(g)

(***************************************************************************)
(* A lease is honoured until the time it was granted or renewed to: before *)
(* that it leaves the table only when its own holder releases it.          *)
(***************************************************************************)
LiveLeasesAreHonoured == [][HonoursLive]_vars

(***************************************************************************)
(* Authority over a resource the lease covers is exclusive: while owner o  *)
(* validates the token of an exclusive lease on r or on a parent of r, no  *)
(* other token validates for r.                                            *)
(***************************************************************************)
CoveringFenceIsExclusive ==
    \A l \in Unexpired(now), r \in Resources :
        l.mode = "exclusive" /\ IsPrefixOf(l.resource, r) =>
            \A k \in leases : k.token # l.token => ~ValidFence(r, k.owner, k.token, now)

(***************************************************************************)
(* "Protected writes must validate owner, resource coverage, token and     *)
(* expiry": a fence that validates for r under an exclusive lease leaves   *)
(* another owner no lease through which r, or a part of it, is written.    *)
(***************************************************************************)
FenceCoversResource ==
    \A l \in Unexpired(now), r \in Resources :
        l.mode = "exclusive" /\ ValidFence(r, l.owner, l.token, now) =>
            \A k \in Unexpired(now) : k.owner # l.owner => ~Overlaps(k.resource, r)

(***************************************************************************)
(* Leases exclude each other, and the token of a lease that was overtaken  *)
(* is worth nothing ever after, whoever presents it for whatever resource. *)
(***************************************************************************)
LeasesAreExclusive ==
    /\ TypeOK
    /\ NoConflictingLeases /\ OvertakenIsFenced
    /\ TokensIdentifyLeases /\ CoveringFenceIsExclusive
=============================================================================
