------------------------------- MODULE Tenancy -------------------------------
(***************************************************************************)
(* A tenant of the SaaS service: its bootstrap, its quota of sessions and  *)
(* the requests that create them.  Every step is one transaction of the    *)
(* tenant repository or one call of the tenant's runtime; reserve_quota is *)
(* taken apart further, because it reads and locks its rows one by one at  *)
(* PostgreSQL's READ COMMITTED.  Requests run concurrently, may share an   *)
(* idempotency key and are sent again by clients that saw them fail.       *)
(***************************************************************************)
EXTENDS Naturals, FiniteSets, FiniteSetsExt

CONSTANTS
  SessionRequests, \* requests to create a session
  Keys,          \* idempotency keys
  KeyOf,         \* [SessionRequests -> Keys]
  DefaultLimit,  \* hard limit of a new tenant
  QuotaLimits,   \* hard limits administrators set
  MaxChanges,    \* bound: changes of the limit
  MaxSends,      \* bound: how often a request is sent
  MaxCrashes     \* bound: failures of the service and of its database

NoOne == "no one"

ASSUME TenancyAssumption ==
  /\ KeyOf \in [SessionRequests -> Keys] /\ NoOne \notin SessionRequests
  /\ DefaultLimit \in Nat /\ QuotaLimits \subseteq Nat

VARIABLES
  tenant,        \* how far the bootstrap came
  limit,         \* the row of tenant_quotas, once it is set
  used,          \* the row of tenant_usage
  lock,          \* the request that has locked the quota's row, or NoOne
  reservations,  \* quota_reservations: [Keys -> a reservation, or NoReservation]
  request,       \* [SessionRequests -> where the handler is, what it read, sends]
  runtime,       \* the TenantRuntimeManager: loaded or not, how often built
  created,       \* [Keys -> how many sessions were created under the key]
  bound,         \* [Keys -> how many of them are tenant_resources]
  upsets         \* [changes, crashes] so far

tenancyVars ==
  <<tenant, limit, used, lock, reservations, request, runtime, created, bound, upsets>>

NoReservation == [usedAfter |-> 0, limit |-> 0]
quotaRows == <<limit, used, lock, reservations>>
sessionRows == <<runtime, created, bound>>

-----------------------------------------------------------------------------
(* bootstrap_tenant: the tenant and its owner, the quotas, the first token.*)
(* The slug is unique, so that a bootstrap that failed is not repeated.    *)

CreateTenant ==
  /\ tenant = "none"
  /\ tenant' = "created"
  /\ UNCHANGED <<quotaRows, request, sessionRows, upsets>>

SetDefaultQuota ==
  /\ tenant = "created"
  /\ tenant' = "quotas" /\ limit' = DefaultLimit
  /\ UNCHANGED <<used, lock, reservations, request, sessionRows, upsets>>

IssueToken ==
  /\ tenant = "quotas"
  /\ tenant' = "ready"
  /\ UNCHANGED <<quotaRows, request, sessionRows, upsets>>

AbandonBootstrap ==
  /\ tenant \in {"created", "quotas"} /\ upsets.crashes < MaxCrashes
  /\ tenant' = "abandoned"
  /\ upsets' = [upsets EXCEPT !.crashes = @ + 1]
  /\ UNCHANGED <<quotaRows, request, sessionRows>>

(* set_quota waits for whoever has locked the row.                         *)
SetQuota(l) ==
  /\ tenant = "ready" /\ upsets.changes < MaxChanges
  /\ lock = NoOne
  /\ limit' = l
  /\ upsets' = [upsets EXCEPT !.changes = @ + 1]
  /\ UNCHANGED <<tenant, used, lock, reservations, request, sessionRows>>

-----------------------------------------------------------------------------
(* create_session.                                                         *)

GoTo(r, at) == request' = [request EXCEPT ![r].at = at]

(* authenticate: only the first token lets a request in.                   *)
SendRequest(r) ==
  /\ tenant = "ready"
  /\ request[r].at \in {"unsent", "failed"} /\ request[r].sends < MaxSends
  /\ request' = [request EXCEPT ![r].at = "authenticated", ![r].sends = @ + 1]
  /\ UNCHANGED <<tenant, quotaRows, sessionRows, upsets>>

(* A reservation that exists is returned as it is.                         *)
LookUpReservation(r) ==
  /\ request[r].at = "authenticated"
  /\ GoTo(r, IF reservations[KeyOf[r]] # NoReservation THEN "reserved" ELSE "locking")
  /\ UNCHANGED <<tenant, quotaRows, sessionRows, upsets>>

(* Fault: the quota is read without FOR UPDATE, the usage as well.         *)
ReadQuotaUnlocked(r) ==
  /\ request[r].at = "locking"
  /\ request' = [request EXCEPT ![r].at = "counting", ![r].limit = limit, ![r].used = used]
  /\ UNCHANGED <<tenant, quotaRows, sessionRows, upsets>>

(* SELECT ... FOR UPDATE.                                                  *)
LockQuota(r) ==
  /\ request[r].at = "locking" /\ lock = NoOne
  /\ lock' = r
  /\ request' = [request EXCEPT ![r].at = "counting", ![r].limit = limit, ![r].used = used]
  /\ UNCHANGED <<tenant, limit, used, reservations, sessionRows, upsets>>

Reservation(r) == [usedAfter |-> request[r].used + 1, limit |-> request[r].limit]

Unlocked(r) == IF lock = r THEN NoOne ELSE lock

(* The primary key refuses a reservation somebody else made meanwhile, and *)
(* the transaction is undone.                                              *)
Reserve(r) ==
  /\ request[r].at = "counting" /\ lock' = Unlocked(r)
  /\ IF Reservation(r).usedAfter > Reservation(r).limit
     THEN GoTo(r, "refused") /\ UNCHANGED <<used, reservations>>
     ELSE IF reservations[KeyOf[r]] # NoReservation
     THEN GoTo(r, "failed") /\ UNCHANGED <<used, reservations>>
     ELSE /\ GoTo(r, "reserved")
          /\ used' = Reservation(r).usedAfter
          /\ reservations' = [reservations EXCEPT ![KeyOf[r]] = Reservation(r)]
  /\ UNCHANGED <<tenant, limit, sessionRows, upsets>>

(* TenantRuntimeManager::runtime looks under the read lock first.          *)
LookUpRuntime(r) ==
  /\ request[r].at = "reserved"
  /\ GoTo(r, IF runtime.loaded THEN "running" ELSE "loading")
  /\ UNCHANGED <<tenant, quotaRows, sessionRows, upsets>>

LoadRuntime(r) ==
  /\ request[r].at = "loading"
  /\ runtime' = IF runtime.loaded THEN runtime ELSE [loaded |-> TRUE, built |-> runtime.built + 1]
  /\ GoTo(r, "running")
  /\ UNCHANGED <<tenant, quotaRows, created, bound, upsets>>

CreateSession(r) ==
  /\ request[r].at = "running"
  /\ created' = [created EXCEPT ![KeyOf[r]] = @ + 1]
  /\ GoTo(r, "created")
  /\ UNCHANGED <<tenant, quotaRows, runtime, bound, upsets>>

BindResource(r) ==
  /\ request[r].at = "created"
  /\ bound' = [bound EXCEPT ![KeyOf[r]] = @ + 1]
  /\ GoTo(r, "answered")
  /\ UNCHANGED <<tenant, quotaRows, runtime, created, upsets>>

(* A statement fails or the client goes away: an open transaction is       *)
(* undone, what was committed stays.                                       *)
RequestFails(r) ==
  /\ request[r].at \notin {"unsent", "failed", "refused", "answered"}
  /\ upsets.crashes < MaxCrashes
  /\ upsets' = [upsets EXCEPT !.crashes = @ + 1]
  /\ lock' = Unlocked(r)
  /\ GoTo(r, "failed")
  /\ UNCHANGED <<tenant, limit, used, reservations, sessionRows>>

-----------------------------------------------------------------------------
TenancyInit ==
  /\ tenant = "none"
  /\ limit = 0 /\ used = 0 /\ lock = NoOne
  /\ reservations = [k \in Keys |-> NoReservation]
  /\ request = [r \in SessionRequests |-> [at |-> "unsent", limit |-> 0, used |-> 0, sends |-> 0]]
  /\ runtime = [loaded |-> FALSE, built |-> 0]
  /\ created = [k \in Keys |-> 0] /\ bound = [k \in Keys |-> 0]
  /\ upsets = [changes |-> 0, crashes |-> 0]

RequestStep(r) ==
  \/ SendRequest(r) \/ LookUpReservation(r) \/ LockQuota(r) \/ Reserve(r)
  \/ LookUpRuntime(r) \/ LoadRuntime(r) \/ CreateSession(r) \/ BindResource(r)
  \/ RequestFails(r)

TenancyNext ==
  \/ CreateTenant \/ SetDefaultQuota \/ IssueToken \/ AbandonBootstrap
  \/ \E l \in QuotaLimits : SetQuota(l)
  \/ \E r \in SessionRequests : RequestStep(r)

TenancySpec == TenancyInit /\ [][TenancyNext]_tenancyVars

-----------------------------------------------------------------------------
TenancyTypeOK ==
  /\ tenant \in {"none", "created", "quotas", "ready", "abandoned"}
  /\ limit \in Nat /\ used \in Nat /\ lock \in SessionRequests \cup {NoOne}
  /\ reservations \in [Keys -> [usedAfter : Nat, limit : Nat]]
  /\ \A r \in SessionRequests :
       request[r].at \in {"unsent", "authenticated", "locking", "counting", "reserved", "refused",
                          "loading", "running", "created", "answered", "failed"}
  /\ runtime.loaded \in BOOLEAN /\ runtime.built <= 1
  /\ created \in [Keys -> Nat] /\ bound \in [Keys -> Nat]

Reserved == {k \in Keys : reservations[k] # NoReservation}

(* The quota counts every key once, however often and by however many      *)
(* requests it is presented: the reservations are numbered without a gap   *)
(* and none of them went over the limit it was made under.                 *)
UsageIsReserved ==
  /\ used = Cardinality(Reserved)
  /\ {reservations[k].usedAfter : k \in Reserved} = 1 .. used
  /\ \A k \in Reserved : reservations[k].usedAfter <= reservations[k].limit

(* What the quota has counted stays explained by its reservations, and the *)
(* tenant's runtime is built once.                                         *)
QuotaIsAccounted == TenancyTypeOK /\ UsageIsReserved

(* "Reservations are: hard-limit and fail-closed": there are no more       *)
(* sessions than the tenant's limit ever allowed.                          *)
SessionsWithinLimit ==
  MapThenSumSet(LAMBDA k : created[k], Keys) <= Max(QuotaLimits \cup {DefaultLimit})
=============================================================================
