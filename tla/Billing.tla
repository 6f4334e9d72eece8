------------------------------- MODULE Billing -------------------------------
(***************************************************************************)
(* Billing of one tenant: subscriptions bought at the payment provider,    *)
(* the webhooks by which the provider reports their status, and the ledger *)
(* of metered usage.  Every step is one transaction of the billing         *)
(* repository or one call of the provider.  The provider answers a request *)
(* that repeats an idempotency key with its first response, and counts a   *)
(* meter event of one identifier once; its webhooks arrive in any order    *)
(* and more than once.                                                     *)
(***************************************************************************)
EXTENDS Naturals, Sequences, FiniteSets, SequencesExt

CONSTANTS
  Subscribers,   \* requests to subscribe; each inserts a row of its own
  ProviderSubs,  \* subscriptions of the provider
  BoughtBy,      \* [Subscribers -> ProviderSubs]: one for one idempotency key
  UsageKeys,     \* idempotency keys of usage
  Calls,         \* requests to record usage
  UsageOf,       \* [Calls -> key and quantity]
  MaxStatuses,   \* bound: statuses a subscription of the provider takes
  MaxFaults,     \* bound: lost answers, failures and crashes
  MaxTries       \* bound: how often a client sends its call again

ASSUME BillingAssumption ==
  /\ BoughtBy \in [Subscribers -> ProviderSubs]
  /\ UsageOf \in [Calls -> [key : UsageKeys, quantity : Nat \ {0}]]

VARIABLES
  buying,        \* [Subscribers -> where BillingService::subscribe is]
  subscription,  \* [Subscribers -> the row it inserted, or NoSubscription]
  recent,        \* the rows, the last updated one first
  provider,      \* [ProviderSubs -> the statuses it has had]
  webhooks,      \* sessionweft_billing_webhooks: the events processed
  usage,         \* [UsageKeys -> the row of the ledger, or NoUsage]
  meter,         \* [UsageKeys -> the quantity the provider has counted]
  resent,        \* [UsageKeys -> sent to the provider again after Reported]
  call,          \* [Calls -> where record_usage is, what it has read, tries]
  faults

billingVars ==
  <<buying, subscription, recent, provider, webhooks, usage, meter, resent, call, faults>>
buyingVars == <<buying, subscription, recent>>
usageVars == <<usage, meter, resent, call>>

NoSubscription == [status |-> "none", bought |-> FALSE, version |-> 0]
NoUsage == [state |-> "none", by |-> <<>>, quantity |-> 0, attempts |-> 0]
Statuses == {"active", "past_due", "cancelled"}

Updated(s) ==
  <<s>> \o IF s \in ToSet(recent) THEN RemoveAt(recent, CHOOSE i \in DOMAIN recent : recent[i] = s)
          ELSE recent

-----------------------------------------------------------------------------
(* Subscribing.                                                            *)

InsertPending(s) ==
  /\ buying[s] = "idle"
  /\ buying' = [buying EXCEPT ![s] = "pending"]
  /\ subscription' = [subscription EXCEPT ![s] = [@ EXCEPT !.status = "pending"]]
  /\ recent' = Updated(s)
  /\ UNCHANGED <<provider, webhooks, usageVars, faults>>

(* The provider creates the subscription, or repeats its first response.   *)
ProviderSubscribes(s) ==
  /\ buying[s] = "pending"
  /\ \E status \in {"active", "past_due"} :
       provider' = [provider EXCEPT ![BoughtBy[s]] = IF @ = <<>> THEN <<status>> ELSE @]
  /\ buying' = [buying EXCEPT ![s] = "bought"]
  /\ UNCHANGED <<subscription, recent, webhooks, usageVars, faults>>

(* One row per subscription of the provider; the version must be unchanged.*)
SaveSubscription(s) ==
  /\ buying[s] = "bought"
  /\ IF /\ subscription[s].version = 0
        /\ \A t \in Subscribers : subscription[t].bought => BoughtBy[t] # BoughtBy[s]
     THEN /\ subscription' = [subscription EXCEPT ![s] =
                [status |-> provider[BoughtBy[s]][1], bought |-> TRUE, version |-> 1]]
          /\ recent' = Updated(s)
          /\ buying' = [buying EXCEPT ![s] = "saved"]
     ELSE buying' = [buying EXCEPT ![s] = "failed"] /\ UNCHANGED <<subscription, recent>>
  /\ UNCHANGED <<provider, webhooks, usageVars, faults>>

SubscribeFails(s) ==
  /\ buying[s] \in {"pending", "bought"} /\ faults < MaxFaults
  /\ faults' = faults + 1
  /\ buying' = [buying EXCEPT ![s] = "failed"]
  /\ UNCHANGED <<subscription, recent, provider, webhooks, usageVars>>

-----------------------------------------------------------------------------
(* The provider's webhooks.                                                *)

StatusChanges(p) ==
  /\ Len(provider[p]) \in 1 .. MaxStatuses - 1
  /\ \E status \in Statuses \ {Last(provider[p])} :
       provider' = [provider EXCEPT ![p] = Append(@, status)]
  /\ UNCHANGED <<buyingVars, webhooks, usageVars, faults>>

(* The event's status goes to the row of its subscription, if there is one *)
(* by now.                                                                 *)
Followed(p) ==
  {s \in Subscribers : subscription[s].bought /\ BoughtBy[s] = p}

Apply(p, n) ==
  /\ subscription' = [s \in Subscribers |->
       IF s \in Followed(p)
       THEN [subscription[s] EXCEPT !.status = provider[p][n], !.version = @ + 1]
       ELSE subscription[s]]
  /\ recent' = IF Followed(p) = {} THEN recent
               ELSE Updated(CHOOSE s \in Followed(p) : TRUE)

ApplyWebhook(p, n) ==
  /\ n \in DOMAIN provider[p]
  /\ <<p, n>> \notin webhooks
  /\ webhooks' = webhooks \cup {<<p, n>>}
  /\ Apply(p, n)
  /\ UNCHANGED <<buying, provider, usageVars, faults>>

-----------------------------------------------------------------------------
(* record_usage.                                                           *)

Entitling == {i \in DOMAIN recent : subscription[recent[i]].status = "active"}
Key(c) == UsageOf[c].key
ChangeUsage(c, row) == usage' = [usage EXCEPT ![Key(c)] = row]
CallGoesTo(c, at) == call' = [call EXCEPT ![c].at = at]
others == <<buyingVars, provider, webhooks>>

(* The active subscription that was updated last is the one to charge.     *)
FindSubscription(c) ==
  /\ call[c].at = "idle"
  /\ \/ Entitling = {} /\ CallGoesTo(c, "refused")
     \/ \E i \in Entitling :
          /\ \A j \in Entitling : i <= j
          /\ call' = [call EXCEPT ![c].at = "entitled", ![c].by = <<recent[i]>>]
  /\ UNCHANGED <<others, usage, meter, resent, faults>>

Persisted(c) ==
  IF usage[Key(c)] # NoUsage THEN usage[Key(c)]
  ELSE [state |-> "prepared", by |-> call[c].by, quantity |-> UsageOf[c].quantity, attempts |-> 0]

(* The row that is there wins, when its parameters are those of the call.  *)
PrepareUsage(c) ==
  /\ call[c].at = "entitled"
  /\ IF Persisted(c).by # call[c].by \/ Persisted(c).quantity # UsageOf[c].quantity
     THEN CallGoesTo(c, "refused") /\ UNCHANGED usage
     ELSE /\ ChangeUsage(c, Persisted(c))
          /\ CallGoesTo(c, IF Persisted(c).state = "reported" THEN "answered" ELSE "prepared")
  /\ UNCHANGED <<others, meter, resent, faults>>

(* Fault: the update does not leave a Reported row alone.                  *)
TransitionAlways(c, state, attempts) ==
  ChangeUsage(c, [usage[Key(c)] EXCEPT !.state = state, !.attempts = @ + attempts])

Transition(c, state, attempts) ==
  IF usage[Key(c)].state = "reported" THEN UNCHANGED usage
  ELSE ChangeUsage(c, [usage[Key(c)] EXCEPT !.state = state, !.attempts = @ + attempts])

(* The row comes back as it is, Reported ones included, and is sent.       *)
MarkReporting(c) ==
  /\ call[c].at = "prepared"
  /\ Transition(c, "reporting", 1)
  /\ CallGoesTo(c, "reporting")
  /\ UNCHANGED <<others, meter, resent, faults>>

Delivered(c) ==
  /\ meter' = [meter EXCEPT ![Key(c)] = IF @ = 0 THEN usage[Key(c)].quantity ELSE @]
  /\ resent' = [resent EXCEPT ![Key(c)] = @ \/ usage[Key(c)].state = "reported"]

ReportUsage(c) ==
  /\ call[c].at = "reporting"
  /\ Delivered(c)
  /\ CallGoesTo(c, "received")
  /\ UNCHANGED <<others, usage, faults>>

(* A request that timed out, could not be sent or was answered with an     *)
(* error, or whose answer could not be read: counted or not.               *)
ReportFails(c) ==
  /\ call[c].at = "reporting" /\ faults < MaxFaults
  /\ faults' = faults + 1
  /\ Delivered(c) \/ UNCHANGED <<meter, resent>>
  /\ \E outcome \in {"uncertain", "failed"} : CallGoesTo(c, outcome)
  /\ UNCHANGED <<others, usage>>

(* Fault: an uncertain outcome is recorded as a success.                   *)
RecordOutcomeHopefully(c) ==
  /\ call[c].at \in {"received", "uncertain", "failed"}
  /\ Transition(c, IF call[c].at = "failed" THEN "failed" ELSE "reported", 0)
  /\ CallGoesTo(c, IF call[c].at = "received" THEN "answered" ELSE "broken")
  /\ UNCHANGED <<others, meter, resent, faults>>

MarkReported(c) == Transition(c, "reported", 0)
MarkFailed(c) == Transition(c, call[c].at, 0)

RecordOutcome(c) ==
  /\ \/ call[c].at = "received" /\ MarkReported(c) /\ CallGoesTo(c, "answered")
     \/ call[c].at \in {"uncertain", "failed"} /\ MarkFailed(c) /\ CallGoesTo(c, "broken")
  /\ UNCHANGED <<others, meter, resent, faults>>

(* The service stops, or its database does, between two steps.             *)
CallBreaks(c) ==
  /\ call[c].at \in {"entitled", "prepared", "reporting", "received", "uncertain", "failed"}
  /\ faults < MaxFaults
  /\ faults' = faults + 1
  /\ CallGoesTo(c, "broken")
  /\ UNCHANGED <<others, usage, meter, resent>>

SendCallAgain(c) ==
  /\ call[c].at \in {"broken", "refused", "answered"} /\ call[c].tries < MaxTries
  /\ call' = [call EXCEPT ![c] = [at |-> "idle", by |-> <<>>, tries |-> @.tries + 1]]
  /\ UNCHANGED <<others, usage, meter, resent, faults>>

-----------------------------------------------------------------------------
BillingInit ==
  /\ buying = [s \in Subscribers |-> "idle"]
  /\ subscription = [s \in Subscribers |-> NoSubscription] /\ recent = <<>>
  /\ provider = [p \in ProviderSubs |-> <<>>] /\ webhooks = {}
  /\ usage = [k \in UsageKeys |-> NoUsage]
  /\ meter = [k \in UsageKeys |-> 0] /\ resent = [k \in UsageKeys |-> FALSE]
  /\ call = [c \in Calls |-> [at |-> "idle", by |-> <<>>, tries |-> 0]]
  /\ faults = 0

BillingNext ==
  \/ \E s \in Subscribers :
       InsertPending(s) \/ ProviderSubscribes(s) \/ SaveSubscription(s) \/ SubscribeFails(s)
  \/ \E p \in ProviderSubs :
       StatusChanges(p) \/ \E n \in 1 .. MaxStatuses : ApplyWebhook(p, n)
  \/ \E c \in Calls :
       \/ FindSubscription(c) \/ PrepareUsage(c) \/ MarkReporting(c) \/ ReportUsage(c)
       \/ ReportFails(c) \/ RecordOutcome(c) \/ CallBreaks(c) \/ SendCallAgain(c)

BillingSpec == BillingInit /\ [][BillingNext]_billingVars

-----------------------------------------------------------------------------
BillingTypeOK ==
  /\ buying \in [Subscribers -> {"idle", "pending", "bought", "saved", "failed"}]
  /\ subscription \in [Subscribers ->
       [status : Statuses \cup {"none", "pending"}, bought : BOOLEAN, version : Nat]]
  /\ recent \in Seq(Subscribers) /\ IsInjective(recent)
  /\ ToSet(recent) = {s \in Subscribers : subscription[s].status # "none"}
  /\ \A p \in ProviderSubs : provider[p] \in Seq(Statuses)
  /\ \A k \in UsageKeys :
       /\ usage[k].state \in {"none", "prepared", "reporting", "reported", "failed", "uncertain"}
       /\ usage[k].attempts \in Nat /\ meter[k] \in Nat /\ resent[k] \in BOOLEAN

(* A Reported row was counted by the provider, with its quantity; whatever *)
(* the provider counted has a row, which says that it was sent.  Time-outs,*)
(* crashes, retries and reused keys never part the ledger from the invoice.*)
LedgerMatchesProvider ==
  \A k \in UsageKeys :
    /\ usage[k].state = "reported" => meter[k] = usage[k].quantity
    /\ meter[k] # 0 => meter[k] = usage[k].quantity /\ usage[k].attempts > 0

(* A late failure of one attempt does not undo what another one reported.  *)
ReportedIsFinal ==
  [][\A k \in UsageKeys : usage[k].state = "reported" => usage'[k] = usage[k]]_billingVars

(* A row changes once for the purchase and at most once for each event,    *)
(* however often it is delivered; one row follows one subscription, and    *)
(* its status is one the provider has reported.                            *)
WebhooksApplyOnce ==
  \A s \in Subscribers : subscription[s].bought =>
    /\ subscription[s].version <= 1 + Cardinality({e \in webhooks : e[1] = BoughtBy[s]})
    /\ Followed(BoughtBy[s]) = {s}
    /\ subscription[s].status \in ToSet(provider[BoughtBy[s]])

(* The tenant's books follow the provider's: usage and subscriptions.      *)
BooksFollowProvider == BillingTypeOK /\ LedgerMatchesProvider /\ WebhooksApplyOnce

(* "A record already marked `Reported` is never sent again."               *)
ReportedIsNotResent == \A k \in UsageKeys : ~resent[k]
=============================================================================
