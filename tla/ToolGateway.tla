---------------------------- MODULE ToolGateway ----------------------------
(***************************************************************************)
(* Tool invocations through AuditedMcpGateway: discovery on the MCP        *)
(* server, the policy's decision, the one-time consumption of an approval  *)
(* grant, and the call, each in a connection of its own.  Invocations run  *)
(* concurrently, are retried by their callers, and may share a grant; the  *)
(* server may be replaced between any two connections.                     *)
(***************************************************************************)
EXTENDS Naturals, FiniteSets, Sequences, SequencesExt, FiniteSetsExt

CONSTANTS
  Invocations,        \* tool invocations
  ApprovalGrants,     \* approval grants
  ToolOf,             \* [Invocations -> Tools]
  GrantFor,           \* the tool a grant is issued for
  OfferedGrant,       \* [Invocations -> ApprovalGrants]: what the caller presents
  PermissionOrder,    \* the permissions in the order of the BTreeSet
  Needs,              \* [Tools -> sets of permissions]
  HighRisk,           \* the tools of high or critical risk
  AgentAllows,        \* the permissions the agent's capabilities cover
  PolicyAllowed, PolicyApproval, PolicyDenied,    \* PolicyConfig
  CallLimit,          \* calls_per_minute
  MaxInvokes          \* bound: how often an invocation is tried

NoInvocation == "none"

ASSUME GatewayAssumption ==
  /\ ToolOf \in [Invocations -> DOMAIN Needs] /\ OfferedGrant \in [Invocations -> ApprovalGrants]
  /\ NoInvocation \notin Invocations \cup ApprovalGrants
  /\ PermissionOrder \in Seq(STRING) /\ {CallLimit, MaxInvokes} \subseteq Nat

VARIABLES
  grants,             \* the mcp_approval_grants table
  audit,              \* the approval events in the outbox
  invocation,         \* where each invocation is
  tries,              \* how often each invocation was tried
  server,             \* the server that answers now: "expected" or "other"
  callsThisMinute,    \* how many calls the limiter admitted in the last minute
  cancelled,          \* the transport's cancellation token
  remote              \* the calls the server has executed

gatewayVars == <<grants, audit, invocation, tries, server, callsThisMinute, cancelled, remote>>

Tools == DOMAIN Needs

-----------------------------------------------------------------------------
(* PolicyEngine::evaluate: the first permission, in order, that is not     *)
(* plainly allowed decides.                                                *)

Verdict(p) ==
  IF p \notin AgentAllows \/ p \in PolicyDenied THEN "deny"
  ELSE IF p \in PolicyApproval THEN "approval"
  ELSE IF p \in PolicyAllowed THEN "allow" ELSE "deny"

Decides(n, tool) ==
  LET open(m) == PermissionOrder[m] \in Needs[tool] /\ Verdict(PermissionOrder[m]) # "allow"
  IN  open(n) /\ \A m \in 1 .. n - 1 : ~open(m)

Evaluate(tool) ==
  LET deciding == {n \in DOMAIN PermissionOrder : Decides(n, tool)} IN
  IF deciding # {} THEN Verdict(PermissionOrder[CHOOSE n \in deciding : TRUE])
  ELSE IF tool \in HighRisk THEN "approval" ELSE "allow"

-----------------------------------------------------------------------------
(* Approval grants, SqliteMcpApprovalRepository.                           *)

Unissued == [status |-> "unissued", by |-> NoInvocation]

Issue(g) ==
  /\ grants[g].status = "unissued"
  /\ grants' = [grants EXCEPT ![g].status = "issued"]
  /\ audit' = Append(audit, [event |-> "issued", grant |-> g])
  /\ UNCHANGED <<invocation, tries, server, callsThisMinute, cancelled, remote>>

(* expires_at passes.                                                      *)
Expire(g) ==
  /\ grants[g].status = "issued"
  /\ grants' = [grants EXCEPT ![g].status = "expired"]
  /\ UNCHANGED <<audit, invocation, tries, server, callsThisMinute, cancelled, remote>>

(* ApprovalGrant::authorizes, on the copy the caller presents.             *)
Authorizes(g, i) == GrantFor[g] = ToolOf[i] /\ grants[g].status # "expired"

(* Fault: consumed_at is not looked at.                                    *)
ConsumableAgain(g, i) == grants[g].status \in {"issued", "consumed"} /\ GrantFor[g] = ToolOf[i]

(* consume: not consumed, not expired, and issued for this very scope.     *)
Consumable(g, i) == grants[g].status = "issued" /\ GrantFor[g] = ToolOf[i]

-----------------------------------------------------------------------------
(* Invocations, AuditedMcpGateway::invoke.                                 *)

Ready == [at |-> "ready", grant |-> NoInvocation, server |-> NoInvocation]
Step(i, at) == invocation' = [invocation EXCEPT ![i].at = at]
End(i) == invocation' = [invocation EXCEPT ![i] = Ready]

Invoke(i) ==
  /\ invocation[i].at = "ready"
  /\ tries[i] < MaxInvokes
  /\ tries' = [tries EXCEPT ![i] = @ + 1]
  /\ Step(i, "discover")
  /\ UNCHANGED <<grants, audit, server, callsThisMinute, cancelled, remote>>

(* validate_server: tool capability, name, version, protocol.              *)
Compatible(s) == s = "expected"

(* discover: a cancelled transport, an incompatible server or one that     *)
(* does not list the tool end the invocation.                              *)
Discover(i) ==
  /\ invocation[i].at = "discover"
  /\ \/ /\ ~cancelled /\ Compatible(server)
        /\ CASE Evaluate(ToolOf[i]) = "allow" -> Step(i, "connect")
             [] Evaluate(ToolOf[i]) = "approval" -> Step(i, "authorize")
             [] OTHER -> End(i)
     \/ End(i)
  /\ UNCHANGED <<grants, audit, tries, server, callsThisMinute, cancelled, remote>>

Authorize(i) ==
  /\ invocation[i].at = "authorize"
  /\ IF Authorizes(OfferedGrant[i], i) THEN Step(i, "consume") ELSE End(i)
  /\ UNCHANGED <<grants, audit, tries, server, callsThisMinute, cancelled, remote>>

(* The grant is consumed in one transaction with its event, and before the *)
(* call: a call that fails does not give it back.                          *)
Consume(i) ==
  LET g == OfferedGrant[i] IN
  /\ invocation[i].at = "consume"
  /\ IF Consumable(g, i)
     THEN /\ grants' = [grants EXCEPT ![g] = [status |-> "consumed", by |-> i]]
          /\ audit' = Append(audit, [event |-> "consumed", grant |-> g])
          /\ invocation' = [invocation EXCEPT ![i].at = "connect", ![i].grant = g]
     ELSE End(i) /\ UNCHANGED <<grants, audit>>
  /\ UNCHANGED <<tries, server, callsThisMinute, cancelled, remote>>

(* FixedWindowLimiter::acquire.                                            *)
Admitted == callsThisMinute < CallLimit

(* The oldest call the limiter remembers is a minute old.                  *)
MinutePasses ==
  /\ callsThisMinute > 0
  /\ callsThisMinute' = callsThisMinute - 1
  /\ UNCHANGED <<grants, audit, invocation, tries, server, cancelled, remote>>

(* invoke_remote up to a connection with a validated server.               *)
Connect(i) ==
  /\ invocation[i].at = "connect"
  /\ \/ /\ ~cancelled /\ Admitted
        /\ callsThisMinute' = callsThisMinute + 1
        /\ IF Compatible(server)
           THEN invocation' = [invocation EXCEPT ![i].at = "call", ![i].server = server]
           ELSE End(i)
     \/ /\ cancelled \/ ~Admitted
        /\ End(i) /\ UNCHANGED callsThisMinute
  /\ UNCHANGED <<grants, audit, tries, server, cancelled, remote>>

(* call_tool on that connection; the server may execute the call although  *)
(* its answer comes too late, is too large, reports an error, or the       *)
(* token is cancelled meanwhile.                                           *)
CallTool(i) ==
  /\ invocation[i].at = "call"
  /\ remote' = Append(remote, [by |-> i, grant |-> invocation[i].grant, server |-> invocation[i].server])
  /\ End(i)
  /\ UNCHANGED <<grants, audit, tries, server, callsThisMinute, cancelled>>

(* A time-out or a cancellation before the request was sent.               *)
CallAborted(i) ==
  /\ invocation[i].at = "call"
  /\ End(i)
  /\ UNCHANGED <<grants, audit, tries, server, callsThisMinute, cancelled, remote>>

Cancel ==
  /\ ~cancelled
  /\ cancelled' = TRUE
  /\ UNCHANGED <<grants, audit, invocation, tries, server, callsThisMinute, remote>>

(* Another build answers at the endpoint or path from now on.              *)
ServerChanges ==
  /\ server' = IF server = "expected" THEN "other" ELSE "expected"
  /\ UNCHANGED <<grants, audit, invocation, tries, callsThisMinute, cancelled, remote>>

-----------------------------------------------------------------------------
GatewayInit ==
  /\ grants = [g \in ApprovalGrants |-> Unissued]
  /\ audit = <<>>
  /\ invocation = [i \in Invocations |-> Ready]
  /\ tries = [i \in Invocations |-> 0]
  /\ server = "expected"
  /\ callsThisMinute = 0
  /\ cancelled = FALSE
  /\ remote = <<>>

GatewayNext ==
  \/ \E g \in ApprovalGrants : Issue(g)
  \/ \E g \in ApprovalGrants : Expire(g)
  \/ \E i \in Invocations : Invoke(i)
  \/ \E i \in Invocations : Discover(i)
  \/ \E i \in Invocations : Authorize(i)
  \/ \E i \in Invocations : Consume(i)
  \/ \E i \in Invocations : Connect(i)
  \/ \E i \in Invocations : CallTool(i)
  \/ \E i \in Invocations : CallAborted(i)
  \/ MinutePasses
  \/ Cancel
  \/ ServerChanges

GatewaySpec == GatewayInit /\ [][GatewayNext]_gatewayVars

-----------------------------------------------------------------------------
GatewayTypeOK ==
  /\ grants \in [ApprovalGrants -> [status : {"unissued", "issued", "expired", "consumed"},
                            by : Invocations \cup {NoInvocation}]]
  /\ audit \in Seq([event : {"issued", "consumed"}, grant : ApprovalGrants])
  /\ invocation \in [Invocations ->
       [at : {"ready", "discover", "authorize", "consume", "connect", "call"},
        grant : ApprovalGrants \cup {NoInvocation}, server : {"expected", "other", NoInvocation}]]
  /\ tries \in [Invocations -> 0..MaxInvokes]
  /\ server \in {"expected", "other"}
  /\ callsThisMinute \in 0..CallLimit
  /\ cancelled \in BOOLEAN
  /\ remote \in Seq([by : Invocations, grant : ApprovalGrants \cup {NoInvocation}, server : {"expected", "other"}])

(* A grant lets one call through, however many invocations present it and  *)
(* however often they are retried (consume).                               *)
GrantsAreUsedOnce ==
  \A m, n \in DOMAIN remote :
    remote[m].grant = remote[n].grant /\ remote[m].grant # NoInvocation => m = n

(* A call that needed an approval was made by the invocation the grant     *)
(* says it was consumed by, for the tool it was issued for, and the audit  *)
(* trail told so before the call (consume, then call_tool).                *)
CallsAreAudited ==
  \A n \in DOMAIN remote :
    Evaluate(ToolOf[remote[n].by]) # "allow" =>
      LET g == remote[n].grant IN
      /\ g # NoInvocation
      /\ grants[g].by = remote[n].by
      /\ GrantFor[g] = ToolOf[remote[n].by]
      /\ [event |-> "consumed", grant |-> g] \in Range(audit)

(* A high-risk tool is never called without a grant, whatever permissions  *)
(* the policy allows (evaluate).                                           *)
HighRiskIsApproved ==
  \A n \in DOMAIN remote : ToolOf[remote[n].by] \in HighRisk => remote[n].grant # NoInvocation

(* Discovery, authorization and call are three connections: every call     *)
(* goes to a server that was validated on the call's own connection        *)
(* (validate_server in call_stdio and call_http).                          *)
CallsReachTheExpectedServer ==
  \A n \in DOMAIN remote : remote[n].server = "expected"

(* A call to a tool that asks for approval is the one use of the grant     *)
(* that was audited for it, and it goes to the server that was validated.  *)
CallsAreAuthorized ==
  /\ GatewayTypeOK
  /\ GrantsAreUsedOnce /\ CallsAreAudited /\ HighRiskIsApproved
  /\ CallsReachTheExpectedServer
=============================================================================
