------------------------------ MODULE MCServices ----------------------------
(***************************************************************************)
(* Eleven components that share no state, checked by one run: focus says which*)
(* of them moves, and the others stay in one initial state.                *)
(*   postgres:  a workspace and a directory, two Runtimes.                 *)
(*   claims:    the task claims of the same module, which share nothing    *)
(*              but the clock with its leases.                             *)
(*   tenants:   two requests with one key and one with another.            *)
(*   billing:   two Sessions buy one subscription; two calls report the    *)
(*              same usage; its status changes once.                       *)
(*   webhooks:  the same without usage; its status changes twice.          *)
(*   gateway:   two invocations with one grant, one of which is retried,   *)
(*              and one of a high-risk tool.                               *)
(*   knowledge: three records in either repository.                        *)
(*   packing:   all packages of up to three candidates.                    *)
(*   index:     two files that may import each other, and a content that   *)
(*              index_file refuses.                                        *)
(*   release:   all release evidence with one gate and one role.           *)
(*   daemon:    two providers in two manifest files, of a good release;    *)
(*              one file of its package is changed while a Runtime starts. *)
(*   leases:    a directory of a workspace, a file of the directory and    *)
(*              a sibling whose name extends the directory's.              *)
(*   executions: one client; the workflow moves before the only execution, *)
(*              or a second one is started when the first has ended.       *)
(*   records:   an agent in SQLite or in PostgreSQL, two HTTP callers.     *)
(***************************************************************************)
EXTENDS PostgresLocks, Tenancy, Billing, ToolGateway, Knowledge, AgentContext,
        Certification, LockLease, AgentExecutions, AgentRecords, TLC

CONSTANTS o1, o2, r1, r2, r3, c1, c2, s1, s2, u1, g1, g2

VARIABLE focus

Workspace == <<"workspace:w">>
TwoPlaces == {Workspace, Workspace \o <<"src">>}
HolderSymmetry == Permutations(Holders)

SharedKey == [r \in SessionRequests |-> IF r = r3 THEN "k2" ELSE "k1"]

BothBuyOne == s1 :> "bought" @@ s2 :> "bought"
OneQuantity == [c \in Calls |-> [key |-> u1, quantity |-> 1]]

InvokedTools == c1 :> "write" @@ c2 :> "write" @@ r1 :> "deploy"
GrantedTools == g1 :> "write" @@ g2 :> "deploy"
OfferedGrants == c1 :> g1 @@ c2 :> g1 @@ r1 :> g2
ThreePermissions == <<"read", "write", "network">>
ToolPermissions == [write |-> {"read", "write"}, deploy |-> {"read"}]

ImportsOfContents ==
    [c \in Contents |-> IF c = "uses1" THEN {1} ELSE IF c = "uses2" THEN {2} ELSE {}]

OnePolicy == [valid |-> TRUE, gates |-> {"tests"}, roles |-> {"security"},
              critical |-> 0, high |-> 0]
Signoffs == [role : {"security"}, human : BOOLEAN, decision : {"rc", "ga", "rejected"},
             evidenced : BOOLEAN]
Evidences ==
    [header : BOOLEAN, critical : {0, 1}, high : {0, 1},
     gates : [{"tests"} -> {"passed", "unproven", "waived", "failed", "missing"}],
     signoffs : BoundedSeq(Signoffs, 2)]
GoodEvidence ==
    [header |-> TRUE, critical |-> 0, high |-> 0, gates |-> [g \in {"tests"} |-> "passed"],
     signoffs |-> <<[role |-> "security", human |-> TRUE, decision |-> "ga",
                     evidenced |-> TRUE]>>]

TwoFiles == <<"f1", "f2">>
TwoProviders == <<"echo", "ollama">>
EchoManifest == [adapter |-> "echo", production |-> TRUE, sources |-> {"lib"},
                 gates |-> {"contract", "security"}]
SomeManifests ==
    {EchoManifest, [EchoManifest EXCEPT !.gates = {"contract"}],
     [EchoManifest EXCEPT !.production = FALSE, !.gates = {}],
     [EchoManifest EXCEPT !.adapter = "ollama"]}
SomeReports ==
    LET Item(g, p) == [gate |-> g, passed |-> p] IN
    {<<Item("contract", TRUE), Item("security", TRUE)>>, <<Item("contract", TRUE)>>,
     <<Item("contract", TRUE), Item("security", FALSE)>>,
     <<Item("contract", TRUE), Item("security", TRUE), Item("security", FALSE)>>}
SomeCertifications ==
    [adapter : {"echo", "ollama"}, digest : SomeManifests, commit : {"this", "other"},
     signed : {TRUE}, approved : BOOLEAN, gates : SomeReports]

Src == <<"workspace:w", "src">>
LeasedResources == {Src, Src \o <<"a", "$file">>, <<"workspace:w", "src2">>}

WideCharacters == {<<"h", "l">>}

OneHome == [x \in AgentIds \cup ApiCallers |-> s1]

-----------------------------------------------------------------------------
serviceVars == <<pgVars, tenancyVars, billingVars, gatewayVars, knowledgeVars,
                 packingVars, indexVars, certificationVars>>
localVars == <<vars, supervisedVars, recordVars>>
modelVars == <<serviceVars, localVars, focus>>

ModelInit ==
    /\ focus \in {"postgres", "claims", "tenants", "billing", "webhooks", "gateway",
                  "knowledge", "packing", "index", "release", "daemon",
                  "leases", "executions", "records"}
    /\ focus = "knowledge" \/ store = "sqlite"
    /\ focus = "packing" \/ (offered = << >> /\ budget = [max |-> 0, reserved |-> 0])
    /\ focus = "index" \/ disk = [p \in Paths |-> Absent]
    /\ focus = "release" \/ evidence = GoodEvidence
    /\ PgInit /\ TenancyInit /\ BillingInit /\ GatewayInit /\ KnowledgeInit
    /\ PackingInit /\ IndexInit /\ CertificationInit
    /\ Init /\ TerminalInit /\ ExecutionInit /\ RecordsInit

PostgresStep ==
    /\ focus \in {"postgres", "claims"} /\ PgNext
    /\ focus = "postgres" => taskVars' = taskVars
    /\ focus = "claims" => leaseVars' = leaseVars
    /\ UNCHANGED <<tenancyVars, billingVars, gatewayVars, knowledgeVars,
                   packingVars, indexVars, certificationVars, localVars, focus>>

TenantsStep ==
    /\ focus = "tenants" /\ TenancyNext
    /\ UNCHANGED <<pgVars, billingVars, gatewayVars, knowledgeVars,
                   packingVars, indexVars, certificationVars, localVars, focus>>

BillingStep ==
    /\ focus \in {"billing", "webhooks"} /\ BillingNext
    /\ focus = "billing" => \A p \in ProviderSubs : Len(provider'[p]) <= 1
    /\ focus = "webhooks" => usageVars' = usageVars
    /\ UNCHANGED <<pgVars, tenancyVars, gatewayVars, knowledgeVars,
                   packingVars, indexVars, certificationVars, localVars, focus>>

GatewayStep ==
    /\ focus = "gateway" /\ GatewayNext
    /\ \A i \in Invocations \ {c1} : tries'[i] <= 1
    /\ UNCHANGED <<pgVars, tenancyVars, billingVars, knowledgeVars,
                   packingVars, indexVars, certificationVars, localVars, focus>>

KnowledgeStep ==
    /\ focus = "knowledge" /\ KnowledgeNext
    /\ UNCHANGED <<pgVars, tenancyVars, billingVars, gatewayVars,
                   packingVars, indexVars, certificationVars, localVars, focus>>

PackingStep ==
    /\ focus = "packing" /\ PackingNext
    /\ UNCHANGED <<pgVars, tenancyVars, billingVars, gatewayVars, knowledgeVars,
                   indexVars, certificationVars, localVars, focus>>

IndexStep ==
    /\ focus = "index" /\ IndexNext
    /\ UNCHANGED <<pgVars, tenancyVars, billingVars, gatewayVars, knowledgeVars,
                   packingVars, certificationVars, localVars, focus>>

CertificationStep ==
    /\ focus \in {"release", "daemon"} /\ CertificationNext
    /\ focus = "release" =>
         /\ daemon' = daemon /\ package'.edits = 0
         /\ package'.manifests = [f \in Files |-> IF f = "f1" THEN EchoManifest ELSE NoFile]
    /\ focus = "daemon" => package'.level = "ga"
    /\ UNCHANGED <<pgVars, tenancyVars, billingVars, gatewayVars, knowledgeVars,
                   packingVars, indexVars, localVars, focus>>

LeasesStep ==
    /\ focus = "leases" /\ Next
    /\ UNCHANGED <<serviceVars, supervisedVars, recordVars, focus>>

ExecutionsStep ==
    /\ focus = "executions" /\ ExecutionNext
    /\ prepared' # prepared =>
         \A p \in prepared : /\ threads[p].reader = "done" /\ threads[p].waiter = "done"
                             /\ workflow = FirstVersion
    /\ workflow' # workflow => prepared = {}
    /\ UNCHANGED <<serviceVars, vars, recordVars, focus>>

RecordsStep ==
    /\ focus = "records" /\ RecordsNext
    /\ Cardinality({a \in AgentIds : data'[a] # Unregistered}) <= 1
    /\ UNCHANGED <<serviceVars, vars, supervisedVars, focus>>

ModelNext ==
    \/ PostgresStep \/ TenantsStep \/ BillingStep \/ GatewayStep \/ KnowledgeStep
    \/ PackingStep \/ IndexStep \/ CertificationStep
    \/ LeasesStep \/ ExecutionsStep \/ RecordsStep

ModelSpec == ModelInit /\ [][ModelNext]_modelVars

=============================================================================
