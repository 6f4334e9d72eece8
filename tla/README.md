# Verification of SessionWeft

SessionWeft lets several agents work on one session: workflows of tasks and
approvals, leases on the resources of a workspace, a scheduler that gives ready
tasks to agents, workers that carry the tasks out, a queue that merges what they
committed, terminals the agents run in, and the stores, streams and services around
them. This directory holds TLA+ modules translated from the Rust sources (and the few
scripts that belong to them), TLC runs over small instances, and TLAPS proofs for
all instances of most of what the runs check.

    tlc -config MCScheduler_shared.cfg MCScheduler
    tlapm SchedulerProofs.tla

`PROJECT.json` lists the components, the runs, the source lines behind every
definition, the hazards with the properties aimed at them, the theorems, and one mutant
per property: a plausible bug in the modelled code that makes the property fail.

Contents: 1 the system, 2 the modules, 3 the runs, 4 bounds and fairness, 5 the proofs,
6 what only TLC covers, 7 where the code departs from its documents, 8 other behaviour
worth knowing, 9 what is not modelled, 10 what is left to do.

## 1. The system and its parts

| Part | State | Operations | Hard behaviour |
|---|---|---|---|
| Workflow orchestration (`orchestration`, `-sqlite`) | `workflow_executions` (version, status, nodes), outbox | start, complete, fail, decide approval | read-apply-save under a version check, retries, fallbacks, dependents |
| Lock leases (same crates; PostgreSQL in `service-postgres`) | leases, last token | acquire, heartbeat, release, validate fence | hierarchy, expiry against a late clock, fencing tokens |
| Agent records (`execution`, `-sqlite`) | `agent_records`, JSON next to columns | register, start, heartbeat, stop, assign, release, fail | HTTP callers and the scheduler write the same rows |
| Scheduler claims (`scheduler`, `-sqlite`) | `scheduler_claims`, requirements, fence snapshots | claim, complete, fail, recover, hand over | tables that must change together; claims race with commands |
| Scheduler polling (`polling.rs`, its worker) | the lists of a tick | recover, hand over, claim | lists read earlier, an error ends the tick |
| Task execution (`task_execution.rs`, its worker) | `scheduler_task_executions`, tool approvals | approve, prepare, run, mark uncertain, finalize | crash between intent, call and result |
| Sessions (`core`, `storage`, `runtime`) | sessions, outbox | append, select provider, archive, run provider | a provider call between two saves |
| Delivery (`client-protocol*`, `jetstream`, inbox) | journal, cursors, stream, leases | publish, list after cursor, consume | at-least-once everywhere, leases that lapse |
| Terminals (`pty.rs`) | bounded output per terminal | start, input, cancel, read after cursor | two threads and a waiter with a lossy notification |
| Standalone agents (`standalone_agent.rs`) | bindings, history, capture tasks | start, send, stop, capture | daemon restarts, replaced terminals |
| Agent executions (`execution_supervisor.rs`, terminal client) | registry, context directories | start, frames, input, stop | requests and answers that get lost |
| Git worktrees and merge queue (`git*`, its worker) | worktrees, entries, conflict tasks | allocate, commit, gate, claim, rebase, fast-forward, roll back, reconcile | Git commands outside every transaction |
| Tool gateway (`mcp*`) | approval grants | request, decide, consume, invoke | one grant, three connections, retries |
| Knowledge and contexts (`knowledge*`) | memories, their events | remember, supersede, forget, search, pack | two records change at once; two repositories |
| Workspace index (`workspace-intelligence`) | files, edges, revision | poll, load, save | files change while they are read |
| Tenancy, billing (`tenancy`, `billing*`, `saas-postgres`, `saasd`) | tenants, quotas, subscriptions, usage | bootstrap, reserve, subscribe, webhook, report | READ COMMITTED, a provider between two transactions |
| Native sessions (`sw-codex`, `sw-claude`) | files under `.sessionweft` | bind, hand over, import | plain files, no lock, processes that are killed |
| Certification (`release-gate`, `adapter-certification`, `package.sh`) | evidence, package, verified set | judge, pack, verify | a package read file by file |

The parts that are not modelled are in section 9.

How they interact. The scheduler reads and writes the tables of orchestration, agents
and leases in its own transactions, while the control plane changes the same tables
through services that read first and save under a version. Execution workers write the
ledger and ask the scheduler to finish a claim. Scheduler workers hold lists they read
before. Sessions, workflows and memories put events in one outbox, which a publisher
(local) or several instances (service) empty. Merge workers stand between two tables and
a Git repository. Terminals are shared by standalone agents and agent executions; their
users see them only through a bounded buffer and a cursor. Launchers meet in files.

What makes each part correct, in a sentence:

* orchestration: no update is lost, work waits for its dependencies, attempts are bounded;
* leases: conflicting leases never coexist, an overtaken token is dead, a live lease stays;
* scheduler: tables agree, one active claim per node, an accepted result is final;
* polling: stale lists add no behaviour, and neither work nor stale claims wait for ever;
* execution: one external call per claim at most, and the ledger is what the scheduler hears;
* sessions and delivery: a session reads like one conversation, nothing it did is lost or
  told twice without a reason;
* merge queue: only gated heads reach the target, foreign pushes stay, tables match Git;
* terminals and agents: output is recorded without gap or repetition, ends are told once;
* gateway: one grant, one call, on the server that was validated;
* stores and services: see the properties of `services` in section 3.

## 2. Modules

| Module | Models | On top of |
|---|---|---|
| `Workflow` | `WorkflowExecution`'s transitions as operators on node states | |
| `Orchestration` | `OrchestrationService`: `ReadAndApply`, `Save`, `GiveUp` per caller | `Workflow` |
| `KahnValidation` | the cycle check of `WorkflowDefinition::validate`, step by step | |
| `Scheduler` | claims, agents, commands: one action per committed transaction | `Workflow` |
| `SchedulerPolling` | the tick and its worker | `Scheduler` |
| `TaskExecution` | ledger, approvals, fences, worker loop | `Scheduler` |
| `LockLease` | the SQLite lease table with a clock | |
| `PostgresLocks` | leases and task claims of service mode | instance of `LockLease` as contract |
| `AgentRecords` | agent rows under HTTP callers and the scheduler | `AgentLifecycle` as contract |
| `AgentLifecycle` | abstract: what agent transitions promise | |
| `Sessions` | session rows, commands, `run_provider` | |
| `EventDelivery` | outbox, journal, stream, inbox, consumer | `Sessions` |
| `GitWorktrees` | worktree records around Git commands | |
| `MergeQueue` | gates, entries, coordinator, recovery | `GitWorktrees` |
| `Terminals` | `PtySupervisor` with its threads | |
| `StandaloneAgents` | `StandaloneAgentManager` and its capture tasks | `Terminals` |
| `AgentExecutions` | `AgentExecutionSupervisor` and its client | `Terminals` |
| `ToolGateway` | `AuditedMcpGateway`, policy, grants | |
| `Knowledge`, `ContextPacking` | memories; the context builder | |
| `WorkspaceIndex` | index and polling watcher | |
| `AgentContext` | packages and index together | `ContextPacking`, `WorkspaceIndex` |
| `Tenancy`, `Billing` | quotas and bootstrap; subscriptions and usage | |
| `NativeSessions` | the launchers and their files | |
| `Certification` | from release evidence to a running provider | |
| `MC*` | instances for TLC | |
| `*Proofs` | theorems | |

Abstract specifications and what implements them:

* `Scheduler` (atomic commands) is implemented by `Orchestration` (`CommandsAreAtomic`), by
  `SchedulerPolling` (`PollingImplementsScheduler`) and by `TaskExecution`
  (`ImplementsScheduler`), with identity mappings of the shared tables;
* `LockLease` is implemented by `PostgresLocks` (`PostgresKeepsContract`): the mapping drops
  expired rows;
* `AgentLifecycle` is implemented by `AgentRecords` (`LifecycleIsKept`): the mapping forgets
  versions, heartbeats, columns and events.

Correspondence, where it is not one to one:

* A node is `[status, attempts, owner]`. Node ids are numbers because `ready_nodes` walks a
  map in id order. A claim is its idempotency key, `<<node, attempt>>`.
* `Scheduler` keeps of the lease table what `lock_fence_for` reads: `covers`, the agents
  whose live lease meets a node's requirement. Staleness is a flag that may be set on a
  running agent at any time: the model keeps no heartbeat times.
* `TaskExecution` adds to every scheduler step what it does to fence snapshots, and gives the
  two finishing steps to the workers, the only callers of `complete_claim`/`fail_claim`.
* A lease is named by its token: lock id and token are new with every lease. In `LockLease`
  `freed .. now` are the readings an operation can hold; in `PostgresLocks` a reading may be
  `MaxDelay` late, since it is taken before the wait for a pooled connection.
* A commit of `GitWorktrees` is the set of its ancestors in `history`. Every service call is the
  sequence of its Git commands and transactions in `job`; a fault is a crash, a failed command
  or a time-out after which Git has run nevertheless.
* `EventDelivery` names an outbox row by its place. `repeats` is auxiliary: it records the
  lapsed leases and lost answers that excuse a second hand-over.
* A character of a terminal is a sequence of bytes, so that reads and the bound may cut it.
* In `Tenancy` and `PostgresLocks` a transaction at READ COMMITTED is split at the statements
  that lock or wait. In `Billing` the provider's idempotency (one response per key) is external.
* `NativeSessions` has one action per file read or written whole.
* Paths of `WorkspaceIndex` are numbers because the index walks them in order. `abandoned` is auxiliary: it marks
  that the last update left at a file that failed.
* A hash, digest or signature is modelled by what it is taken of.
* A call that fails and changes nothing is no step.

Operators introduced by a comment "Fault:" are not part of a specification: each is a
plausible bug of a definition that follows it, and replaces it to show that a property
notices. Auxiliary variables (`granted`, `gated`, `pushed`, `working`, `interrupted`, `repeats`,
`acquiredAt`, `answered`, `acknowledged`, `certificates`, `typed`, `calls`) only record history.

## 3. Runs

States are distinct states; times are with two workers.

| Run | Time | Question |
|---|---|---|
| `shared` | 25 s | Do workflows, claims and agents stay consistent whatever agents, operators, leases and recovery do? |
| `ledger` | 40 s | Do workers that race, stall and crash call an adapter at most once, and move the scheduler's tables only as allowed? |
| `settle` | 20 s | Does what is prepared get a result or the mark of uncertainty? |
| `polling` | 110 s | Do ticks over old lists only schedule, and does nothing wait for ever? |
| `merge` | 55 s | Do queue, worktrees and repository agree between any two Git commands, with one fault anywhere? |
| `delivery` | 110 s | Are conversations and their events true and complete, from the racing command to the last reader? |
| `programs` | 160 s | Commands as atomic steps; the cycle check on all graphs; an agent in its terminals; launchers; agent records. |
| `services` | 125 s | Ten components around the core. |
| `approval_gate`, `stale_recovery`, `unguarded_start`, `resent_usage` | seconds | Section 7. |

What the passing runs show:

* **shared.** `TypeOK`; `WorkIsAgreed` (an agent's task is its active claim,
  a scheduled node runs exactly under one); `ClaimsAreDistinct` (one active claim per node, a new
  claim finds its key unused, also when operators fail a node under its claim); `WorkIsOrdered`
  (dependencies, attempts within `max_attempts`, accepted attempts are last, success is quiescent); `ClaimsStartGuarded` (a locked
  node is claimed under a live lease, and no agent gets back what it let go stale).
* **ledger, settle.** `CallsAreLedgered`, `ImplementsScheduler`, `ExecutionsSettle`.
* **polling.** `PollingImplementsScheduler`; `ReadyWorkIsOffered` and `StaleClaimsAreReleased`, both
  as long as no claim is stuck (see `stale_recovery`, whose error ends every tick).
* **merge.** `ForeignPushesKept`; `TargetIsGated` (the target only points to heads that passed both
  gates or that others pushed); `QueueMatchesGit` (one active entry per worktree, ready worktrees
  have their directory, merged heads are on the target, durable heads are the branches);
  `MergingSettles`.
* **delivery.** `ConversationsAreTrue` (one event per version in order, each answer right behind its question); `JournalIsComplete` (no event twice in the journal, no cursor passes over one,
  a published row is in the journal or stream); `HandOversAreExcused` (a second publication or handling has a lapsed
  lease or lost answer behind it); `EventsReachReaders`.
* **programs.** `RowsEventsAndCopiesAgree` and `CommandsAreAtomic` of `Orchestration`;
  `CycleCheckIsExact` over all graphs of three nodes whose lists name a node up to twice;
  `TerminalsAreRecorded` (a final batch is complete, gaps are marked, the history is the output in
  order, input is recorded before it is typed, an agent of one request at a time runs in one terminal); `EndIsFinal`; `CaptureEnds`;
  `SessionsResumeTheirOwn` (a state file leads to the transcript it describes; sessions of Codex stay with the Session
  they were used for unless runs overlap); `AgentRowsAgree` (row, columns, events and acknowledged answers tell one story)
  and `LifecycleIsKept` (agent rows implement `AgentLifecycle`).
* **services.** `LeasesAreExclusive`, `LiveLeasesAreHonoured` (SQLite leases); `PostgresKeepsContract` (those in
  PostgreSQL implement them); `TasksHaveOneHolder`;
  `QuotaIsAccounted` (usage is the number of reservations, each made below the limit of its time, with requests that share
  a key); `BooksFollowProvider` and `ReportedIsFinal` (the provider counted what the ledger says,
  a webhook is applied once, a reported row stays); `CallsAreAuthorized`
  (every approved call is the one use of its grant, audited, on the expected server);
  `ActivityIsAgreed` (links, column, events and searches agree on which memory is active);
  `ContextIsTrue` (packages keep the budget and omit only what did not fit; after an undisturbed poll
  the index is what a rebuild gives, unless an update was left half way: section 7); `ExecutionsAreShown` (a client's screen is the terminal's
  output without repetition, complete when it shows an end); `ReleasesAreCertified`.

`programs` and `services` are composites: the modules in them share no variable, `focus` is chosen in
the initial state and says which of them moves while the others keep one initial state. A behaviour
of the composite is therefore a behaviour of one component, and a property about one component
is checked on all behaviours of that component's instance; nothing is lost by checking them in
one run, since no step of one could touch the state of another. Liveness in `programs` uses only the
fairness of the agents, whose actions are disabled under another focus.

## 4. Bounds and fairness

Why the instances are enough:

* `shared`: two agents are needed for handover and for two claims at once; agents are symmetric. Two
  attempts let a second claim follow a failed, recovered or manually failed one. Node 3 joins a
  task and an approval, needs a lease and is a fallback; node 4 is driven by operators and by claims.
* `ledger`, `settle`: two workers race; one node with two attempts gives two claims in succession.
* `polling`: two pollers hold each other's lists out of date; one node is open to both agents and may
  be retried, the other only to one agent. `MaxUpsets = 1` allows one agent to be stopped or one tick to be
  cut. The flag of staleness itself is not bounded. The scans' limits (100 or more) are above the instance.
* `merge`: two worktrees compete for the target; one life is allocated, committed, merged and cleaned
  up. `MaxCommits = 4` leaves room for two heads, a rebase and a foreign push. `MaxFaults = 1`
  puts one crash, time-out or failure at any point. One worker and `Overlapping = FALSE`: see section 8.
* `delivery`: two callers race on one session of up to four versions; two instances lease rows from each
  other; two deliveries exhaust a message; batches of two are fewer than the up to five rows, whose bound
  `MaxRows = 6` is never met; one fault locally, two in service mode,
  which starts where the last event of a finished session waits in the outbox.
* `programs`: two callers are enough for a lost update and a second workflow shows that saves keep to
  their row. One agent has two terminals in succession, programs print one character of two bytes into a buffer
  of two, one restart, two requests of one client, one after the other. Two runs of each launcher; the two of
  `sw-claude`, which are alike, start in a fixed order. One agent record, in either database, with five events.
* `services`: for leases, a directory, a file in it and a sibling give every relation of two
  resources, three tokens an overtaken and a later lease; two Runtimes and two resources for PostgreSQL;
  two requests with one key and one with another under a limit of one, changed once; two
  calls for one usage key; two invocations with one grant; three memories (a line of two supersessions);
  all packages of three candidates; two files that may import each other, with three contents of which one is refused,
  and three edits, so that a file can fail, be mended and be polled again, one restart;
  two programs one after the other; one gate and
  one role with up to two sign-offs; two manifests, two providers, one edit while a Runtime starts.

Deadlock is checked nowhere: a finished workflow, a full clock, a spent attempt or a bound really
ends the behaviour of these instances.

Fairness, and where the code gives it:

* `TaskExecution`: the worker loop marks stale records, starts what is prepared and finalizes
  results in every pass. A crash or a busy worker disables such a step in between, so that a step
  possible again and again is taken at last: strong fairness. A call that has begun returns or its worker dies:
  weak fairness of `CallAdapter` and `SaveResult`.
* `SchedulerPolling`: a poller's next step (weak fairness of `TickStep`): the loop sleeps at most its
  maximum back-off. Nothing is assumed of agents or claims.
* `MergeQueue`: a worker's next step and the recovery at its start (weak fairness): its loop runs until
  the process stops, and a stopped one is started again.
* `EventDelivery`: publishers, consumers and the journal's reader run in loops; leases and ack
  deadlines lapse by time (weak fairness of each).
* `StandaloneAgents`: the reader and waiter threads and the capture tasks of a terminal run; a wait has
  a time-out. Programs need not end, callers need not call.
* Nothing is assumed of operators, approvals, faults, foreign pushes or clients.

## 5. Proofs

All theorems hold for every value of the constants that meets the named assumptions
(`WorkflowAssumption`, what `validate` guarantees; `SchedulerAssumption`, `ExecutionAssumption`,
`OrchestrationAssumption`, `KahnAssumption`, `LeaseAssumption`, `DelayAssumption`, `TenancyAssumption`, `GatewayAssumption`,
`KnowledgeAssumption`, `PackingAssumption` (finitely many candidates, whose sizes are numbers), `BillingAssumption`, `AgentsAssumption`, `LaunchAssumption`, `DeliveryAssumption`;
`ImportsAreOfContents`, `PathsAreNumbers` and `ContentsArePresent` of the index;
`TerminalAssumption`, that buffer and reads have a size, `ManagerAssumption`, that each terminal has one caller, its
capture task, and that there is a terminal, and `VersionAssumption`, what the
versions of a workflow are; `WorktreeAssumption`, whose starts have room for the first commits of the worktrees, and `QueueAssumption`).

*WorkflowProofs* holds the lemmas about `Workflow`: what a refresh, a completion, a failure and a
decision can do to a node, that attempts never shrink, that a running node is untouched by the fate of
another, and that a transition of one workflow reads and writes no node of another.

*SchedulerProofs.* The inductive invariant is the conjunction of `TypeOK`, whose claims stay within
`max_attempts`, which alone needs `AttemptsBounded`; `TaskIsActiveClaim` in both directions (an agent has
one task, so two active claims never share an agent); `KeysNotReused` (claims exist only for attempts
already counted, so `Assign` overwrites nothing); `OneActiveClaimPerNode`, which needs `HasActiveClaim`
because operators can make a node ready under its claim; and `ClaimsMatchNodes` for the nodes operators
leave alone.

On top of it, what a node waits for, what its claims ended with
and what a finished workflow may still hold: `WorkIsOrdered`, and `ClaimsStartGuarded` as an action property.
The strengthening is needed because `CompletedOnce` speaks of the end of claims, whereas the transitions look
at nodes.

The same module is about what drives the scheduler.

* Polling: every step of a tick is a step of `Scheduler` or leaves its
  variables alone; the guards the scheduler evaluates again in its transaction make the lists irrelevant
  (`PollingIsScheduling`).
* Execution: each claim is in one of a few situations that relate record, worker, calls, approval
  and scheduler claim (`LedgerInductive`); `CallsAreLedgered` and the refinement `ImplementsScheduler` follow.

*OrchestrationProofs*: the invariant says that a caller's copy whose expected version is still the row's is the effect of one
permitted command on that row (`CopiesAreEffects`), that versions and events have no gap, and that attempts stay within
bounds. Saving either fails the version check or commits exactly that command. Copies of other workflows are
carried by the locality lemmas; copies of the same one fall behind with the version. From it follow
`RowsEventsAndCopiesAgree` and the refinement `CommandsAreAtomic`.

The same module proves the cycle check every definition passes first (`KahnInv`). It names the set `P` of nodes popped so
far: what is left of a node's in-degree is the number of entries of its list that name a node outside `P`, and what is still to
visit of the node popped last; who has none left is in `P` or, once, in the queue; and every non-empty part of `P`
has a node with no dependency in it, since a node popped later waits for nobody outside `P`. When the queue is
empty, either all nodes are in `P` and the definition is acyclic, or those left all wait for one another. Counting entries, of
which a popped node takes away as many as the list repeats it, is what makes repeated names harmless (`CycleCheckStaysExact`).

*LocalStateProofs* is about three kinds of state that outlive their writers; they share nothing.

* Leases: the invariant adds that every token in the table or granted is at most `sequence`, and that
  every row stems from a grant. The core is `AcquireLock`: a conflicting older lease is unexpired, which the guard
  excludes, or expired, in which case its row goes; and no later action creates a row with an old token.
  `LiveLeasesAreHonoured` is an action property of the same invariant.
* Agent records (`RecordsInv`): the events of an agent tell its row field by field, each field by the last event about
  it (`Logged`). What a caller holds between its two halves is the effect of its event on the row as long as
  nobody has saved since (`HeldIsFresh`), which is what the version check asks; and an acknowledged answer is the event at
  the place its version names. From it `AgentRowsAgree` and the refinement `LifecycleIsKept`.
* Launchers (`NativeInv`): names in files point to sessions and transcripts that exist; a state of Claude's, on disk or
  in a launcher's memory, describes the transcript it names, since the import comes before the save. For Codex, as
  long as no runs have overlapped: the launcher that runs holds the bindings of the file, and only its own session has
  changed since it looked (`RunIsApart`), so that the session it finds afterwards is its own. From it `SessionsResumeTheirOwn`.

*MergeQueueProofs* has two invariants.

* `GInv`, for any number of workers and however commits and merges overlap: the shapes of the tables, the
  commit graph (ancestors of ancestors are ancestors), each record and what is on disk for it (`RecordOK`), each
  entry and its gates (`EntryOK`), and each worker (`WorkerOK`). Two parts carry the weight. The fast-forward is
  a compare and swap to a descendant, so that `pushed` stays among the target's ancestors; the rollback is one to an
  ancestor, which is safe because of `CanGoBack`: as long as everything pushed is below the merged head, it is
  below the target before it, since a push between the two makes a commit that is not. And `TargetIsGated` needs that
  a rebased head reaches a merge only through gates that were reset. From it `TargetStaysGated`, `PushesAreKept` and
  `QueueStaysConsistent` (types, one active entry, ready worktrees on disk): more than the run, which has one worker.
* `SInv`, for one worker and merges that overlap no commit of their worktree (section 8 says what happens
  otherwise): a merge has its entry to itself (`MergeOK`), and whatever is unfinished in a worktree has its worker, its call
  or a mark of interruption behind it (`TreeOK`, `HeadOK`). From it `QueueAgreesWithGit`.

Each action has one lemma that proves both at once (`Keeps`).

*DeliveryProofs* has two invariants, since what callers do to sessions does not depend on what becomes of the events.

* `SessionsInv`: a copy that a caller may still save is the next row of its session, with the events that tell the step,
  unless somebody has saved since it was read, in which case its expected version is behind (`SaveIsNext`); what `run_provider`
  committed is still the row, or the row has moved on (`QuestionIsLast`), so that an answer that gets through stands
  behind its own question. With it the outbox tells the row of every session (`RowIsTold`), from which
  `ConversationsAreTrue`; and the action property `HistoryOnlyGrows`, which no run lists.
* `DeliveryKept`: a repetition is counted before it happens. The copies of a row in the stream, the publishers that
  have the row in a batch and have not yet handed it over, and the leave to lease it are together at most one more than
  the lapses and lost answers recorded for it (`SendsExcused`); so are the successes of an event's handler, the
  instances that work on it under a claim, and the leave to claim it (`HandlingsExcused`). A crash only takes from
  either sum: the lease or claim it leaves behind gives the leave back when it lapses, and that lapse is counted.
  What was handed over is in the journal or stream before it is marked (`HandedIsKept`), and a reader's older cursor
  is never ahead of the one it follows. From it `JournalIsComplete` and `HandOversAreExcused`.

*ServiceProofs* is about services that share no state, six and the two parts of an agent's context.

* PostgreSQL: tokens of task claims name one claim, and a claim nobody may overtake yet is the task's row;
  `TasksHaveOneHolder` follows, also with late readings of the Runtimes' clocks, because the takeover compares
  with the database's clock. `PostgresHonoursContract` is the refinement of `LockLease`, under `MaxDelay = 0`: no
  acquisition has read a clock ahead of the present one, so that a lease an operation finds alive is one the
  contract still has. With late readings it is false (section 7, `LiveLeasesAreCompatible`).
* Tenants: only the request that holds the row lock counts, and what it has read is still the row
  (`QuotaInv`); then each new reservation makes the set of counts one longer.
* Gateway: an invocation about to call is either allowed outright or holds a grant that it consumed itself, for its
  tool, with the event in the audit trail, and that no call has used (`GatewayInv`). A grant has one consumer, so
  the call that uses it leaves no other holder.
* Knowledge: a record is written when, and only when, an event creates it, and inactive when an event ends it, in either
  repository (`RecordIsTold`); with the lines of supersession this makes `ActivityIsAgreed` inductive. That a record which
  was superseded or forgotten stays inactive (`InactiveForEver`) is proved only: no run lists it.
* Billing: the row of a subscription has changed once for the purchase and once for each event that reached it (`BooksInv`);
  a usage row counts what the provider counted under its key (`RowIsCounted`), and whoever is between the two
  transactions knows a row that can only have grown since (`CallHasRow`). From it `BooksFollowProvider` and, as an action
  property, `ReportedIsFinal`: every transition asks whether the row is reported already.
* Certification: a package has the shape of a level its evidence passes; what a Runtime holds as certified is a report that
  speaks for the adapter in this build, with no required gate both passed and failed (`SpeaksFor`), whatever was changed in the
  package while it was read. From it `ReleasesAreCertified`.
* Packing: that a sum over a finite set exists and grows by the member that joins it is proved from the definition of
  the fold the model uses (`SumIsSetSum`); it needs no induction theorem of the library, only that sets of
  numbers have a least member. `PackingInv` says that what was taken or left out comes before what is pending. So a required candidate is packed only
  after required ones (`RequiredFirst`), whose sum was compared with the budget before packing began; and what was left out would
  not have fitted beside what comes before it, to which nothing is added later (`PackagesStayTight`).
* Index: as long as no file was edited since a poll began, what it has seen, what it has put into the index, and what it leaves
  there are the files on disk (`FollowsDisk`), although edits may come between any two files; edges and revision
  are those of the indexed files whenever no update is half way or was left half way (`IndexInv`). Which dependents are indexed
  again plays no part in it. From it `IndexAlwaysTellsTheTruth`.

*TerminalProofs* has an invariant for the terminals, which holds in both programs that own some, and one for each of these.

* `TerminalInv`: cursors are consecutive, so that what a client gets after its cursor is a suffix of the buffer
  (`AfterIsSuffix`); a buffer that lost something has a chunk that says so (`Marked`) and is over its limit by the
  replacements in its last chunk only, which needs that `Keep` leaves room (`KeepLeavesRoom`); and a terminal has
  exited or failed only if both threads are through, whichever was first (`EndInv`). A step starts, extends or ends a
  terminal (`Develops`); from that follows `EndsAreFinal`.
* `ExecutionInv`: the registry names terminals that were started in prepared contexts, no two clients wait for the same
  start (`PendingApart`), and a client has on its screen, in order, what the buffer holds up to its cursor (`ScreenInv`). An end
  it was told is true of the terminal, and since an ended terminal gets no more output, a client that fetched the output
  after it was told the end has all of it. Whatever others do keeps this (`ClientKept`), so that each action is
  left with the client it moves. From it `ExecutionsStayShown`.
* `AgentInv`: a capture task stands at the cursor up to which the history records its terminal (`RecordedUpto`), a
  wait that is answered has read to the end of the buffer of that moment, and one that was told an end has read
  after it, so that its batch is the last (`CaptureOK`, `BatchOK`). A program that was started and is not yet captured belongs to one
  request and is in no record (`RequestOK`, `StartsApart`). Entries of others change nothing of this (`QuietStep`), nor
  do the terminals (`CaptureKept`), so that each action is left with the request or the task it moves.
  From it `OutputStaysRecorded`. For one request, a running terminal is its agent's or the request's own, and nothing is
  spawned for an agent whose terminal runs (`Owned`); from this injection `TerminalsStayRecorded`.

## 6. Only model-checked

Liveness under fairness and `ENABLED` (`ExecutionsSettle`, `ReadyWorkIsOffered`, `StaleClaimsAreReleased`,
`MergingSettles`, `EventsReachReaders`, `CaptureEnds`) are out of the provers' reach. Every invariant, action
property and refinement a passing run checks is also a theorem.

Two theorems have a hypothesis the run shares: `TerminalsStayRecorded` is for one request at a time, because of its part
`OneRunningTerminal` (section 8; `OutputStaysRecorded`, the rest of it, is for any number), and
`PostgresKeepsContract` is proved for clocks read without delay.

## 7. Where the code departs from its documents

By a run that TLC refutes (quotes in `PROJECT.json`):

* `approval_gate`: a fallback becomes ready whatever it depends on, an undecided approval included.
* `stale_recovery`: once an approval was rejected, claims still active in that workflow cannot be recovered or
  finished, their agents keep the task, and `recover_stale_claims` fails on them in every pass.
* `unguarded_start`: claim and fence are validated at preparation, not when the action starts.
* `resent_usage`: a reported usage record is sent to the provider again by a call that read it before.

Stated in a module, and false of the code, but without a run of their own:

| Property | Module | What the code does |
|---|---|---|
| `FenceCoversResource` | `LockLease` | `validate_fence` (orchestration-sqlite/src/lib.rs:515) accepts a lease of a part of the resource; docs/04-adr/0006-hierarchical-lock-leases.md:19 |
| `ResultsAreFinalized` | `TaskExecution` | the result of a released claim is never finalized and scanned for ever (scheduler-sqlite/src/task_execution.rs:354); docs/05-specs/provider-tool-execution.md:26 |
| `RunningHasWork` | `Orchestration` | a node that failed for good and a sibling that completes afterwards leave the workflow Running with nothing to run (orchestration/src/lib.rs:328); docs/05-specs/production-readiness-checklist.md:54 |
| `RebasedHeadsAreValidated` | `MergeQueue` | a rebased head is recorded without asking whether the fence is still live or the worktree unchanged (git-sqlite/src/merge_execution.rs:205); docs/05-specs/git-merge-queue.md. Its gates are reset all the same, which is what `TargetIsGated` rests on |
| `PoisonIsDeadLettered` | `EventDelivery` | an event whose last delivery ends in a crash, or whose dead letter cannot be published, is in no queue (jetstream/src/lib.rs:223); docs/10-deployment/service-mode-operations.md:79 |
| `OutputIsCaptured` | `StandaloneAgents` | output printed after a cancel is not recorded (standalone_agent.rs:720); README.md:132 |
| `LiveLeasesAreCompatible` (with `MaxDelay` 1) | `PostgresLocks` | a heartbeat reads the clock before it waits up to 10 s for a connection (service-postgres/src/orchestration.rs:265, database.rs:30) and revives a lease that has been passed on; docs/08-security/threat-model.md:45 |
| `SessionsWithinLimit` | `Tenancy` | two requests with one key create two sessions under one reservation (saasd/src/main.rs:302); docs/05-specs/multitenant-saas-and-billing.md:34 |
| `RevisionIsAlwaysDerived` | `WorkspaceIndex` | `update_paths` puts files into the index one by one and leaves with the first that fails (workspace-intelligence/src/lib.rs:140); if that file is then as it was, the next poll finds nothing to do and succeeds with the old edges and revision (line 126); docs/05-specs/workspace-intelligence.md:24 |
| `OneActiveExecution` | `AgentExecutions` | `start` looks neither at the workflow's version nor at other executions (execution_supervisor.rs:47); docs/03-rfcs/runtime-owned-agent-workflows.md, invariant 8 |

Also: `ready_nodes` follows node ids, not definition order (docs/03-rfc/0005-durable-scheduler-claims.md:35); an
approval that is a fallback becomes ready and can be claimed like a task (docs/03-rfc/0002-orchestration-and-locking.md:63);
the tool policy stops at the first permission that is not allowed (execution/src/lib.rs:497; docs/03-rfc/0004:64); the index
fails a whole poll for one file (workspace-intelligence/src/lib.rs:136; docs/05-specs/workspace-intelligence.md:24); `sw-claude`
imports a native conversation (docs/03-rfc/agent-wrapper-server.md).

## 8. Other behaviour worth knowing

Seen while modelling; the instances above are chosen with these in mind.

* *Merge queue.* A commit that overlaps the merge of its worktree loses the durable head or undoes a rebase, hence
  `Overlapping = FALSE`; two workers can roll back each other's merge, hence one worker. An entry whose worker died with a dead
  fence stays Merging and blocks the queue (`MergingSettles` excludes it); one claimed but never begun is not
  reconciled. A retry after cleanup recreates a directory. No application calls the worktree or queue services.
* *Delivery.* The outbox scan is limited from the oldest row on: rows that cannot be published delay all
  behind them. An answer that meets a version conflict is lost with its usage.
* *Gateway.* Gateways other than the audited one check grants but never consume them; a consumed grant is spent even
  if the limit or transport then refuses; registering a tool replaces it before reporting "already registered".
* *Agents.* Concurrent starts of one agent both spawn (the `programs` run has one request at a time); an old capture task can
  overwrite a new binding. Writes of the API name a version, so that any scheduler write in between makes them conflict.
* *Executions.* A cancelled execution shows Stopping for ever; a lost answer to start leaves an execution nobody knows.
* *Tenancy, billing.* Reserved quota is never given back by the service; a crash after the reservation leaks it; a crash in the
  bootstrap leaves a tenant without a token whose slug is taken. A webhook that arrives before its subscription was saved is lost,
  and webhooks out of order leave the older status.
* *Launchers.* Two runs of `sw-codex` may bind each other's session or lose a binding (`ConversationsStayApart`
  speaks of runs that do not overlap; runs of `sw-claude` may).
* *Certification.* Only a role's first sign-off counts; the materializing script writes every required gate as passed; only
  providers ask for a certificate, and the verified set is read once per process.
* *Polling.* An agent that turns stale and back between scan and recovery fails a whole tick.

## 9. Not modelled

Components without a module: providers and the task runner (environment of `TaskExecution` and `Sessions`), plugins
and the isolation of tool servers (configuration of sandboxes, no state), PostgreSQL schemas (their uniqueness is a guard of
inserting actions), daemons' start-up, routing and command lines (thin fronts of the components), and documentation,
benchmarks and drills.

In the parts that are modelled: creation of workflows and registration of plans, requirements and specs (they exist from
the start), the limits of scans, `create_session`'s validation, the unguarded `claim_next` that no worker calls, `try_begin_event`, which
nothing calls, resizing of terminals, the client's screen limit, scores, filters and expiry of memories, members and roles of
tenants, verification of webhook signatures, and texts and formats throughout.

## 10. Left to do

1. A run of `merge` with two workers and overlapping commits, with the properties the proofs give for them.
2. Creation of workflows and registration of plans as actions of `Scheduler`, with their proofs.
3. Scan limits in `SchedulerPolling`, and in service mode of `EventDelivery`, below the number of rows.
4. Memories that expire and filters of a search.
