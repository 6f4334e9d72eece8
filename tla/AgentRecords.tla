---------------------------- MODULE AgentRecords ----------------------------
(***************************************************************************)
(* AgentRecord and AgentService of crates/sessionweft-execution over the   *)
(* tables of sessionweft-execution-sqlite and sessionweft-service-postgres.*)
(* HTTP callers read an agent, apply an operation to their copy and save   *)
(* it under the version they named; the scheduler, which knows SQLite      *)
(* only, assigns, releases and fails agents in transactions of its own.    *)
(* A row is the JSON of the agent with columns next to it: the update is   *)
(* guarded by the version column, readers parse the JSON.                  *)
(***************************************************************************)
EXTENDS Naturals, Sequences, FiniteSetsExt

CONSTANTS
  AgentIds,      \* agents that may be registered
  TaskIds,       \* tasks the scheduler assigns
  ApiCallers,    \* HTTP callers
  HomeOf,        \* [AgentIds -> the Session the agent belongs to]
  PathOf,        \* [ApiCallers -> the Session in the caller's path]
  InPostgres,    \* the agents that are kept in PostgreSQL
  Timeout,       \* heartbeat_timeout_seconds
  MaxEvents,     \* bound: events of all agents
  MaxNow         \* bound: seconds

ASSUME AgentsAssumption == InPostgres \subseteq AgentIds /\ Timeout \in Nat

VARIABLES
  data,          \* [AgentIds -> the AgentRecord in data_json]
  columns,       \* [AgentIds -> the columns next to it]
  agentEvents,        \* [AgentIds -> events of the agent, in the order of commits]
  held,          \* [ApiCallers -> what the caller knows and holds]
  acknowledged,  \* the saves that were answered with success
  seconds

recordVars == <<data, columns, agentEvents, held, acknowledged, seconds>>

NobodyYet == "nobody"
NoWork == "none"

Unregistered == [version |-> 0, status |-> NobodyYet, task |-> NoWork, heartbeat |-> 0]
Nothing == [at |-> NobodyYet, id |-> NobodyYet, expected |-> 0, copy |-> Unregistered, op |-> NobodyYet]

-----------------------------------------------------------------------------
(* AgentRecord: what each operation requires and does.                     *)

NewAgent == [Unregistered EXCEPT !.status = "registered", !.heartbeat = seconds]

EnsureVersion(row, expected) == row.version = expected
EnsureRunning(row, expected) == EnsureVersion(row, expected) /\ row.status = "running"

Advanced(row) == [row EXCEPT !.version = @ + 1]

CanStart(row, expected) == EnsureVersion(row, expected) /\ row.status \in {"registered", "stopped"}
StartedAgent(row, time) == Advanced([row EXCEPT !.status = "running", !.heartbeat = time])

CanBeat(row, expected) == EnsureRunning(row, expected)
Beaten(row, time) == Advanced([row EXCEPT !.heartbeat = time])

CanAssign(row, expected) == EnsureRunning(row, expected) /\ row.task = NoWork
Assigned(row, task) == Advanced([row EXCEPT !.task = task])

CanRelease(row, expected) == EnsureRunning(row, expected) /\ row.task # NoWork
Released(row) == Advanced([row EXCEPT !.task = NoWork])

FailedAgent(row) == Advanced([row EXCEPT !.status = "failed", !.task = NoWork])

\* Fault: an agent is stopped with a task in its hands.
CanStopWorking(row, expected) == EnsureRunning(row, expected)

CanStop(row, expected) == EnsureRunning(row, expected) /\ row.task = NoWork
StoppedAgent(row) == Advanced([row EXCEPT !.status = "stopped"])

IsStaleAt(row, time) == row.status = "running" /\ time > row.heartbeat + Timeout

\* Bound, in the guard of every save.
InBound == MapThenSumSet(LAMBDA a : Len(agentEvents[a]), AgentIds) < MaxEvents

AgentEvent(op, task, time, by) == [op |-> op, task |-> task, time |-> time, by |-> by]

-----------------------------------------------------------------------------
(* The repositories: one transaction each.  PostgreSQL has no column for   *)
(* the task.                                                               *)

SqliteColumns(row) == [version |-> row.version, status |-> row.status, task |-> row.task]
PostgresColumns(row) == [version |-> row.version, status |-> row.status, task |-> NoWork]

Columns(a, row) == IF a \in InPostgres THEN PostgresColumns(row) ELSE SqliteColumns(row)

InsertEvents(a, event) == agentEvents' = [agentEvents EXCEPT ![a] = Append(@, event)]

SqliteCreate(a, row) ==
  /\ a \notin InPostgres /\ columns[a].status = NobodyYet
  /\ data' = [data EXCEPT ![a] = row]
  /\ columns' = [columns EXCEPT ![a] = SqliteColumns(row)]

PostgresCreate(a, row) ==
  /\ a \in InPostgres /\ columns[a].status = NobodyYet
  /\ data' = [data EXCEPT ![a] = row]
  /\ columns' = [columns EXCEPT ![a] = PostgresColumns(row)]

\* Fault: the update does not ask for the version.
SqliteSaveAnyway(a, expected, row) ==
  /\ a \notin InPostgres
  /\ data' = [data EXCEPT ![a] = row]
  /\ columns' = [columns EXCEPT ![a] = SqliteColumns(row)]

\* UPDATE ... WHERE id = ? AND version = ?
SqliteSave(a, expected, row) ==
  /\ a \notin InPostgres /\ columns[a].version = expected
  /\ data' = [data EXCEPT ![a] = row]
  /\ columns' = [columns EXCEPT ![a] = SqliteColumns(row)]

PostgresSave(a, expected, row) ==
  /\ a \in InPostgres /\ columns[a].version = expected
  /\ data' = [data EXCEPT ![a] = row]
  /\ columns' = [columns EXCEPT ![a] = PostgresColumns(row)]

-----------------------------------------------------------------------------
(* The HTTP callers.                                                       *)

RegisterAgent(a) ==
  /\ data[a] = Unregistered /\ InBound
  /\ SqliteCreate(a, NewAgent) \/ PostgresCreate(a, NewAgent)
  /\ InsertEvents(a, AgentEvent("registered", NoWork, seconds, NobodyYet))
  /\ UNCHANGED <<held, acknowledged, seconds>>

\* ensure_scope.
InScope(c, a) == HomeOf[a] = PathOf[c]

GetAgent(c, a) ==
  /\ held[c].at = NobodyYet
  /\ data[a] # Unregistered /\ InScope(c, a)
  /\ held' = [held EXCEPT ![c] = [Nothing EXCEPT !.at = "knows", !.id = a,
                                                 !.expected = data[a].version]]
  /\ UNCHANGED <<data, columns, agentEvents, acknowledged, seconds>>

\* AgentService::mutate up to the save: the row as it is now, the operation at
\* the version the caller named, and the copy it leaves.
Mutate(c, op, allowed, copy) ==
  /\ held[c].at = "knows" /\ InScope(c, held[c].id)
  /\ allowed /\ InBound
  /\ held' = [held EXCEPT ![c].at = "holds", ![c].copy = copy, ![c].op = op]
  /\ UNCHANGED <<data, columns, agentEvents, acknowledged, seconds>>

StartAgent(c) ==
  LET row == data[held[c].id] IN
  Mutate(c, "started", CanStart(row, held[c].expected), StartedAgent(row, seconds))

HeartbeatAgent(c) ==
  LET row == data[held[c].id] IN
  Mutate(c, "heartbeat", CanBeat(row, held[c].expected), Beaten(row, seconds))

StopAgent(c) ==
  LET row == data[held[c].id] IN
  Mutate(c, "stopped", CanStop(row, held[c].expected), StoppedAgent(row))

Stored(a, expected, row) == SqliteSave(a, expected, row) \/ PostgresSave(a, expected, row)

\* ... and the save with its answer: the caller knows the new version.
SaveCopy(c) ==
  LET a == held[c].id  copy == held[c].copy IN
  /\ held[c].at = "holds"
  /\ Stored(a, held[c].expected, copy)
  /\ InsertEvents(a, AgentEvent(held[c].op, NoWork, copy.heartbeat, c))
  /\ acknowledged' = acknowledged \cup {<<c, a, copy.version, held[c].op>>}
  /\ held' = [held EXCEPT ![c] = [Nothing EXCEPT !.at = "knows", !.id = a, !.expected = copy.version]]
  /\ UNCHANGED seconds

\* VersionConflict, an operation that is refused, or a caller that went away.
CallerGivesUp(c) ==
  /\ held[c].at # NobodyYet
  /\ held' = [held EXCEPT ![c] = Nothing]
  /\ UNCHANGED <<data, columns, agentEvents, acknowledged, seconds>>

-----------------------------------------------------------------------------
(* The scheduler: load_agent, the operation at the version it read, and    *)
(* save_agent, in one transaction with the workflow and the claim.         *)

SaveAgent(a, row, op, task) ==
  /\ SqliteSave(a, data[a].version, row)
  /\ InsertEvents(a, AgentEvent(op, task, seconds, NobodyYet))
  /\ UNCHANGED <<held, acknowledged, seconds>>

LoadAgent(a) == a \notin InPostgres /\ data[a] # Unregistered /\ InBound

ClaimAssigns(a, t) ==
  /\ LoadAgent(a) /\ CanAssign(data[a], data[a].version)
  /\ \A b \in AgentIds : data[b].task # t
  /\ SaveAgent(a, Assigned(data[a], t), "assigned", t)

FinishReleases(a) ==
  /\ LoadAgent(a) /\ CanRelease(data[a], data[a].version)
  /\ SaveAgent(a, Released(data[a]), "released", data[a].task)

\* recover_stale_claim, for an agent that owns the task of the claim.
RecoveryFails(a) ==
  /\ LoadAgent(a) /\ data[a].task # NoWork
  /\ IsStaleAt(data[a], seconds)
  /\ SaveAgent(a, FailedAgent(data[a]), "failed", NoWork)

TimePasses ==
  /\ seconds < MaxNow
  /\ seconds' = seconds + 1
  /\ UNCHANGED <<data, columns, agentEvents, held, acknowledged>>

-----------------------------------------------------------------------------
RecordsInit ==
  /\ data = [a \in AgentIds |-> Unregistered]
  /\ columns = [a \in AgentIds |-> PostgresColumns(Unregistered)]
  /\ agentEvents = [a \in AgentIds |-> <<>>]
  /\ held = [c \in ApiCallers |-> Nothing]
  /\ acknowledged = {}
  /\ seconds = 0

\* The operations of mutate_agent.
Operate(c) == /\ held[c].at = "knows"
              /\ (StartAgent(c) \/ HeartbeatAgent(c) \/ StopAgent(c))

RecordsNext ==
  \/ \E c \in ApiCallers :
       \/ Operate(c) \/ SaveCopy(c) \/ CallerGivesUp(c)
       \/ \E a \in AgentIds : GetAgent(c, a)
  \/ \E a \in AgentIds :
       \/ RegisterAgent(a) \/ FinishReleases(a) \/ RecoveryFails(a)
       \/ \E t \in TaskIds : ClaimAssigns(a, t)
  \/ TimePasses

RecordsSpec == RecordsInit /\ [][RecordsNext]_recordVars

-----------------------------------------------------------------------------
(* Properties *)

AgentStatuses == {"registered", "running", "stopped", "failed"}

RecordsTypeOK ==
  /\ data \in [AgentIds -> [version : Nat, status : AgentStatuses \cup {NobodyYet},
                           task : TaskIds \cup {NoWork}, heartbeat : 0 .. seconds]]
  /\ \A c \in ApiCallers : held[c].at \in {NobodyYet, "knows", "holds"}

StatusTold ==
  [registered |-> "registered", started |-> "running", failed |-> "failed", stopped |-> "stopped"]

\* The last event of these types.
LastOf(log, types) ==
  {i \in DOMAIN log : /\ log[i].op \in types
                      /\ \A j \in DOMAIN log : i < j => log[j].op \notin types}

\* The row is what the events say, each field by the last event about it, and
\* its version counts them.
Follows(row, log) ==
  /\ row.version = Len(log) - 1
  /\ \A i \in LastOf(log, DOMAIN StatusTold) : row.status = StatusTold[log[i].op]
  /\ \A i \in LastOf(log, {"registered", "started", "heartbeat"}) : row.heartbeat = log[i].time
  /\ \A i \in LastOf(log, {"registered", "assigned", "released", "failed"}) :
       row.task = IF log[i].op = "assigned" THEN log[i].task ELSE NoWork

(***************************************************************************)
(* The agent is what its events say: no save of a caller undoes what the   *)
(* scheduler did to the agent between the caller's read and its save, or   *)
(* the reverse (AgentRepository::save and save_agent of the scheduler      *)
(* share one table).                                                       *)
(***************************************************************************)
RecordFollowsEvents ==
  \A a \in AgentIds : agentEvents[a] # <<>> => Follows(data[a], agentEvents[a])

\* The columns the scans and guards use say what the JSON next to them says.
ColumnsFollowData == \A a \in AgentIds : columns[a] = Columns(a, data[a])

\* Two callers that named one version are not both told that they succeeded,
\* and what a caller was told is the event at the version it was told of.
AcknowledgedIsLogged ==
  \A save \in acknowledged :
    /\ agentEvents[save[2]][save[3] + 1].op = save[4]
    /\ agentEvents[save[2]][save[3] + 1].by = save[1]

\* An agent whose heartbeat was accepted is not failed before its timeout has
\* passed since the heartbeat was made (heartbeat against recover_stale_claim).
FailedWereSilent ==
  \A a \in AgentIds : \A i, j \in DOMAIN agentEvents[a] :
    i < j /\ agentEvents[a][i].op \in {"started", "heartbeat"} /\ agentEvents[a][j].op = "failed"
      => agentEvents[a][j].time > agentEvents[a][i].time + Timeout

\* A caller changes agents of its own Session only (get_agent, ensure_scope).
CallersStayInScope == \A save \in acknowledged : InScope(save[1], save[2])

(***************************************************************************)
(* The row, its columns, its events and the answers tell one story.        *)
(***************************************************************************)
AgentRowsAgree ==
  /\ RecordsTypeOK /\ RecordFollowsEvents /\ ColumnsFollowData
  /\ AcknowledgedIsLogged /\ FailedWereSilent /\ CallersStayInScope

(***************************************************************************)
(* Read, apply and save, mixed with the scheduler's transactions, are the  *)
(* atomic transitions of AgentLifecycle.                                   *)
(***************************************************************************)
Lifecycle == INSTANCE AgentLifecycle WITH
  agents <- [a \in AgentIds |-> [status |-> data[a].status, task |-> data[a].task]]

LifecycleIsKept == Lifecycle!LifecycleSpec
=============================================================================
