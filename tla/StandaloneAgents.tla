-------------------------- MODULE StandaloneAgents --------------------------
(***************************************************************************)
(* StandaloneAgentManager of sessionweft-agentd: agents of one Session run *)
(* in terminals of the PtySupervisor; a capture task per terminal copies   *)
(* its output into the history and the shared Session.  The bindings and   *)
(* the history are in SQLite, the terminals and the tasks die with the     *)
(* daemon.  Any statement may fail: it ends a request, a capture task goes *)
(* on without it.  context.md, which nothing here reads back, is left out. *)
(***************************************************************************)
EXTENDS Terminals

CONSTANTS
  Agents,       \* agents that take direct input
  Requests,     \* HTTP requests in flight
  MaxRequests,  \* bound: how many requests are made
  MaxRestarts   \* bound: how often the daemon restarts

\* Each terminal has a capture task, and there is one to start a program in.
ASSUME ManagerAssumption == Callers = Ptys /\ Ptys # {}

VARIABLES
  binding,      \* [Agents -> the row of standalone_agent_bindings]
  active,       \* standalone_agent_session_state
  history,      \* standalone_agent_history
  messages,     \* the messages of the shared Session
  tasks,        \* [Agents -> capture_tasks]
  capture,      \* [Ptys -> where the capture task of the terminal is]
  request,      \* [Requests -> where the request is]
  inputs,       \* [Ptys -> the messages written to the program]
  used,         \* the requests and restarts so far
  unrecorded    \* auxiliary: output that was captured but not in the history

requestVars == <<request, inputs, used>>
managerVarsButRequest == <<binding, active, history, messages, tasks, capture, inputs, used, unrecorded>>
managerVars == <<managerVarsButRequest, request>>
agentVars == <<terminalVars, managerVars>>

NoBinding == [pty |-> None, cursor |-> 0, status |-> None]
NoCapture == [at |-> "idle", agent |-> None, cursor |-> 0]
NoRequest == [op |-> None, at |-> "idle", agent |-> None, row |-> NoBinding, pty |-> None, id |-> 0]
UserEntry(r) == [role |-> "user", pty |-> None, from |-> request[r].id, upto |-> request[r].id]
SystemEntry == [role |-> "system", pty |-> None, from |-> 0, upto |-> 0]
AgentEntry(p) == [role |-> "assistant", pty |-> p, from |-> capture[p].cursor, upto |-> NextCursorOf(waits[p])]
LostEntry(p) == [AgentEntry(p) EXCEPT !.role = "lost"]

-----------------------------------------------------------------------------
(* What the requests and the capture tasks do to the tables.               *)

UpsertBinding(a, p) == binding' = [binding EXCEPT ![a] = [pty |-> p, cursor |-> 0, status |-> "running"]]
UpdateProgress(a, cursor, status) == binding' = [binding EXCEPT ![a].cursor = cursor, ![a].status = status]
SetActive(a) == active' = a
AppendHistory(entry) == history' = Append(history, entry)

(* append_shared_message: reads the Session and appends at its version;    *)
(* the fifth time that somebody else was faster it fails.                  *)
AppendShared(entry) == messages' = Append(messages, entry)

Goto(r, at) == request' = [request EXCEPT ![r].at = at]
Answer(r) == request' = [request EXCEPT ![r] = NoRequest]

IsRunning(p) == p # None /\ terminal[p].status = "running"

-----------------------------------------------------------------------------
(* Requests.  The handler has read the Session first.                      *)

Request(r, op, a) ==
  /\ request[r] = NoRequest /\ used.requests < MaxRequests
  /\ used' = [used EXCEPT !.requests = @ + 1]
  /\ request' = [request EXCEPT ![r] = [NoRequest EXCEPT !.op = op, !.at = op, !.agent = a,
                   !.id = used.requests + 1]]
  /\ UNCHANGED <<binding, active, history, messages, tasks, capture, inputs, unrecorded, terminalVars>>

(* start_or_resume: a binding whose terminal is running is kept.           *)
StartLooksUp(r) ==
  LET row == binding[request[r].agent] IN
  /\ request[r].at = "start"
  /\ IF IsRunning(row.pty)
     THEN SetActive(request[r].agent) /\ Answer(r)
     ELSE request' = [request EXCEPT ![r].at = "spawn", ![r].row = row] /\ UNCHANGED active
  /\ UNCHANGED <<binding, history, messages, tasks, capture, inputs, used, unrecorded, terminalVars>>

(* PtySupervisor::start gives every terminal an id of its own.             *)
NewPty == CHOOSE p \in Ptys : process[p] = NoProcess \/ \A q \in Ptys : process[q] # NoProcess

StartSpawns(r) ==
  /\ request[r].at = "spawn"
  /\ StartPty(NewPty)
  /\ request' = [request EXCEPT ![r].at = "bind", ![r].pty = NewPty]
  /\ UNCHANGED managerVarsButRequest

StartBinds(r) ==
  /\ request[r].at = "bind"
  /\ UpsertBinding(request[r].agent, request[r].pty)
  /\ Goto(r, "activate")
  /\ UNCHANGED <<active, history, messages, tasks, capture, inputs, used, unrecorded, terminalVars>>

StartActivates(r) ==
  /\ request[r].at = "activate"
  /\ SetActive(request[r].agent)
  /\ \/ AppendHistory(SystemEntry) /\ Goto(r, "bootstrap")
     \/ UNCHANGED history /\ Answer(r)
  /\ UNCHANGED <<binding, messages, tasks, capture, inputs, used, unrecorded, terminalVars>>

(* A program that has ended already takes no bootstrap: the request fails  *)
(* and its output is not captured.                                         *)
StartBootstraps(r) ==
  LET p == request[r].pty  a == request[r].agent IN
  /\ request[r].at = "bootstrap"
  /\ IF IsRunning(p)
     THEN /\ tasks' = [tasks EXCEPT ![a] = p]
          /\ capture' = [capture EXCEPT ![p] = [NoCapture EXCEPT !.at = "loop", !.agent = a]]
     ELSE UNCHANGED <<tasks, capture>>
  /\ Answer(r)
  /\ UNCHANGED <<binding, active, history, messages, inputs, used, unrecorded, terminalVars>>

(* send: the message is recorded first and then written to the program.    *)
SendRecords(r) ==
  LET row == binding[request[r].agent] IN
  /\ request[r].at = "send"
  /\ IF row = NoBinding THEN Answer(r) /\ UNCHANGED messages
     ELSE /\ AppendShared(UserEntry(r))
          /\ request' = [request EXCEPT ![r].at = "record", ![r].pty = row.pty]
  /\ UNCHANGED <<binding, active, history, tasks, capture, inputs, used, unrecorded, terminalVars>>

SendAppendsHistory(r) ==
  /\ request[r].at = "record"
  /\ AppendHistory(UserEntry(r))
  /\ Goto(r, "input")
  /\ UNCHANGED <<binding, active, messages, tasks, capture, inputs, used, unrecorded, terminalVars>>

SendInputs(r) ==
  LET p == request[r].pty IN
  /\ request[r].at = "input"
  /\ inputs' = IF IsRunning(p) THEN [inputs EXCEPT ![p] = Append(@, request[r].id)] ELSE inputs
  /\ Answer(r)
  /\ UNCHANGED <<binding, active, history, messages, tasks, capture, used, unrecorded, terminalVars>>

(* stop: the row read here gives the cursor StopRecords writes back.       *)
StopLooksUp(r) ==
  LET row == binding[request[r].agent] IN
  /\ request[r].at = "stop"
  /\ IF row = NoBinding THEN Answer(r)
     ELSE request' = [request EXCEPT ![r].at = "cancel", ![r].row = row]
  /\ UNCHANGED <<binding, active, history, messages, tasks, capture, inputs, used, unrecorded, terminalVars>>

StopCancels(r) ==
  LET p == request[r].row.pty IN
  /\ request[r].at = "cancel"
  /\ IF IsRunning(p) THEN CancelPty(p) ELSE UNCHANGED terminalVars
  /\ Goto(r, "stopped")
  /\ UNCHANGED managerVarsButRequest

StopRecords(r) ==
  /\ request[r].at = "stopped"
  /\ UpdateProgress(request[r].agent, request[r].row.cursor, "stopped")
  /\ history' \in {history, Append(history, SystemEntry)}
  /\ Answer(r)
  /\ UNCHANGED <<active, messages, tasks, capture, inputs, used, unrecorded, terminalVars>>

(* The next statement fails, or the client goes away: what is done stays.  *)
RequestFails(r) ==
  /\ request[r] # NoRequest
  /\ Answer(r)
  /\ UNCHANGED <<managerVarsButRequest, terminalVars>>

-----------------------------------------------------------------------------
(* The capture task of a terminal, spawn_capture.                          *)

Captures(p, at) == capture' = [capture EXCEPT ![p].at = at]
OnlyCapture(p) == UNCHANGED <<binding, active, tasks, requestVars, terminal, process, threads>>

CaptureWaits(p) ==
  /\ capture[p].at = "loop"
  /\ IF tasks[capture[p].agent] = p
     THEN waits' = [waits EXCEPT ![p] = Waiting(p, p, capture[p].cursor)] /\ Captures(p, "waiting")
     ELSE Captures(p, "replaced") /\ UNCHANGED waits
  /\ OnlyCapture(p) /\ UNCHANGED <<history, messages, unrecorded>>

(* The cursor moves past the batch, whatever becomes of its text: it may   *)
(* be nothing once sanitized, and errors are ignored.                      *)
CaptureAppends(p) ==
  /\ capture[p].at = "waiting" /\ waits[p].at = "answered"
  /\ IF waits[p].chunks = <<>> THEN UNCHANGED <<history, unrecorded>> /\ Captures(p, "progress")
     ELSE \/ AppendHistory(AgentEntry(p)) /\ UNCHANGED unrecorded /\ Captures(p, "share")
          \/ /\ UNCHANGED history /\ unrecorded' = unrecorded \cup {LostEntry(p)}
             /\ Captures(p, "share") \/ Captures(p, "progress")
  /\ OnlyCapture(p) /\ UNCHANGED <<messages, waits>>

CaptureShares(p) ==
  /\ capture[p].at = "share"
  /\ AppendShared(AgentEntry(p)) \/ UNCHANGED messages
  /\ Captures(p, "progress")
  /\ OnlyCapture(p) /\ UNCHANGED <<history, unrecorded, waits>>

CaptureProgresses(p) ==
  /\ capture[p].at = "progress"
  /\ \/ UpdateProgress(capture[p].agent, NextCursorOf(waits[p]),
          IF waits[p].status = "cancelled" THEN "stopped" ELSE waits[p].status)
     \/ UNCHANGED binding
  /\ capture' = [capture EXCEPT ![p].cursor = NextCursorOf(waits[p]),
                   ![p].at = IF waits[p].status = "running" THEN "loop" ELSE "ended"]
  /\ waits' = [waits EXCEPT ![p] = NoWait]
  /\ UNCHANGED <<active, history, messages, unrecorded, tasks, requestVars, terminal, process, threads>>

-----------------------------------------------------------------------------
(* The daemon restarts: the masters close, and the programs with them.     *)
Restart ==
  /\ used.restarts < MaxRestarts
  /\ used' = [used EXCEPT !.restarts = @ + 1]
  /\ terminal' = [p \in Ptys |-> NotStarted]
  /\ process' = [p \in Ptys |-> IF process[p] = NoProcess THEN NoProcess
                             ELSE [NoProcess EXCEPT !.child = "ended", !.written = process[p].written]]
  /\ threads' = [p \in Ptys |-> NoThreads]
  /\ waits' = [p \in Ptys |-> NoWait]
  /\ tasks' = [a \in Agents |-> None]
  /\ capture' = [p \in Ptys |-> NoCapture]
  /\ request' = [r \in Requests |-> NoRequest]
  /\ UNCHANGED <<binding, active, history, messages, inputs, unrecorded>>

-----------------------------------------------------------------------------
AgentInit ==
  /\ TerminalInit
  /\ binding = [a \in Agents |-> NoBinding]
  /\ active = None
  /\ history = <<>> /\ messages = <<>> /\ unrecorded = {}
  /\ tasks = [a \in Agents |-> None]
  /\ capture = [p \in Ptys |-> NoCapture]
  /\ request = [r \in Requests |-> NoRequest]
  /\ inputs = [p \in Ptys |-> <<>>]
  /\ used = [requests |-> 0, restarts |-> 0]

RequestNext(r) ==
  \/ StartLooksUp(r) \/ StartSpawns(r) \/ StartBinds(r)
  \/ StartActivates(r) \/ StartBootstraps(r)
  \/ SendRecords(r) \/ SendAppendsHistory(r) \/ SendInputs(r)
  \/ StopLooksUp(r) \/ StopCancels(r) \/ StopRecords(r)
  \/ RequestFails(r)

CaptureNext(p) ==
  \/ CaptureWaits(p) \/ CaptureAppends(p) \/ CaptureShares(p)
  \/ CaptureProgresses(p)

AgentNext ==
  \/ \E r \in Requests, op \in {"start", "send", "stop"}, a \in Agents : Request(r, op, a)
  \/ \E r \in Requests : RequestNext(r)
  \/ \E p \in Ptys : CaptureNext(p)
  \/ \E p \in Ptys : (ProgramNext(p) \/ ThreadNext(p) \/ WaitNext(p)) /\ UNCHANGED managerVars
  \/ Restart

(* The runtime's threads, tasks and timers run; programs need not end.     *)
AgentFairness ==
  /\ \A p \in Ptys : WF_agentVars(ThreadNext(p) /\ UNCHANGED managerVars)
  /\ \A p \in Ptys : WF_agentVars(CaptureNext(p) \/ (WaitNext(p) /\ UNCHANGED managerVars))

AgentSpec == AgentInit /\ [][AgentNext]_agentVars /\ AgentFairness

-----------------------------------------------------------------------------
AgentTypeOK ==
  /\ TerminalTypeOK
  /\ \A a \in Agents : binding[a].pty \in Ptys \cup {None} /\ tasks[a] \in Ptys \cup {None}
  /\ active \in Agents \cup {None}
  /\ \A p \in Ptys : capture[p].at \in {"idle", "loop", "waiting", "share", "progress", "ended", "replaced"}

(* What became of a terminal's output that was captured: the ranges that   *)
(* the history holds, and those that were not recorded.                    *)
RangesIn(entries, p) == {entries[k] : k \in {i \in DOMAIN entries : entries[i].pty = p}}
Accounted(p) == RangesIn(history, p) \cup {e \in unrecorded : e.pty = p}

(* The ranges are the first n chunks of output, each of them once.         *)
Tile(ranges, n) ==
  /\ \A e \in ranges : e.from < e.upto /\ e.upto <= n
  /\ \A e, f \in ranges : e = f \/ e.upto <= f.from \/ f.upto <= e.from
  /\ \A c \in 1..n : \E e \in ranges : e.from < c /\ c <= e.upto

CapturedUpto(p) == Max({0} \cup {e.upto : e \in Accounted(p)})

(* The history has a terminal's output in order and no part of it twice;   *)
(* what is missing was lost batch by batch, each with its own append       *)
(* (spawn_capture): no other output is skipped.                            *)
HistoryFollowsTerminal ==
  /\ \A p \in Ptys : Tile(Accounted(p), CapturedUpto(p))
  /\ \A i, j \in DOMAIN history :
       i < j /\ history[i].pty = history[j].pty /\ history[i].pty # None =>
         history[i].upto <= history[j].from

(* The capture task that saw its program exit has captured all of its      *)
(* output, however the exit, the last output and the time-outs interleave. *)
ExitedIsCaptured ==
  \A p \in Ptys :
    capture[p].at = "ended" /\ terminal[p].status \in {"exited", "failed"} =>
      CapturedUpto(p) = terminal[p].cursor /\ process[p].unread = <<>>

(* What a program was told is in the history and in the shared Session,    *)
(* also after a restart (send).                                            *)
DeliveredIsRecorded ==
  \A p \in Ptys : \A i \in DOMAIN inputs[p] :
    /\ \E k \in DOMAIN history : history[k].role = "user" /\ history[k].from = inputs[p][i]
    /\ \E k \in DOMAIN messages : messages[k].role = "user" /\ messages[k].from = inputs[p][i]

(* What a terminal prints and what it was told are recorded: a final batch *)
(* is complete, gaps are marked, the history is the output in order and    *)
(* without repetition, all of it once an exit was captured but for the     *)
(* batches whose own append failed, and input is in both records before it *)
(* is typed.                                                               *)
TerminalsAreRecorded ==
  /\ AgentTypeOK
  /\ FinalBatchIsComplete /\ GapsAreMarked
  /\ HistoryFollowsTerminal /\ ExitedIsCaptured /\ DeliveredIsRecorded

(* When the program has ended and nothing holds its terminal open, the     *)
(* terminal ends, whichever thread learns of it first, and so does its     *)
(* capture task, although the notification may come between its check and  *)
(* its wait (wait_for_output).                                             *)
CaptureEnds ==
  \A p \in Ptys :
    (process[p].child = "ended" /\ ~process[p].slaveOpen)
      ~> (terminal[p].status # "running" /\ capture[p].at \in {"idle", "ended", "replaced"})

(* "PTY output is captured into attributed history": when the reader and   *)
(* the capture task of a terminal are done, the history has its output.    *)
(* A cancel, a second start and a failed append each make it false.        *)
OutputIsCaptured ==
  \A p \in Ptys :
    capture[p].at \in {"ended", "replaced"} /\ threads[p].reader = "done" =>
      Tile(RangesIn(history, p), terminal[p].cursor)

(* An agent runs in one terminal: false when two starts overlap, or when a *)
(* start fails after its program was started.                              *)
OneRunningTerminal == Cardinality({p \in Ptys : terminal[p].status = "running"}) <= Cardinality(Agents)
=============================================================================
