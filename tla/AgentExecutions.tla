--------------------------- MODULE AgentExecutions --------------------------
(***************************************************************************)
(* AgentExecutionSupervisor of crates/sessionweft-client-protocol: the     *)
(* agent programs of workflow nodes run in terminals the runtime owns, and *)
(* sessionweft-tui starts, shows, types into and stops them over HTTP.     *)
(* The registry lives in memory; the context files on disk are written     *)
(* before the terminal is started and never read back by the runtime.      *)
(* An execution is known by its terminal; any request or answer of a       *)
(* client may be lost.  The screen's own limit of 2 MiB is left out.       *)
(***************************************************************************)
EXTENDS Terminals

CONSTANTS
  Uis,          \* terminal clients
  FirstVersion, \* version of the workflow when the clients start
  MaxVersion,   \* bound: versions of the workflow
  MaxInputs     \* bound: what is typed

ASSUME VersionAssumption == FirstVersion \in Nat /\ MaxVersion \in Nat /\ FirstVersion <= MaxVersion

VARIABLES
  workflow,     \* the version of the workflow the node belongs to
  registry,     \* [Ptys -> executions: the ExecutionRecord]
  prepared,     \* executions whose context directory is complete
  typed,        \* [Ptys -> the clients whose input reached the program]
  ui            \* [Uis -> App: the fields about its execution]

executionVars == <<workflow, registry, prepared, typed, ui>>
supervisedVars == <<terminalVars, executionVars>>

NoRecord == [token |-> 0, node |-> None]
NoExecution == [pty |-> None, token |-> 0, state |-> None, upto |-> 0]
NewUi == [at |-> "monitor", view |-> 0, pending |-> None, token |-> 0,
          execution |-> NoExecution, cursor |-> 0, screen |-> <<>>, seen |-> None]

-----------------------------------------------------------------------------
(* The supervisor.                                                         *)

\* saturating_add(1) of the version the client names; the workflow is not asked.
FencingToken(version) == version + 1

MapStatus(status) == CASE status = "running"   -> "running"
                       [] status = "exited"    -> "completed"
                       [] status = "cancelled" -> "stopping"
                       [] status = "failed"    -> "failed"

\* view: the record with the status and the cursor of the terminal.
View(p) == [pty |-> p, token |-> registry[p].token,
            state |-> MapStatus(terminal[p].status), upto |-> terminal[p].cursor]

Authorized(p, token) == registry[p] # NoRecord /\ registry[p].token = token

\* Fault: the chunk the client asked to go on after is sent again.
FramesFrom(p, after) ==
  LET chunks == SelectSeq(terminal[p].chunks, LAMBDA chunk : chunk.cursor >= after) IN
  [i \in DOMAIN chunks |-> chunks[i].cursor]

\* terminal_after: frames are chunks without their truncated mark.
Frames(p, after) ==
  LET chunks == After(terminal[p].chunks, after) IN [i \in DOMAIN chunks |-> chunks[i].cursor]

NextOf(frames, after) == IF frames = <<>> THEN after ELSE Last(frames)

-----------------------------------------------------------------------------
(* The handler of a start, up to its answer.                               *)

MoveUi(u, fields) == ui' = [ui EXCEPT ![u] = fields]
UnusedPtys == Ptys \ prepared
NewExecutionPty == CHOOSE p \in UnusedPtys : TRUE

\* start_execution of the client, with the version of the view it shows;
\* validate_start accepts it and materialize_context writes the files.
Materialize(u) ==
  /\ ui[u].at \in {"monitor", "terminal"} /\ UnusedPtys # {}
  /\ prepared' = prepared \cup {NewExecutionPty}
  /\ MoveUi(u, [ui[u] EXCEPT !.at = "spawn", !.pending = NewExecutionPty,
                             !.token = FencingToken(ui[u].view)])
  /\ UNCHANGED <<workflow, registry, typed, terminalVars>>

StartsTerminal(u) ==
  /\ ui[u].at = "spawn"
  /\ StartPty(ui[u].pending)
  /\ MoveUi(u, [ui[u] EXCEPT !.at = "insert"])
  /\ UNCHANGED <<workflow, registry, prepared, typed>>

InsertsRecord(u) ==
  /\ ui[u].at = "insert"
  /\ registry' = [registry EXCEPT ![ui[u].pending] = [token |-> ui[u].token, node |-> "node"]]
  /\ MoveUi(u, [ui[u] EXCEPT !.at = "started"])
  /\ UNCHANGED <<workflow, prepared, typed, terminalVars>>

\* The client shows the new execution, on an empty screen.
ShowsExecution(u) ==
  /\ ui[u].at = "started"
  /\ MoveUi(u, [ui[u] EXCEPT !.at = "terminal", !.pending = None, !.cursor = 0, !.screen = <<>>, !.seen = None,
                 !.execution = [pty |-> ui[u].pending, token |-> ui[u].token, state |-> "running", upto |-> 0]])
  /\ UNCHANGED <<workflow, registry, prepared, typed, terminalVars>>

\* The answer is lost: the program runs and no client shows it.
AnswerIsLost(u) ==
  /\ ui[u].at = "started"
  /\ MoveUi(u, [ui[u] EXCEPT !.at = "monitor", !.pending = None])
  /\ UNCHANGED <<workflow, registry, prepared, typed, terminalVars>>

-----------------------------------------------------------------------------
(* refresh: the view of the resources, then the execution, then its        *)
(* terminal.  A fetch that fails leaves what the client has.  Where a      *)
(* client could open the terminal again the model has it open.             *)

Shows(u) == ui[u].execution.pty # None

FetchesView(u) ==
  /\ ui[u].at \in {"monitor", "terminal"}
  /\ \E version \in {ui[u].view, workflow} :
       MoveUi(u, [ui[u] EXCEPT !.view = version, !.at = IF Shows(u) THEN "execution" ELSE @])
  /\ UNCHANGED <<workflow, registry, prepared, typed, terminalVars>>

FetchesExecution(u) ==
  /\ ui[u].at = "execution"
  /\ \E execution \in {ui[u].execution, View(ui[u].execution.pty)} :
       MoveUi(u, [ui[u] EXCEPT !.at = "frames", !.execution = execution])
  /\ UNCHANGED <<workflow, registry, prepared, typed, terminalVars>>

\* seen: what the client showed when it last got frames.
FetchesTerminal(u) ==
  LET frames == Frames(ui[u].execution.pty, ui[u].cursor) IN
  /\ ui[u].at = "frames"
  /\ \/ MoveUi(u, [ui[u] EXCEPT !.at = "terminal"])
     \/ MoveUi(u, [ui[u] EXCEPT !.at = "terminal", !.screen = @ \o frames,
                    !.cursor = NextOf(frames, @), !.seen = ui[u].execution.state])
  /\ UNCHANGED <<workflow, registry, prepared, typed, terminalVars>>

-----------------------------------------------------------------------------
(* Input and stop, with the token the client was given.                    *)

Types(u) ==
  LET p == ui[u].execution.pty IN
  /\ ui[u].at = "terminal" /\ Shows(u)
  /\ Len(typed[p]) < MaxInputs
  /\ Authorized(p, ui[u].execution.token) /\ terminal[p].status = "running"
  /\ typed' = [typed EXCEPT ![p] = Append(@, u)]
  /\ UNCHANGED <<workflow, registry, prepared, ui, terminalVars>>

\* In either mode; if the answer is lost the mode stays.
StopsExecution(u) ==
  LET p == ui[u].execution.pty IN
  /\ ui[u].at \in {"monitor", "terminal"} /\ Shows(u)
  /\ Authorized(p, ui[u].execution.token)
  /\ CancelPty(p)
  /\ \E at \in {"monitor", ui[u].at} : MoveUi(u, [ui[u] EXCEPT !.at = at])
  /\ UNCHANGED <<workflow, registry, prepared, typed>>

\* Other clients and the scheduler move the workflow on.
WorkflowMoves ==
  /\ workflow < MaxVersion
  /\ workflow' = workflow + 1
  /\ UNCHANGED <<registry, prepared, typed, ui, terminalVars>>

-----------------------------------------------------------------------------
ExecutionInit ==
  /\ workflow = FirstVersion
  /\ registry = [p \in Ptys |-> NoRecord]
  /\ prepared = {}
  /\ typed = [p \in Ptys |-> <<>>]
  /\ ui = [u \in Uis |-> [NewUi EXCEPT !.view = FirstVersion]]

UiNext(u) ==
  \/ Materialize(u) \/ StartsTerminal(u) \/ InsertsRecord(u) \/ ShowsExecution(u) \/ AnswerIsLost(u)
  \/ FetchesView(u) \/ FetchesExecution(u) \/ FetchesTerminal(u)
  \/ Types(u) \/ StopsExecution(u)

ExecutionNext ==
  \/ \E u \in Uis : UiNext(u)
  \/ WorkflowMoves
  \/ \E p \in Ptys : (ThreadNext(p) \/ ProgramNext(p)) /\ UNCHANGED executionVars

ExecutionSpec == TerminalInit /\ ExecutionInit /\ [][ExecutionNext]_supervisedVars

-----------------------------------------------------------------------------
(* Properties *)

ExecutionTypeOK ==
  /\ TerminalTypeOK
  /\ \A u \in Uis :
       /\ ui[u].at \in {"monitor", "terminal", "spawn", "insert", "started", "execution", "frames"}
       /\ ui[u].cursor \in Nat /\ ui[u].token \in 0..MaxVersion + 1
       /\ ui[u].execution.pty \in Ptys \cup {None}

\* A program runs only with its context files on disk, and what is in the
\* registry was started (start: files, terminal, record, in this order).
RunsWithContext ==
  \A p \in Ptys :
    /\ process[p] # NoProcess => p \in prepared
    /\ registry[p] # NoRecord => process[p] # NoProcess

\* A screen shows the output of its own execution in order and nothing twice,
\* whichever fetches fail; what it lacks was evicted before the client asked.
ScreensFollowTerminals ==
  \A u \in Uis : Shows(u) =>
    LET p == ui[u].execution.pty  screen == ui[u].screen IN
    /\ \A i, j \in DOMAIN screen : i < j => screen[i] < screen[j]
    /\ ui[u].cursor = NextOf(screen, 0)
    /\ \A i \in DOMAIN terminal[p].chunks :
         terminal[p].chunks[i].cursor <= ui[u].cursor =>
           \E j \in DOMAIN screen : screen[j] = terminal[p].chunks[i].cursor

\* A client that showed Completed or Failed before it fetched the terminal has
\* the end of the output on its screen (refresh fetches the execution first).
EndedScreensAreComplete ==
  \A u \in Uis : Shows(u) /\ ui[u].seen \in {"completed", "failed"} =>
    /\ ui[u].cursor = terminal[ui[u].execution.pty].cursor
    /\ process[ui[u].execution.pty].unread = <<>>

\* What a program is told comes from a client that was given its token, and
\* the token is one more than a version the workflow has had.
InputIsFenced ==
  \A p \in Ptys : registry[p] # NoRecord =>
    /\ registry[p].token \in {FencingToken(v) : v \in FirstVersion..workflow}
    /\ \A i \in DOMAIN typed[p] :
         ui[typed[p][i]].execution.pty = p => ui[typed[p][i]].execution.token = registry[p].token

(***************************************************************************)
(* Executions run in their context, and clients show and drive them        *)
(* faithfully although any of their requests may fail.                     *)
(***************************************************************************)
ExecutionsAreShown ==
  /\ ExecutionTypeOK /\ RunsWithContext
  /\ ScreensFollowTerminals /\ EndedScreensAreComplete /\ InputIsFenced

(***************************************************************************)
(* "Runtime enforces one active owner and fencing token for every workflow *)
(* execution": of two starts of a node with one version, one runs.         *)
(***************************************************************************)
OneActiveExecution ==
  \A p, q \in Ptys :
    /\ registry[p] # NoRecord /\ registry[q] # NoRecord /\ registry[p].token = registry[q].token
    /\ terminal[p].status = "running" /\ terminal[q].status = "running"
    => p = q
=============================================================================
