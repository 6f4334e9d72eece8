----------------------------- MODULE Terminals -----------------------------
(***************************************************************************)
(* PtySupervisor: terminals the runtime owns.  A reader thread moves what  *)
(* the program prints into a bounded buffer, a waiter thread learns how    *)
(* the program ended, and callers poll the buffer by cursor, waiting for a *)
(* notification or a time-out.  Each lock is taken on its own: a step here *)
(* is what happens under one lock (or under two that are nested).          *)
(***************************************************************************)
EXTENDS Naturals, Sequences, FiniteSets, SequencesExt, FiniteSetsExt

CONSTANTS
  Ptys,        \* terminals; each is started at most once
  Callers,     \* tasks that wait for output
  Characters,  \* what programs print: sequences of units (bytes)
  WaitOutcomes,\* what child.wait tells: "exited", or "failed" if it cannot
  MaxBytes,    \* max_output_bytes
  ReadSize,    \* units one read returns at most
  MaxWritten   \* bound: units the programs print in all

None == "none"
Units == {"a", "h", "l"}   \* a narrow character; the two halves of a wide one

\* validate_start refuses a limit of zero; reads are of 8 KiB.
ASSUME TerminalAssumption ==
  /\ MaxBytes \in Nat \ {0} /\ ReadSize \in Nat \ {0}
  /\ Characters \subseteq Seq(Units)
  /\ WaitOutcomes \subseteq {"exited", "failed"}
  /\ None \notin Ptys

VARIABLES
  terminal,    \* [Ptys -> the PtySession: descriptor, buffer, completion]
  process,     \* [Ptys -> the child, the slave side, the unread units]
  threads,     \* [Ptys -> where the reader and the waiter thread are]
  waits        \* [Callers -> a call of wait_for_output]

terminalVars == <<terminal, process, threads, waits>>

Ended == {"exited", "cancelled", "failed"}

NotStarted == [status |-> None, cursor |-> 0, chunks |-> <<>>,
               drained |-> FALSE, childStatus |-> None]
NoProcess == [child |-> None, slaveOpen |-> FALSE, unread |-> <<>>, written |-> 0]
NoThreads == [reader |-> "idle", waiter |-> "idle"]
NoWait == [at |-> "idle", pty |-> None, after |-> 0, status |-> None, chunks |-> <<>>]

-----------------------------------------------------------------------------
(* The buffer.  A wide character is the two units "h" and "l"; from_utf8_  *)
(* lossy turns a unit without its other half into a replacement character  *)
(* of three units.                                                         *)

Broken(data) ==
  Cardinality({i \in DOMAIN data :
    \/ data[i] = "h" /\ i = Len(data)
    \/ data[i] = "l" /\ i = 1})

DecodedLength(data) == Len(data) + 2 * Broken(data)

Retained(chunks) ==
  LET upto[i \in 0..Len(chunks)] == IF i = 0 THEN 0 ELSE upto[i - 1] + DecodedLength(chunks[i].data)
  IN upto[Len(chunks)]

(* The longest suffix of the buffer that leaves room for more units.       *)
Keep(chunks, more) ==
  LET fits == {j \in 1..Len(chunks) + 1 :
                 Retained(SubSeq(chunks, j, Len(chunks))) + more <= MaxBytes} IN
  SubSeq(chunks, Min(fits), Len(chunks))

(* OutputBuffer::push.                                                     *)
Push(chunks, cursor, data) ==
  LET bounded == IF Len(data) > MaxBytes THEN SubSeq(data, Len(data) - MaxBytes + 1, Len(data)) ELSE data
      kept == Keep(chunks, Len(bounded)) IN
  Append(kept, [cursor |-> cursor, data |-> bounded,
                truncated |-> Len(data) > MaxBytes \/ Len(kept) < Len(chunks)])

After(chunks, after) ==
  LET upto[i \in 0..Len(chunks)] ==
        IF i = 0 THEN <<>>
        ELSE IF chunks[i].cursor > after THEN Append(upto[i - 1], chunks[i]) ELSE upto[i - 1]
  IN upto[Len(chunks)]

NextCursorOf(wait) == IF wait.chunks = <<>> THEN wait.after ELSE Last(wait.chunks).cursor

Notified(p) ==
  [c \in Callers |-> IF waits[c].at = "parked" /\ waits[c].pty = p
                     THEN [waits[c] EXCEPT !.at = "recheck"] ELSE waits[c]]

-----------------------------------------------------------------------------
(* The program behind the terminal.                                        *)

StartPty(p) ==
  /\ terminal[p] = NotStarted /\ process[p] = NoProcess
  /\ terminal' = [terminal EXCEPT ![p].status = "running"]
  /\ process' = [process EXCEPT ![p].child = "running", ![p].slaveOpen = TRUE]
  /\ threads' = [threads EXCEPT ![p] = [reader |-> "reading", waiter |-> "waiting"]]
  /\ UNCHANGED waits

(* The program, or one it started and that outlives it, prints.            *)
Prints(p, character) ==
  /\ process[p].slaveOpen
  /\ MapThenSumSet(LAMBDA q : process[q].written, Ptys) + Len(character) <= MaxWritten
  /\ process' = [process EXCEPT ![p].unread = @ \o character, ![p].written = @ + Len(character)]
  /\ UNCHANGED <<terminal, threads, waits>>

(* The child ends, by itself or because it was killed; descendants may     *)
(* keep the slave side open.                                               *)
ChildEnds(p) ==
  /\ process[p].child = "running"
  /\ \E open \in BOOLEAN :
       process' = [process EXCEPT ![p].child = "ended", ![p].slaveOpen = open]
  /\ UNCHANGED <<terminal, threads, waits>>

SlaveCloses(p) ==
  /\ process[p].child = "ended" /\ process[p].slaveOpen
  /\ process' = [process EXCEPT ![p].slaveOpen = FALSE]
  /\ UNCHANGED <<terminal, threads, waits>>

-----------------------------------------------------------------------------
(* The reader and the waiter thread.                                       *)

(* push_output holds the descriptor and the buffer.                        *)
PushOutput(p) ==
  LET cursor == terminal[p].cursor + 1 IN
  /\ threads[p].reader = "reading"
  /\ \E size \in 1..Min({ReadSize, Len(process[p].unread)}) :
       LET data == SubSeq(process[p].unread, 1, size) IN
       /\ process' = [process EXCEPT ![p].unread = SubSeq(@, size + 1, Len(@))]
       /\ terminal' = [terminal EXCEPT ![p].cursor = cursor,
                                       ![p].chunks = Push(@, cursor, data)]
  /\ waits' = Notified(p)
  /\ UNCHANGED threads

(* End of file, or the EIO a closed slave side shows.                      *)
ReaderDrained(p) ==
  /\ threads[p].reader = "reading"
  /\ process[p].unread = <<>> /\ ~process[p].slaveOpen
  /\ terminal' = [terminal EXCEPT ![p].drained = TRUE]
  /\ threads' = [threads EXCEPT ![p].reader =
                   IF terminal[p].childStatus = None THEN "done" ELSE "finishing"]
  /\ UNCHANGED <<process, waits>>

(* Fault: the end of the child is the end of the terminal.                 *)
ChildFinishedAtOnce(p, status) ==
  /\ threads[p].waiter = "waiting" /\ process[p].child = "ended"
  /\ terminal' = [terminal EXCEPT ![p].childStatus = status]
  /\ threads' = [threads EXCEPT ![p].waiter = "finishing"]
  /\ UNCHANGED <<process, waits>>

(* child.wait returned.                                                    *)
ChildFinished(p, status) ==
  /\ threads[p].waiter = "waiting" /\ process[p].child = "ended"
  /\ terminal' = [terminal EXCEPT ![p].childStatus = status]
  /\ threads' = [threads EXCEPT ![p].waiter = IF terminal[p].drained THEN "finishing" ELSE "done"]
  /\ UNCHANGED <<process, waits>>

(* Fault: the status the child ended with replaces any other.              *)
LatestStatus(p) == terminal[p].childStatus

(* finish: a status that is set already, by cancel, is kept.               *)
FinalStatus(p) == IF terminal[p].status = "running" THEN terminal[p].childStatus ELSE terminal[p].status

Finish(p) ==
  /\ terminal' = [terminal EXCEPT ![p].status = FinalStatus(p)]
  /\ waits' = Notified(p)
  /\ \/ threads[p].reader = "finishing" /\ threads' = [threads EXCEPT ![p].reader = "done"]
     \/ threads[p].waiter = "finishing" /\ threads' = [threads EXCEPT ![p].waiter = "done"]
  /\ UNCHANGED process

(* cancel: signals the child under the descriptor's lock.  The signal asks *)
(* the program to end; ChildEnds is whether and when it does.              *)
CancelPty(p) ==
  /\ terminal[p].status = "running"
  /\ terminal' = [terminal EXCEPT ![p].status = "cancelled"]
  /\ waits' = Notified(p)
  /\ UNCHANGED <<process, threads>>

-----------------------------------------------------------------------------
(* wait_for_output.                                                        *)

Waiting(c, pty, after) == [NoWait EXCEPT !.at = "check", !.pty = pty, !.after = after]

CheckStatus(c) ==
  /\ waits[c].at \in {"check", "recheck"}
  /\ waits' = [waits EXCEPT ![c].status = terminal[waits[c].pty].status,
                            ![c].at = IF @ = "check" THEN "read" ELSE "reread"]
  /\ UNCHANGED <<terminal, process, threads>>

ReadOutput(c) ==
  LET chunks == After(terminal[waits[c].pty].chunks, waits[c].after) IN
  /\ waits[c].at \in {"read", "reread"}
  /\ waits' = [waits EXCEPT
       ![c].chunks = chunks,
       ![c].at = IF @ = "read" /\ chunks = <<>> /\ waits[c].status = "running"
                 THEN "armed" ELSE "answered"]
  /\ UNCHANGED <<terminal, process, threads>>

(* Only from here on does a notification reach the caller.                 *)
Park(c) ==
  /\ waits[c].at = "armed"
  /\ waits' = [waits EXCEPT ![c].at = "parked"]
  /\ UNCHANGED <<terminal, process, threads>>

(* Fault: the caller relies on being notified.                             *)
WaitsForNotification(c) ==
  /\ waits[c].at = "parked" /\ waits[c].status # "running"
  /\ waits' = [waits EXCEPT ![c].at = "recheck"]
  /\ UNCHANGED <<terminal, process, threads>>

WaitTimesOut(c) ==
  /\ waits[c].at = "parked"
  /\ waits' = [waits EXCEPT ![c].at = "recheck"]
  /\ UNCHANGED <<terminal, process, threads>>

-----------------------------------------------------------------------------
TerminalInit ==
  /\ terminal = [p \in Ptys |-> NotStarted]
  /\ process = [p \in Ptys |-> NoProcess]
  /\ threads = [p \in Ptys |-> NoThreads]
  /\ waits = [c \in Callers |-> NoWait]

ThreadNext(p) ==
  \/ PushOutput(p)
  \/ ReaderDrained(p)
  \/ \E status \in WaitOutcomes : ChildFinished(p, status)
  \/ Finish(p)

WaitNext(c) ==
  \/ CheckStatus(c)
  \/ ReadOutput(c)
  \/ Park(c)
  \/ WaitTimesOut(c)

ProgramNext(p) ==
  \/ \E character \in Characters : Prints(p, character)
  \/ ChildEnds(p)
  \/ SlaveCloses(p)

-----------------------------------------------------------------------------
Chunks == [cursor : Nat, data : Seq(Units), truncated : BOOLEAN]

(* The buffer is over its limit by the replacements in its last chunk only. *)
RetainedIsBounded(chunks) ==
  chunks # <<>> => Retained(chunks) <= MaxBytes + 2 * Broken(Last(chunks).data)

TerminalTypeOK ==
  /\ \A p \in Ptys :
       /\ terminal[p].status \in Ended \cup {None, "running"}
       /\ terminal[p].chunks \in Seq(Chunks)
       /\ terminal[p].childStatus \in {None, "exited", "failed"}
       /\ threads[p].reader \in {"idle", "reading", "finishing", "done"}
       /\ threads[p].waiter \in {"idle", "waiting", "finishing", "done"}
  /\ \A p \in Ptys : RetainedIsBounded(terminal[p].chunks)
  /\ \A c \in Callers :
       waits[c].at \in {"idle", "check", "read", "armed", "parked", "recheck", "reread", "answered"}

(* A batch that says the program has exited or failed is the last one: the *)
(* caller then has everything the program printed (reader_drained and      *)
(* child_finished wait for each other; output_after reads the status       *)
(* before the buffer).                                                     *)
FinalBatchIsComplete ==
  \A c \in Callers :
    waits[c].at = "answered" /\ waits[c].status \in {"exited", "failed"} =>
      LET p == waits[c].pty IN
      /\ process[p].unread = <<>> /\ ~process[p].slaveOpen
      /\ NextCursorOf(waits[c]) = terminal[p].cursor

(* "Old chunks are evicted and later chunks carry truncated=true": whatever *)
(* cursor a client resumes from, a gap before the first chunk it gets is   *)
(* marked in what it gets (OutputBuffer::push).                            *)
GapsAreMarked ==
  \A p \in Ptys : \A after \in 0..terminal[p].cursor :
    LET batch == After(terminal[p].chunks, after) IN
    batch # <<>> /\ batch[1].cursor > after + 1 => \E i \in DOMAIN batch : batch[i].truncated

(* A terminal that ended stays ended the way it did, as long as the daemon *)
(* lives: a cancelled program that exits afterwards was cancelled (cancel  *)
(* against finish).                                                        *)
EndsStay ==
  \A p \in Ptys : terminal[p].status \in Ended =>
    terminal'[p].status \in {terminal[p].status, None}

EndIsFinal == [][EndsStay]_terminalVars
=============================================================================
