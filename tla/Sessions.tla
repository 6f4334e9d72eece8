------------------------------ MODULE Sessions ------------------------------
(***************************************************************************)
(* Sessions and the commands of RuntimeService.  A command reads the       *)
(* session, applies itself to its private copy and saves the copy with     *)
(* compare-and-set on the version, together with the events that tell the  *)
(* change, in one transaction.  run_provider is two such saves around a    *)
(* call of the provider.  The SQLite and the PostgreSQL repository keep    *)
(* the same contract.                                                      *)
(***************************************************************************)
EXTENDS Naturals, FiniteSets, Sequences, SequencesExt

CONSTANTS
  Sessions,       \* the session ids
  Clients,        \* concurrent callers of RuntimeService
  MaxVersion      \* bound: the version at which a session takes no more changes

ASSUME MaxVersionAssumption == MaxVersion \in Nat

VARIABLES
  sessions,       \* the sessions table
  outbox,         \* the rows of the outbox, in the order of created_at
  caller          \* what each client's command is doing

sessionVars == <<sessions, outbox, caller>>

-----------------------------------------------------------------------------
(* The domain: a session is a value, its commands are functions of it.     *)

Roles == {"user", "assistant"}
Statuses == {"absent", "active", "archived"}
EventTypes == {"created", "message", "provider", "archived", "usage"}

(* A message is named by the version that appended it; "to" is what it     *)
(* answers: the version of the last message its author had seen.           *)
Messages == [role : Roles, at : Nat, to : Nat]
Rows == [version : Nat, status : Statuses, provider : BOOLEAN, messages : Seq(Messages)]

Absent == [version |-> 0, status |-> "absent", provider |-> FALSE, messages |-> <<>>]
NewSession == [Absent EXCEPT !.status = "active"]

Event(s, type, row) == [session |-> s, type |-> type, version |-> row.version]

Mutable(row) == row.status = "active"

(* Session::append_message.                                                *)
WithMessage(row, role) ==
  [row EXCEPT !.version = @ + 1,
              !.messages = Append(@, [role |-> role, at |-> row.version + 1, to |-> row.version])]

(* Session::select_provider.                                               *)
WithProvider(row) == [row EXCEPT !.version = @ + 1, !.provider = TRUE]

(* Session::archive.                                                       *)
Archived(row) == [row EXCEPT !.version = @ + 1, !.status = "archived"]

-----------------------------------------------------------------------------
(* Callers.                                                                *)

Idle == [at |-> "idle"]

(* The copy to be saved, the version it was read at, its events, and       *)
(* whether it is the question or the answer of run_provider.               *)
Saving(s, expected, row, events, part) ==
  [at |-> "save", session |-> s, expected |-> expected, row |-> row,
   events |-> events, part |-> part]

SessionInit ==
  /\ sessions = [s \in Sessions |-> Absent]
  /\ outbox = <<>>
  /\ caller = [c \in Clients |-> Idle]

(* SessionRepository::create.                                              *)
Create(s, row, events) ==
  /\ sessions[s].status = "absent"
  /\ sessions' = [sessions EXCEPT ![s] = row]
  /\ outbox' = outbox \o events

CreateSession(s) ==
  /\ Create(s, NewSession, <<Event(s, "created", NewSession)>>)
  /\ UNCHANGED caller

(* A command that saves row over the session it has just read.  A command  *)
(* whose expected version is not the session's, or that finds it archived, *)
(* changes nothing.                                                        *)
Apply(c, s, row, type, part) ==
  /\ caller[c] = Idle
  /\ Mutable(sessions[s])
  /\ sessions[s].version < MaxVersion
  /\ caller' = [caller EXCEPT
       ![c] = Saving(s, sessions[s].version, row, <<Event(s, type, row)>>, part)]
  /\ UNCHANGED <<sessions, outbox>>

AppendMessage(c, s) == Apply(c, s, WithMessage(sessions[s], "user"), "message", "command")

SelectProvider(c, s) == Apply(c, s, WithProvider(sessions[s]), "provider", "command")

ArchiveSession(c, s) == Apply(c, s, Archived(sessions[s]), "archived", "command")

RunProvider(c, s) == Apply(c, s, WithMessage(sessions[s], "user"), "message", "question")

(* SessionRepository::save: rows_affected() /= 1 rolls back and answers    *)
(* Conflict.                                                               *)
Matches(c) == sessions[caller[c].session].version = caller[c].expected

(* After its question is committed run_provider goes on with the committed *)
(* copy, or fails with ProviderNotSelected.                                *)
AfterSave(c) ==
  IF caller[c].part = "question" /\ caller[c].row.provider
  THEN [at |-> "provider", session |-> caller[c].session, row |-> caller[c].row]
  ELSE Idle

Save(c) ==
  /\ caller[c].at = "save"
  /\ Matches(c)
  /\ sessions' = [sessions EXCEPT ![caller[c].session] = caller[c].row]
  /\ outbox' = outbox \o caller[c].events
  /\ caller' = [caller EXCEPT ![c] = AfterSave(c)]

SaveConflicts(c) ==
  /\ caller[c].at = "save"
  /\ ~Matches(c)
  /\ caller' = [caller EXCEPT ![c] = Idle]
  /\ UNCHANGED <<sessions, outbox>>

(* Fault: the session is read again before the answer is appended.         *)
AnswerOnFreshRead(c) == sessions[caller[c].session]

(* The copy that run_provider adds the answer to: the one it committed,    *)
(* not the session as it is now.                                           *)
AnswerBase(c) == caller[c].row

(* The provider's answer is appended, with a usage event.                  *)
ProviderAnswers(c) ==
  LET base == AnswerBase(c)
      row == [WithMessage(base, "assistant") EXCEPT
                !.messages[Len(base.messages) + 1].to = caller[c].row.version]
      s == caller[c].session IN
  /\ caller[c].at = "provider"
  /\ caller[c].row.version < MaxVersion
  /\ caller' = [caller EXCEPT
       ![c] = Saving(s, base.version, row, <<Event(s, "message", row), Event(s, "usage", row)>>, "answer")]
  /\ UNCHANGED <<sessions, outbox>>

(* ProviderAfterCommit, a provider that is not registered any more, a      *)
(* caller that goes away or a daemon that stops: the command ends where it *)
(* is.                                                                     *)
CommandEnds(c) ==
  /\ caller[c] # Idle
  /\ caller' = [caller EXCEPT ![c] = Idle]
  /\ UNCHANGED <<sessions, outbox>>

SessionNext ==
  \/ \E s \in Sessions : CreateSession(s)
  \/ \E c \in Clients, s \in Sessions : AppendMessage(c, s)
  \/ \E c \in Clients, s \in Sessions : SelectProvider(c, s)
  \/ \E c \in Clients, s \in Sessions : ArchiveSession(c, s)
  \/ \E c \in Clients, s \in Sessions : RunProvider(c, s)
  \/ \E c \in Clients : Save(c)
  \/ \E c \in Clients : SaveConflicts(c)
  \/ \E c \in Clients : ProviderAnswers(c)
  \/ \E c \in Clients : CommandEnds(c)

-----------------------------------------------------------------------------
(* What the rows of an outbox tell of a session in events of these types,  *)
(* and what its row says by the messages of these roles.                   *)
Told(rows, s, types) == {i \in DOMAIN rows : rows[i].session = s /\ rows[i].type \in types}
ToldVersions(rows, s, types) == {rows[i].version : i \in Told(rows, s, types)}
ToldInOrder(rows, s, types) ==
  \A i, j \in Told(rows, s, types) : i < j => rows[i].version < rows[j].version
Appended(row, roles) == {m.at : m \in {n \in Range(row.messages) : n.role \in roles}}

Changes == EventTypes \ {"usage"}

(* The outbox tells the history of every session exactly: one event for    *)
(* each version it went through, one usage record for each answer, both in *)
(* order, and a message event for each message, with commands and runs     *)
(* racing (save, insert_events).                                           *)
HistoryIsExact ==
  \A s \in Sessions :
    /\ ToldVersions(outbox, s, Changes) =
         IF sessions[s].status = "absent" THEN {} ELSE 0 .. sessions[s].version
    /\ ToldInOrder(outbox, s, Changes) /\ ToldInOrder(outbox, s, {"usage"})
    /\ ToldVersions(outbox, s, {"usage"}) = Appended(sessions[s], {"assistant"})
    /\ ToldVersions(outbox, s, {"message"}) = Appended(sessions[s], Roles)

(* Every answer stands right behind the question it answers: nobody's      *)
(* message, and no answer of another run, comes between them               *)
(* (run_provider).                                                         *)
AnswersFollowQuestions ==
  \A s \in Sessions : \A i \in DOMAIN sessions[s].messages :
    LET m == sessions[s].messages[i] IN
    m.role = "assistant" =>
      /\ i > 1
      /\ sessions[s].messages[i - 1].role = "user"
      /\ sessions[s].messages[i - 1].at = m.to

(* A session reads like a conversation somebody had, and its events tell   *)
(* the same one, in whatever order callers save and providers answer.      *)
ConversationsAreTrue == HistoryIsExact /\ AnswersFollowQuestions

KeepsHistory ==
  \A s \in Sessions :
    /\ IsPrefix(sessions[s].messages, sessions'[s].messages)
    /\ sessions[s].status = "archived" => sessions'[s] = sessions[s]

(* A session's history only grows: a save never drops a message somebody   *)
(* else had saved, and an archived session never changes again             *)
(* (ensure_version, ensure_mutable, save).                                 *)
HistoryOnlyGrows == [][KeepsHistory]_sessionVars
=============================================================================
