------------------------------ MODULE Knowledge ------------------------------
(***************************************************************************)
(* MemoryService over its two repositories.  Every operation is one        *)
(* transaction that writes the records and their events together; the      *)
(* PostgreSQL repository locks the row it changes and keeps a column for   *)
(* what SQLite asks of the record itself.  A record is valid from its      *)
(* creation, so that only supersede ends its validity and no clock is      *)
(* needed.  A search is two steps: the candidates, then the ranking.       *)
(***************************************************************************)
EXTENDS Naturals, Sequences, FiniteSets, SequencesExt

CONSTANTS
  Memories,    \* ids of memory records
  Stores,      \* repositories to run on: "sqlite", "postgres"
  Readers,     \* searches in flight
  Window,      \* how many candidates a search reads (2,000 in the code)
  MaxSearches  \* bound: searches made

Nobody == "nobody"

ASSUME KnowledgeAssumption == Nobody \notin Memories

VARIABLES
  store,       \* which repository the service has
  memory,      \* [Memories -> a record, or Unwritten]
  updated,     \* the ids in the order of updated_at
  outbox,      \* the events, in commit order
  search       \* [Readers -> a search], and how many were made

knowledgeVars == <<store, memory, updated, outbox, search>>

Unwritten == [written |-> FALSE, supersedes |-> Nobody, supersededBy |-> Nobody,
              deleted |-> FALSE, ended |-> FALSE, column |-> FALSE]
NewRecord(old) == [Unwritten EXCEPT !.written = TRUE, !.supersedes = old, !.column = TRUE]

(* is_active_at.                                                           *)
IsActive(record) ==
  record.written /\ ~record.deleted /\ record.supersededBy = Nobody /\ ~record.ended

Event(type, m, old) == [type |-> type, id |-> m, old |-> old]
WithoutUpdate(m) == RemoveAt(updated, CHOOSE i \in DOMAIN updated : updated[i] = m)
Touch(m) == updated' = Append(WithoutUpdate(m), m)

-----------------------------------------------------------------------------
Remember(m) ==
  /\ ~memory[m].written
  /\ memory' = [memory EXCEPT ![m] = NewRecord(Nobody)]
  /\ outbox' = Append(outbox, Event("memory.created", m, Nobody))
  /\ updated' = Append(updated, m)
  /\ UNCHANGED <<store, search>>

Supersedable(old) == IsActive(memory[old])

(* SQLite closes the old record's validity as well.                        *)
SqliteSuperseded(record, new) == [record EXCEPT !.supersededBy = new, !.ended = TRUE]

(* Fault: the record is updated, its column is not.                        *)
PostgresSupersededInData(record, new) == [record EXCEPT !.supersededBy = new]

PostgresSuperseded(record, new) == [record EXCEPT !.supersededBy = new, !.column = FALSE]

(* The replacement was made before the old record is touched.              *)
Supersede(old, new) ==
  /\ old # new /\ Supersedable(old) /\ ~memory[new].written
  /\ memory' = [memory EXCEPT ![new] = NewRecord(old),
                  ![old] = IF store = "sqlite" THEN SqliteSuperseded(@, new) ELSE PostgresSuperseded(@, new)]
  /\ outbox' = Append(outbox, Event("memory.superseded", new, old))
  /\ updated' = WithoutUpdate(old) \o <<new, old>>
  /\ UNCHANGED <<store, search>>

(* SQLite forgets whatever is not forgotten yet, PostgreSQL only what is   *)
(* still active.                                                           *)
Forgettable(m) ==
  IF store = "sqlite" THEN memory[m].written /\ ~memory[m].deleted ELSE IsActive(memory[m])

(* The column exists in PostgreSQL only; SQLite's copy says nothing.       *)
Forget(m) ==
  /\ Forgettable(m)
  /\ memory' = [memory EXCEPT ![m].deleted = TRUE,
                              ![m].column = IF store = "postgres" THEN FALSE ELSE @]
  /\ outbox' = Append(outbox, Event("memory.deleted", m, Nobody))
  /\ Touch(m)
  /\ UNCHANGED <<store, search>>

-----------------------------------------------------------------------------
(* active_candidates: the youngest Window of the active records; the       *)
(* PostgreSQL repository asks the records again after the limit.           *)
YoungerThan(m) ==
  {n \in Memories : \E i, j \in DOMAIN updated : i < j /\ updated[i] = m /\ updated[j] = n}

Youngest(ids) == {m \in ids : Cardinality(YoungerThan(m) \cap ids) < Window}

SqliteCandidates == Youngest({m \in Memories : IsActive(memory[m])})

PostgresCandidates ==
  {m \in Youngest({n \in Memories : memory[n].column}) : IsActive(memory[m])}

Candidates == IF store = "sqlite" THEN SqliteCandidates ELSE PostgresCandidates

NoSearch == [at |-> "idle", read |-> {}, since |-> 0]

ReadCandidates(r) ==
  /\ search.of[r].at = "idle" /\ search.made < MaxSearches
  /\ search' = [search EXCEPT !.made = @ + 1,
                  !.of[r] = [at |-> "ranking", read |-> Candidates, since |-> Len(outbox)]]
  /\ UNCHANGED <<store, memory, updated, outbox>>

(* The hits are a choice of the candidates: every query may match or not.  *)
AnswerSearch(r) ==
  /\ search.of[r].at = "ranking"
  /\ search' = [search EXCEPT !.of[r] = NoSearch]
  /\ UNCHANGED <<store, memory, updated, outbox>>

-----------------------------------------------------------------------------
KnowledgeInit ==
  /\ store \in Stores
  /\ memory = [m \in Memories |-> Unwritten]
  /\ updated = <<>> /\ outbox = <<>>
  /\ search = [made |-> 0, of |-> [r \in Readers |-> NoSearch]]

KnowledgeNext ==
  \/ \E m \in Memories : Remember(m) \/ Forget(m)
  \/ \E old, new \in Memories : Supersede(old, new)
  \/ \E r \in Readers : ReadCandidates(r) \/ AnswerSearch(r)

KnowledgeSpec == KnowledgeInit /\ [][KnowledgeNext]_knowledgeVars

-----------------------------------------------------------------------------
Records == [written : BOOLEAN, supersedes : Memories \cup {Nobody},
            supersededBy : Memories \cup {Nobody}, deleted : BOOLEAN,
            ended : BOOLEAN, column : BOOLEAN]

KnowledgeTypeOK ==
  /\ store \in Stores
  /\ memory \in [Memories -> Records]
  /\ updated \in Seq(Memories) /\ IsInjective(updated)
  /\ ToSet(updated) = {m \in Memories : memory[m].written}
  /\ outbox \in Seq([type : {"memory.created", "memory.superseded", "memory.deleted"},
                     id : Memories, old : Memories \cup {Nobody}])

(* Records that replace one another form lines: every link is written at   *)
(* both ends and a record is replaced at most once, so that the history a  *)
(* reader follows from either end is the same one.                         *)
LineagesAreLines ==
  \A m, n \in Memories :
    /\ memory[m].supersededBy = n => memory[n].written /\ memory[n].supersedes = m
    /\ memory[n].supersedes = m => memory[m].supersededBy = n

(* What the column says PostgreSQL's search, the record says too.          *)
ColumnIsTrue ==
  store = "postgres" => \A m \in Memories : memory[m].column <=> IsActive(memory[m])

(* A search answers with no record that was inactive when it began: only   *)
(* an event of the session after its read can have ended a candidate.      *)
SearchesAreFresh ==
  \A r \in Readers : \A m \in search.of[r].read :
    \/ IsActive(memory[m])
    \/ \E k \in search.of[r].since + 1 .. Len(outbox) :
         (outbox[k].type = "memory.deleted" /\ outbox[k].id = m) \/ outbox[k].old = m

(* The events alone tell which records are active: whoever follows them    *)
(* from the outbox has the service's own answer.                           *)
EventsTellActive ==
  \A m \in Memories :
    IsActive(memory[m]) <=>
      /\ \E k \in DOMAIN outbox : outbox[k].id = m /\ outbox[k].type # "memory.deleted"
      /\ ~\E k \in DOMAIN outbox : outbox[k].old = m \/ (outbox[k].id = m /\ outbox[k].type = "memory.deleted")

(* Whoever asks which records are active is told the truth: the links of   *)
(* both ends, the column, the events and the answers of searches agree.    *)
ActivityIsAgreed ==
  /\ KnowledgeTypeOK
  /\ LineagesAreLines /\ ColumnIsTrue /\ EventsTellActive /\ SearchesAreFresh

(* What was superseded or forgotten never becomes active again, and a      *)
(* forgotten record stays forgotten.                                       *)
InactiveForEver ==
  [][\A m \in Memories :
       /\ memory[m].written /\ ~IsActive(memory[m]) => ~IsActive(memory'[m])
       /\ memory[m].deleted => memory'[m].deleted]_knowledgeVars
=============================================================================
