---------------------------- MODULE DeliveryProofs ---------------------------
(***************************************************************************)
(* Proofs about sessions and what becomes of their events: a session reads *)
(* like one conversation however commands race, and its events reach the   *)
(* journal, the stream and the handlers once, unless something happened    *)
(* that excuses a repetition.                                              *)
(***************************************************************************)
EXTENDS EventDelivery, SequenceTheorems, FiniteSetTheorems, WellFoundedInduction, TLAPS

-----------------------------------------------------------------------------
(* Logs                                                                    *)

OutboxRows == [session : Sessions, type : EventTypes, version : Nat]

\* What one more event tells.
LEMMA OneMoreTold ==
  ASSUME NEW rows \in Seq(OutboxRows), NEW e \in OutboxRows, NEW s, NEW types
  PROVE  /\ Append(rows, e) \in Seq(OutboxRows)
         /\ e.session = s /\ e.type \in types =>
              /\ ToldVersions(Append(rows, e), s, types) = ToldVersions(rows, s, types) \cup {e.version}
              /\ ToldInOrder(rows, s, types) /\ (\A v \in ToldVersions(rows, s, types) : v < e.version)
                   => ToldInOrder(Append(rows, e), s, types)
         /\ ~(e.session = s /\ e.type \in types) =>
              /\ ToldVersions(Append(rows, e), s, types) = ToldVersions(rows, s, types)
              /\ ToldInOrder(rows, s, types) => ToldInOrder(Append(rows, e), s, types)
  <1> DEFINE more == Append(rows, e)
             n == Len(rows)
  <1>1. /\ n \in Nat /\ DOMAIN rows = 1 .. n /\ DOMAIN more = 1 .. n + 1 /\ more \in Seq(OutboxRows)
        /\ \A i \in 1 .. n : more[i] = rows[i]
        /\ more[n + 1] = e
    BY AppendProperties
  <1> HIDE DEF more, n
  <1>2. \A i \in 1 .. n : i \in Told(more, s, types) <=> i \in Told(rows, s, types)
    BY <1>1 DEF Told
  <1>3. n + 1 \in Told(more, s, types) <=> e.session = s /\ e.type \in types
    BY <1>1 DEF Told
  <1>4. Told(rows, s, types) \subseteq 1 .. n /\ Told(more, s, types) \subseteq 1 .. n + 1
    BY <1>1 DEF Told
  <1>5. \A i \in 1 .. n + 1 : i \in 1 .. n \/ i = n + 1
    BY <1>1
  <1>6. ToldVersions(more, s, types) =
          ToldVersions(rows, s, types) \cup
            (IF e.session = s /\ e.type \in types THEN {e.version} ELSE {})
    <2>1. ASSUME NEW v \in ToldVersions(more, s, types)
          PROVE  v \in ToldVersions(rows, s, types) \/ (e.session = s /\ e.type \in types /\ v = e.version)
      BY <1>1, <1>2, <1>3, <1>4, <1>5 DEF ToldVersions
    <2>2. ASSUME NEW v \in ToldVersions(rows, s, types) PROVE v \in ToldVersions(more, s, types)
      BY <1>1, <1>2, <1>4 DEF ToldVersions
    <2>3. ASSUME e.session = s, e.type \in types PROVE e.version \in ToldVersions(more, s, types)
      BY <2>3, <1>1, <1>3 DEF ToldVersions
    <2> QED
      BY <2>1, <2>2, <2>3
  <1>7. ASSUME ToldInOrder(rows, s, types),
               e.session = s /\ e.type \in types => \A v \in ToldVersions(rows, s, types) : v < e.version
        PROVE  ToldInOrder(more, s, types)
    <2> SUFFICES ASSUME NEW i \in Told(more, s, types), NEW j \in Told(more, s, types), i < j
                 PROVE  more[i].version < more[j].version
      BY DEF ToldInOrder
    <2>1. i \in 1 .. n /\ i \in Told(rows, s, types)
      BY <1>1, <1>2, <1>4
    <2>2. CASE j = n + 1
      BY <1>1, <1>3, <1>7, <2>1, <2>2 DEF ToldVersions
    <2>3. CASE j \in 1 .. n
      BY <1>1, <1>2, <1>7, <2>1, <2>3 DEF ToldInOrder
    <2> QED
      BY <1>4, <1>5, <2>2, <2>3
  <1> QED
    BY <1>1, <1>6, <1>7 DEF more

-----------------------------------------------------------------------------
(* Sessions                                                                *)

SaveCopies ==
  [at : {"save"}, session : Sessions, expected : Nat, row : Rows,
   events : Seq(OutboxRows), part : {"command", "question", "answer"}]
ProviderCopies == [at : {"provider"}, session : Sessions, row : Rows]

\* The last message is a user's, and what made this version.
AsksLast(row) ==
  /\ row.messages # <<>>
  /\ row.messages[Len(row.messages)].role = "user"
  /\ row.messages[Len(row.messages)].at = row.version

\* Every answer of a row stands right behind its question.
AnswersStand(row) ==
  \A i \in DOMAIN row.messages :
    row.messages[i].role = "assistant" =>
      /\ i > 1
      /\ row.messages[i - 1].role = "user"
      /\ row.messages[i - 1].at = row.messages[i].to

\* What a save that succeeds does to a row, and what its events tell of it.
NextRow(s, old, new, events) ==
  /\ old.status = "active" /\ new.version = old.version + 1 /\ new.status # "absent"
  /\ \/ /\ new.messages = old.messages
        /\ \E type \in {"provider", "archived"} : events = <<Event(s, type, new)>>
     \/ \E m \in Messages :
          /\ new.messages = Append(old.messages, m) /\ m.at = new.version
          /\ \/ m.role = "user" /\ events = <<Event(s, "message", new)>>
             \/ /\ m.role = "assistant" /\ AsksLast(old) /\ m.to = old.version
                /\ events = <<Event(s, "message", new), Event(s, "usage", new)>>

\* A copy to be saved is the next row, unless somebody saved since it was read.
SaveIsNext(copy) ==
  LET s == copy.session IN
  /\ sessions[s].status # "absent" /\ copy.expected <= sessions[s].version
  /\ copy.expected = sessions[s].version => NextRow(s, sessions[s], copy.row, copy.events)
  /\ copy.part = "question" => AsksLast(copy.row) /\ copy.row.status = "active"

\* What run_provider committed is the row, unless somebody saved since.
QuestionIsLast(copy) ==
  LET s == copy.session IN
  /\ sessions[s].status # "absent" /\ copy.row.version <= sessions[s].version
  /\ copy.row.version = sessions[s].version => copy.row = sessions[s]
  /\ AsksLast(copy.row) /\ copy.row.status = "active"

CopyIsSound(copy) ==
  (copy.at = "save" => SaveIsNext(copy)) /\ (copy.at = "provider" => QuestionIsLast(copy))

RowIsTold(rows, s, row) ==
  /\ ToldVersions(rows, s, Changes) = IF row.status = "absent" THEN {} ELSE 0 .. row.version
  /\ ToldInOrder(rows, s, Changes) /\ ToldInOrder(rows, s, {"usage"})
  /\ ToldVersions(rows, s, {"usage"}) = Appended(row, {"assistant"})
  /\ ToldVersions(rows, s, {"message"}) = Appended(row, Roles)
  /\ \A v \in ToldVersions(rows, s, {"usage"}) : v <= row.version

SessionsInv ==
  /\ sessions \in [Sessions -> Rows]
  /\ outbox \in Seq(OutboxRows)
  /\ caller \in [Clients -> {Idle} \cup SaveCopies \cup ProviderCopies]
  /\ \A s \in Sessions :
       /\ RowIsTold(outbox, s, sessions[s]) /\ AnswersStand(sessions[s])
       /\ sessions[s].status = "absent" => sessions[s] = Absent
  /\ \A c \in Clients : CopyIsSound(caller[c])

LEMMA SessionsInvImplies == SessionsInv => ConversationsAreTrue
  <1> SUFFICES ASSUME SessionsInv PROVE HistoryIsExact /\ AnswersFollowQuestions
    BY DEF ConversationsAreTrue
  <1>1. HistoryIsExact
    BY DEF SessionsInv, RowIsTold, HistoryIsExact
  <1>2. AnswersFollowQuestions
    BY DEF SessionsInv, AnswersStand, AnswersFollowQuestions
  <1> QED
    BY <1>1, <1>2

\* The messages after one more.
LEMMA OneMoreMessage ==
  ASSUME NEW old \in Rows, NEW new \in Rows, NEW m \in Messages,
         new.messages = Append(old.messages, m)
  PROVE  /\ \A roles : /\ m.role \in roles => Appended(new, roles) = Appended(old, roles) \cup {m.at}
                       /\ m.role \notin roles => Appended(new, roles) = Appended(old, roles)
         /\ AnswersStand(old) /\ (m.role = "assistant" => AsksLast(old) /\ m.to = old.version)
              => AnswersStand(new)
  <1> DEFINE n == Len(old.messages)
  <1>1. old.messages \in Seq(Messages) /\ new.messages \in Seq(Messages)
    BY DEF Rows
  <1>2. /\ n \in Nat /\ DOMAIN old.messages = 1 .. n /\ DOMAIN new.messages = 1 .. n + 1
        /\ \A i \in 1 .. n : new.messages[i] = old.messages[i]
        /\ new.messages[n + 1] = m
    BY <1>1, AppendProperties
  <1>3. n > 0 <=> old.messages # <<>>
    BY <1>1
  <1> HIDE DEF n
  <1>4. Range(new.messages) = Range(old.messages) \cup {m}
    <2>1. \A i \in 1 .. n + 1 : i \in 1 .. n \/ i = n + 1
      BY <1>2
    <2>2. 1 .. n \subseteq 1 .. n + 1 /\ n + 1 \in 1 .. n + 1
      BY <1>2
    <2> QED
      BY <1>2, <2>1, <2>2 DEF Range
  <1>5. ASSUME NEW roles
        PROVE  /\ m.role \in roles => Appended(new, roles) = Appended(old, roles) \cup {m.at}
               /\ m.role \notin roles => Appended(new, roles) = Appended(old, roles)
    BY <1>4 DEF Appended
  <1>6. ASSUME AnswersStand(old), m.role = "assistant" => AsksLast(old) /\ m.to = old.version
        PROVE  AnswersStand(new)
    <2> SUFFICES ASSUME NEW i \in 1 .. n + 1, new.messages[i].role = "assistant"
                 PROVE  /\ i > 1 /\ new.messages[i - 1].role = "user"
                        /\ new.messages[i - 1].at = new.messages[i].to
      BY <1>2 DEF AnswersStand
    <2>1. CASE i \in 1 .. n
      <3>1. i > 1 /\ old.messages[i - 1].role = "user" /\ old.messages[i - 1].at = old.messages[i].to
        BY <1>2, <1>6, <2>1 DEF AnswersStand
      <3>2. i - 1 \in 1 .. n
        BY <1>2, <2>1, <3>1
      <3> QED
        BY <1>2, <2>1, <3>1, <3>2
    <2>2. CASE i = n + 1
      <3>1. AsksLast(old) /\ m.to = old.version
        BY <1>2, <1>6, <2>2
      <3>2. n > 0 /\ old.messages[n].role = "user" /\ old.messages[n].at = old.version
        BY <1>3, <3>1 DEF AsksLast, n
      <3>3. i - 1 = n /\ n \in 1 .. n /\ i > 1
        BY <1>2, <2>2, <3>2
      <3> QED
        BY <1>2, <2>2, <3>1, <3>2, <3>3
    <2> QED
      BY <1>2, <2>1, <2>2
  <1> QED
    BY <1>5, <1>6

\* An event of one session tells the others nothing.
LEMMA OthersAreToldTheSame ==
  ASSUME NEW rows \in Seq(OutboxRows), NEW e \in OutboxRows, NEW s, NEW row, e.session # s,
         RowIsTold(rows, s, row)
  PROVE  RowIsTold(Append(rows, e), s, row)
  <1>1. /\ ToldVersions(Append(rows, e), s, Changes) = ToldVersions(rows, s, Changes)
        /\ ToldInOrder(rows, s, Changes) => ToldInOrder(Append(rows, e), s, Changes)
    BY OneMoreTold
  <1>2. /\ ToldVersions(Append(rows, e), s, {"usage"}) = ToldVersions(rows, s, {"usage"})
        /\ ToldInOrder(rows, s, {"usage"}) => ToldInOrder(Append(rows, e), s, {"usage"})
    BY OneMoreTold
  <1>3. ToldVersions(Append(rows, e), s, {"message"}) = ToldVersions(rows, s, {"message"})
    BY OneMoreTold
  <1> QED
    BY <1>1, <1>2, <1>3 DEF RowIsTold

\* Nor do the events of a save.
LEMMA OthersAreToldNothing ==
  ASSUME NEW rows \in Seq(OutboxRows), NEW s \in Sessions, NEW old \in Rows, NEW new \in Rows,
         NEW events, NextRow(s, old, new, events), NEW x, x # s, NEW row, RowIsTold(rows, x, row)
  PROVE  RowIsTold(rows \o events, x, row)
  <1>1. \A type \in EventTypes : Event(s, type, new) \in OutboxRows /\ Event(s, type, new).session = s
    BY DEF Event, OutboxRows, Rows
  <1>2. \A e \in OutboxRows : rows \o <<e>> = Append(rows, e) /\ Append(rows, e) \in Seq(OutboxRows)
    BY AppendProperties, AppendIsConcat
  <1>3. CASE \E type \in {"provider", "archived", "message"} : events = <<Event(s, type, new)>>
    <2>1. PICK e \in OutboxRows : e.session = s /\ events = <<e>>
      BY <1>1, <1>3 DEF EventTypes
    <2> QED
      BY <1>2, <2>1, OthersAreToldTheSame
  <1>4. CASE events = <<Event(s, "message", new), Event(s, "usage", new)>>
    <2>1. PICK e \in OutboxRows : e = Event(s, "message", new)
      BY <1>1 DEF EventTypes
    <2>2. PICK f \in OutboxRows : f = Event(s, "usage", new)
      BY <1>1 DEF EventTypes
    <2>3. e.session = s /\ f.session = s
      BY <1>1, <2>1, <2>2 DEF EventTypes
    <2>4. rows \o events = Append(Append(rows, e), f)
      BY <1>4, <2>1, <2>2
    <2>5. RowIsTold(Append(rows, e), x, row)
      BY <2>3, OthersAreToldTheSame
    <2> QED
      BY <1>2, <2>3, <2>4, <2>5, OthersAreToldTheSame
  <1> QED
    BY <1>3, <1>4 DEF NextRow

\* A row and its events after a save.
LEMMA NextRowIsTold ==
  ASSUME NEW rows \in Seq(OutboxRows), NEW s \in Sessions, NEW old \in Rows, NEW new \in Rows,
         NEW events, NextRow(s, old, new, events), RowIsTold(rows, s, old), AnswersStand(old)
  PROVE  RowIsTold(rows \o events, s, new) /\ AnswersStand(new)
  <1> DEFINE v == new.version
  <1>1. \A type \in EventTypes : /\ Event(s, type, new) \in OutboxRows
                                 /\ Event(s, type, new).session = s
                                 /\ Event(s, type, new).type = type
                                 /\ Event(s, type, new).version = v
    BY DEF Event, OutboxRows, Rows
  <1>2. \A e \in OutboxRows : rows \o <<e>> = Append(rows, e) /\ Append(rows, e) \in Seq(OutboxRows)
    BY AppendProperties, AppendIsConcat
  <1>3. /\ old.version \in Nat /\ v = old.version + 1 /\ new.status # "absent"
        /\ 0 .. v = (0 .. old.version) \cup {v}
        /\ \A u \in 0 .. old.version : u < v
    BY DEF Rows, NextRow
  <1>4. /\ ToldVersions(rows, s, Changes) = 0 .. old.version
        /\ ToldInOrder(rows, s, Changes) /\ ToldInOrder(rows, s, {"usage"})
        /\ ToldVersions(rows, s, {"usage"}) = Appended(old, {"assistant"})
        /\ ToldVersions(rows, s, {"message"}) = Appended(old, Roles)
        /\ \A u \in ToldVersions(rows, s, {"usage"}) : u <= old.version
    BY DEF RowIsTold, NextRow
  <1>u. \A u \in ToldVersions(rows, s, {"usage"}) : u \in Nat
    <2>1. \A i \in Told(rows, s, {"usage"}) : rows[i] \in OutboxRows
      BY DEF Told
    <2> QED
      BY <2>1 DEF ToldVersions, OutboxRows
  \* What a change tells, by itself.
  <1>5. ASSUME NEW e \in OutboxRows, e.session = s, e.version = v, e.type \in Changes
        PROVE  /\ ToldVersions(Append(rows, e), s, Changes) = 0 .. v
               /\ ToldInOrder(Append(rows, e), s, Changes) /\ ToldInOrder(Append(rows, e), s, {"usage"})
               /\ ToldVersions(Append(rows, e), s, {"usage"}) = Appended(old, {"assistant"})
               /\ ToldVersions(Append(rows, e), s, {"message"}) =
                    Appended(old, Roles) \cup (IF e.type = "message" THEN {v} ELSE {})
    <2>1. e.type # "usage"
      BY <1>5 DEF Changes
    <2>2. /\ ToldVersions(Append(rows, e), s, Changes) = (0 .. old.version) \cup {v}
          /\ ToldInOrder(Append(rows, e), s, Changes)
      BY <1>3, <1>4, <1>5, OneMoreTold
    <2>3. /\ ToldVersions(Append(rows, e), s, {"usage"}) = ToldVersions(rows, s, {"usage"})
          /\ ToldInOrder(Append(rows, e), s, {"usage"})
      BY <1>4, <2>1, OneMoreTold
    <2>4. ToldVersions(Append(rows, e), s, {"message"}) =
            ToldVersions(rows, s, {"message"}) \cup (IF e.type = "message" THEN {v} ELSE {})
      BY <1>5, OneMoreTold
    <2> QED
      BY <1>3, <1>4, <2>2, <2>3, <2>4
  <1>6. CASE \E type \in {"provider", "archived"} :
               events = <<Event(s, type, new)>> /\ new.messages = old.messages
    <2>1. PICK type \in {"provider", "archived"} : events = <<Event(s, type, new)>>
      BY <1>6
    <2>2. PICK e \in OutboxRows : e = Event(s, type, new)
      BY <1>1, <2>1 DEF EventTypes
    <2>3. e.session = s /\ e.version = v /\ e.type \in Changes /\ e.type # "message"
      BY <1>1, <2>1, <2>2 DEF EventTypes, Changes
    <2>4. rows \o events = Append(rows, e)
      BY <1>2, <2>1, <2>2
    <2>5. \A roles : Appended(new, roles) = Appended(old, roles)
      BY <1>6 DEF Appended
    <2>6. AnswersStand(new)
      BY <1>6 DEF AnswersStand
    <2>7. \A u \in Appended(old, {"assistant"}) : u <= v
      BY <1>3, <1>4, <1>u
    <2> QED
      BY <1>3, <1>5, <2>3, <2>4, <2>5, <2>6, <2>7 DEF RowIsTold
  <1>7. ASSUME NEW m \in Messages, new.messages = Append(old.messages, m), m.at = v,
               m.role = "user", events = <<Event(s, "message", new)>>
        PROVE  RowIsTold(rows \o events, s, new) /\ AnswersStand(new)
    <2>1. PICK e \in OutboxRows : e = Event(s, "message", new)
      BY <1>1 DEF EventTypes
    <2>2. e.session = s /\ e.version = v /\ e.type \in Changes /\ e.type = "message"
      BY <1>1, <2>1 DEF EventTypes, Changes
    <2>3. rows \o events = Append(rows, e)
      BY <1>2, <1>7, <2>1
    <2>4. /\ Appended(new, {"assistant"}) = Appended(old, {"assistant"})
          /\ Appended(new, Roles) = Appended(old, Roles) \cup {v}
          /\ AnswersStand(new)
      BY <1>7, OneMoreMessage DEF Roles
    <2>5. \A u \in Appended(old, {"assistant"}) : u <= v
      BY <1>3, <1>4, <1>u
    <2> QED
      BY <1>3, <1>5, <2>2, <2>3, <2>4, <2>5 DEF RowIsTold
  <1>8. ASSUME NEW m \in Messages, new.messages = Append(old.messages, m), m.at = v,
               m.role = "assistant", AsksLast(old), m.to = old.version,
               events = <<Event(s, "message", new), Event(s, "usage", new)>>
        PROVE  RowIsTold(rows \o events, s, new) /\ AnswersStand(new)
    <2>1. PICK e \in OutboxRows : e = Event(s, "message", new)
      BY <1>1 DEF EventTypes
    <2>2. PICK f \in OutboxRows : f = Event(s, "usage", new)
      BY <1>1 DEF EventTypes
    <2>3. /\ e.session = s /\ e.version = v /\ e.type \in Changes /\ e.type = "message"
          /\ f.session = s /\ f.version = v /\ f.type = "usage"
      BY <1>1, <2>1, <2>2 DEF EventTypes, Changes
    <2>4. PICK told \in Seq(OutboxRows) : told = Append(rows, e)
      BY <1>2
    <2>5. rows \o events = Append(told, f)
      BY <1>8, <2>1, <2>2, <2>4
    <2>6. /\ Appended(new, {"assistant"}) = Appended(old, {"assistant"}) \cup {v}
          /\ Appended(new, Roles) = Appended(old, Roles) \cup {v}
          /\ AnswersStand(new)
      <3>1. m.role \in {"assistant"} /\ m.role \in Roles
        BY <1>8 DEF Roles
      <3> QED
        BY <1>8, <3>1, OneMoreMessage
    <2>7. /\ ToldVersions(told, s, Changes) = 0 .. v
          /\ ToldInOrder(told, s, Changes) /\ ToldInOrder(told, s, {"usage"})
          /\ ToldVersions(told, s, {"usage"}) = Appended(old, {"assistant"})
          /\ ToldVersions(told, s, {"message"}) = Appended(old, Roles) \cup {v}
      BY <1>5, <2>3, <2>4
    <2>8. \A u \in ToldVersions(told, s, {"usage"}) : u < v
      BY <1>3, <1>4, <1>u, <2>7
    <2>9. /\ ToldVersions(Append(told, f), s, Changes) = 0 .. v
          /\ ToldInOrder(Append(told, f), s, Changes)
      BY <2>3, <2>7, OneMoreTold DEF Changes
    <2>10. /\ ToldVersions(Append(told, f), s, {"usage"}) = Appended(old, {"assistant"}) \cup {v}
           /\ ToldInOrder(Append(told, f), s, {"usage"})
      <3>1. f.session = s /\ f.type \in {"usage"}
        BY <2>3
      <3>2. ToldVersions(Append(told, f), s, {"usage"}) = ToldVersions(told, s, {"usage"}) \cup {v}
        BY <2>3, <3>1, OneMoreTold
      <3>3. ToldInOrder(Append(told, f), s, {"usage"})
        BY <2>3, <2>7, <2>8, <3>1, OneMoreTold
      <3> QED
        BY <2>7, <3>2, <3>3
    <2>11. ToldVersions(Append(told, f), s, {"message"}) = Appended(old, Roles) \cup {v}
      BY <2>3, <2>7, OneMoreTold
    <2>12. \A u \in Appended(old, {"assistant"}) \cup {v} : u <= v
      BY <1>3, <1>4, <1>u
    <2> QED
      BY <1>3, <2>5, <2>6, <2>9, <2>10, <2>11, <2>12 DEF RowIsTold
  <1> QED
    BY <1>6, <1>7, <1>8 DEF NextRow

\* The records these commands write.
LEMMA RecordsWritten ==
  /\ \A s \in Sessions, type \in EventTypes, v \in Nat :
       [session |-> s, type |-> type, version |-> v] \in OutboxRows
  /\ \A role \in Roles, at \in Nat, to \in Nat : [role |-> role, at |-> at, to |-> to] \in Messages
  /\ \A v \in Nat, status \in Statuses, provider \in BOOLEAN, messages \in Seq(Messages) :
       [version |-> v, status |-> status, provider |-> provider, messages |-> messages] \in Rows
  BY DEF OutboxRows, Messages, Rows

LEMMA RowsWritten ==
  ASSUME NEW old \in Rows
  PROVE  /\ old.version \in Nat /\ old.version + 1 \in Nat /\ old.status \in Statuses
         /\ old.provider \in BOOLEAN /\ old.messages \in Seq(Messages)
         /\ WithProvider(old) =
              [version |-> old.version + 1, status |-> old.status, provider |-> TRUE,
               messages |-> old.messages]
         /\ Archived(old) =
              [version |-> old.version + 1, status |-> "archived", provider |-> old.provider,
               messages |-> old.messages]
  <1>1. /\ old.version \in Nat /\ old.version + 1 \in Nat /\ old.status \in Statuses
        /\ old.provider \in BOOLEAN /\ old.messages \in Seq(Messages)
    BY DEF Rows
  <1>2. PICK with : with = WithProvider(old)
    OBVIOUS
  <1>3. with = [version |-> old.version + 1, status |-> old.status, provider |-> TRUE,
                messages |-> old.messages]
    BY <1>2 DEF WithProvider, Rows
  <1>4. PICK after : after = Archived(old)
    OBVIOUS
  <1>5. after = [version |-> old.version + 1, status |-> "archived", provider |-> old.provider,
                 messages |-> old.messages]
    BY <1>4 DEF Archived, Rows
  <1> QED
    BY <1>1, <1>2, <1>3, <1>4, <1>5

LEMMA MessageWritten ==
  ASSUME NEW old \in Rows, NEW role \in Roles, NEW m,
         m = [role |-> role, at |-> old.version + 1, to |-> old.version]
  PROVE  /\ m \in Messages /\ Append(old.messages, m) \in Seq(Messages)
         /\ WithMessage(old, role) =
              [version |-> old.version + 1, status |-> old.status, provider |-> old.provider,
               messages |-> Append(old.messages, m)]
  <1>1. m \in Messages
    BY RowsWritten, RecordsWritten
  <1>2. Append(old.messages, m) \in Seq(Messages)
    BY <1>1, RowsWritten, AppendProperties
  <1>3. PICK with : with = WithMessage(old, role)
    OBVIOUS
  <1>4. with = [version |-> old.version + 1, status |-> old.status, provider |-> old.provider,
                messages |-> Append(old.messages, m)]
    BY <1>3 DEF WithMessage, Rows
  <1> QED
    BY <1>1, <1>2, <1>3, <1>4

\* A session that is created, and its first event.
LEMMA CreatedIsTold ==
  ASSUME NEW rows \in Seq(OutboxRows), NEW s \in Sessions, RowIsTold(rows, s, Absent)
  PROVE  /\ Event(s, "created", NewSession) \in OutboxRows
         /\ RowIsTold(Append(rows, Event(s, "created", NewSession)), s, NewSession)
         /\ AnswersStand(NewSession) /\ NewSession \in Rows
  <1>0. Event(s, "created", NewSession) \in OutboxRows
    <2>1. Event(s, "created", NewSession) = [session |-> s, type |-> "created", version |-> 0]
      BY DEF Event, NewSession, Absent
    <2> QED
      BY <2>1, RecordsWritten DEF EventTypes
  <1>1. PICK e \in OutboxRows : e = Event(s, "created", NewSession)
    BY <1>0
  <1>2. e.session = s /\ e.type = "created" /\ e.version = 0
    BY <1>1 DEF Event, NewSession, Absent
  <1>3. /\ NewSession.version = 0 /\ NewSession.status = "active" /\ NewSession.messages = <<>>
        /\ Absent.status = "absent" /\ Absent.messages = <<>> /\ NewSession \in Rows
    <2>0. PICK row : row = NewSession
      OBVIOUS
    <2>1. row = [version |-> 0, status |-> "active", provider |-> FALSE, messages |-> <<>>]
      BY <2>0 DEF NewSession, Absent
    <2>2. <<>> \in Seq(Messages)
      OBVIOUS
    <2>3. row \in Rows
      BY <2>1, <2>2, RecordsWritten DEF Statuses
    <2> QED
      BY <2>0, <2>1, <2>3 DEF Absent
  <1>4. \A roles : Appended(NewSession, roles) = Appended(Absent, roles)
    BY <1>3 DEF Appended
  <1>5. /\ ToldVersions(rows, s, Changes) = {} /\ ToldInOrder(rows, s, Changes)
        /\ ToldVersions(rows, s, {"usage"}) = {} /\ ToldInOrder(rows, s, {"usage"})
        /\ ToldVersions(rows, s, {"usage"}) = Appended(Absent, {"assistant"})
        /\ ToldVersions(rows, s, {"message"}) = Appended(Absent, Roles)
    <2>1. Appended(Absent, {"assistant"}) = {}
      BY <1>3 DEF Appended, Range
    <2> QED
      BY <1>3, <2>1 DEF RowIsTold
  <1>6. e.type \in Changes /\ e.type \notin {"usage"} /\ e.type \notin {"message"}
    BY <1>2 DEF Changes, EventTypes
  <1>7. ToldVersions(Append(rows, e), s, Changes) = {0} /\ ToldInOrder(Append(rows, e), s, Changes)
    <2>1. ToldVersions(Append(rows, e), s, Changes) = ToldVersions(rows, s, Changes) \cup {e.version}
      BY <1>2, <1>6, OneMoreTold
    <2>2. ToldInOrder(Append(rows, e), s, Changes)
      BY <1>2, <1>5, <1>6, OneMoreTold
    <2> QED
      BY <1>2, <1>5, <2>1, <2>2
  <1>8. /\ ToldVersions(Append(rows, e), s, {"usage"}) = ToldVersions(rows, s, {"usage"})
        /\ ToldInOrder(Append(rows, e), s, {"usage"})
        /\ ToldVersions(Append(rows, e), s, {"message"}) = ToldVersions(rows, s, {"message"})
    BY <1>5, <1>6, OneMoreTold
  <1>9. 0 .. 0 = {0}
    OBVIOUS
  <1>10. RowIsTold(Append(rows, e), s, NewSession)
    BY <1>3, <1>4, <1>5, <1>7, <1>8, <1>9 DEF RowIsTold
  <1>11. AnswersStand(NewSession)
    BY <1>3 DEF AnswersStand
  <1> QED
    BY <1>1, <1>3, <1>10, <1>11

\* What the commands make of a session.
LEMMA CommandRows ==
  ASSUME NEW s \in Sessions, NEW old \in Rows
  PROVE  /\ WithMessage(old, "user") \in Rows /\ AsksLast(WithMessage(old, "user"))
         /\ WithMessage(old, "user").status = old.status
         /\ old.status = "active" =>
              /\ NextRow(s, old, WithMessage(old, "user"),
                         <<Event(s, "message", WithMessage(old, "user"))>>)
              /\ NextRow(s, old, WithProvider(old), <<Event(s, "provider", WithProvider(old))>>)
              /\ NextRow(s, old, Archived(old), <<Event(s, "archived", Archived(old))>>)
         /\ WithProvider(old) \in Rows /\ Archived(old) \in Rows
  <1>0. /\ old.version \in Nat /\ old.version + 1 \in Nat /\ old.status \in Statuses
        /\ old.provider \in BOOLEAN /\ old.messages \in Seq(Messages)
    BY RowsWritten
  <1>2. PICK m : m = [role |-> "user", at |-> old.version + 1, to |-> old.version]
    OBVIOUS
  <1>1. /\ m \in Messages /\ Append(old.messages, m) \in Seq(Messages)
        /\ WithMessage(old, "user") =
             [version |-> old.version + 1, status |-> old.status, provider |-> old.provider,
              messages |-> Append(old.messages, m)]
    BY <1>2, MessageWritten DEF Roles
  <1>3. PICK longer \in Seq(Messages) : longer = Append(old.messages, m)
    BY <1>1
  <1>4. PICK new : new = WithMessage(old, "user")
    OBVIOUS
  <1>5. new = [version |-> old.version + 1, status |-> old.status, provider |-> old.provider,
               messages |-> longer]
    BY <1>1, <1>3, <1>4
  <1>6. new \in Rows
    BY <1>0, <1>5, RecordsWritten
  <1>7. m.role = "user" /\ m.at = new.version /\ new.version = old.version + 1
    BY <1>2, <1>5
  <1>8. AsksLast(new)
    <2>1. Len(longer) = Len(old.messages) + 1 /\ longer[Len(old.messages) + 1] = m /\ longer # <<>>
      BY <1>0, <1>1, <1>3, AppendProperties
    <2> QED
      BY <1>5, <1>7, <2>1 DEF AsksLast
  <1>9. old.status = "active" => NextRow(s, old, new, <<Event(s, "message", new)>>)
    BY <1>1, <1>3, <1>5, <1>7 DEF NextRow
  <1>10. /\ WithProvider(old).version = old.version + 1 /\ WithProvider(old).status = old.status
         /\ WithProvider(old).messages = old.messages /\ WithProvider(old) \in Rows
    <2>1. PICK row : row = WithProvider(old)
      OBVIOUS
    <2>2. row = [version |-> old.version + 1, status |-> old.status, provider |-> TRUE,
                 messages |-> old.messages]
      BY <2>1, RowsWritten
    <2>3. row \in Rows
      BY <1>0, <2>2, RecordsWritten
    <2> QED
      BY <2>1, <2>2, <2>3
  <1>11. /\ Archived(old).version = old.version + 1 /\ Archived(old).status = "archived"
         /\ Archived(old).messages = old.messages /\ Archived(old) \in Rows
    <2>1. PICK row : row = Archived(old)
      OBVIOUS
    <2>2. row = [version |-> old.version + 1, status |-> "archived", provider |-> old.provider,
                 messages |-> old.messages]
      BY <2>1, RowsWritten
    <2>3. row \in Rows
      BY <1>0, <2>2, RecordsWritten DEF Statuses
    <2> QED
      BY <2>1, <2>2, <2>3
  <1>12. old.status = "active" =>
           NextRow(s, old, WithProvider(old), <<Event(s, "provider", WithProvider(old))>>)
    BY <1>10 DEF NextRow
  <1>13. old.status = "active" =>
           NextRow(s, old, Archived(old), <<Event(s, "archived", Archived(old))>>)
    BY <1>11 DEF NextRow
  <1> QED
    BY <1>4, <1>5, <1>6, <1>8, <1>9, <1>10, <1>11, <1>12, <1>13

\* The answer of run_provider to what it committed.
LEMMA AnswerRow ==
  ASSUME NEW s \in Sessions, NEW base \in Rows, AsksLast(base), NEW new,
         new = [WithMessage(base, "assistant") EXCEPT !.messages[Len(base.messages) + 1].to = base.version]
  PROVE  /\ new \in Rows
         /\ base.status = "active" => NextRow(s, base, new, <<Event(s, "message", new), Event(s, "usage", new)>>)
  <1>0. /\ base.version \in Nat /\ base.version + 1 \in Nat /\ base.status \in Statuses
        /\ base.provider \in BOOLEAN /\ base.messages \in Seq(Messages)
    BY RowsWritten
  <1>2. PICK m : m = [role |-> "assistant", at |-> base.version + 1, to |-> base.version]
    OBVIOUS
  <1>1. /\ m \in Messages /\ Append(base.messages, m) \in Seq(Messages)
        /\ WithMessage(base, "assistant") =
             [version |-> base.version + 1, status |-> base.status, provider |-> base.provider,
              messages |-> Append(base.messages, m)]
    BY <1>2, MessageWritten DEF Roles
  <1>m. PICK longer \in Seq(Messages) : longer = Append(base.messages, m)
    BY <1>1
  <1>3. WithMessage(base, "assistant") =
          [version |-> base.version + 1, status |-> base.status, provider |-> base.provider,
           messages |-> longer]
    BY <1>1, <1>m
  <1>4. Len(base.messages) + 1 \in DOMAIN longer /\ longer[Len(base.messages) + 1] = m
    BY <1>0, <1>1, <1>m, AppendProperties
  <1>5. [longer EXCEPT ![Len(base.messages) + 1].to = base.version] = longer
    <2>1. [m EXCEPT !.to = base.version] = m
      BY <1>2
    <2> QED
      BY <1>4, <2>1
  <1>c. PICK with \in Rows : with = WithMessage(base, "assistant")
    BY <1>0, <1>3, RecordsWritten
  <1>d. with.messages = longer
    BY <1>3, <1>c
  <1>6. new = [version |-> base.version + 1, status |-> base.status, provider |-> base.provider,
               messages |-> longer]
    <2>1. new = [with EXCEPT !.messages = [@ EXCEPT ![Len(base.messages) + 1].to = base.version]]
      BY <1>c
    <2>2. new = [with EXCEPT !.messages = longer]
      BY <1>5, <1>d, <2>1
    <2> QED
      BY <1>3, <1>c, <2>2 DEF Rows
  <1>7. /\ new.version = base.version + 1 /\ new.status = base.status /\ new.messages = longer
        /\ new \in Rows
    <2>1. new \in Rows
      <3>1. PICK version \in Nat : version = base.version + 1
        BY <1>0
      <3>2. new = [version |-> version, status |-> base.status, provider |-> base.provider,
                   messages |-> longer]
        BY <1>6, <3>1
      <3> QED
        BY <1>0, <3>2, RecordsWritten
    <2> QED
      BY <1>6, <2>1
  <1>8. m.role = "assistant" /\ m.at = new.version /\ m.to = base.version
    BY <1>2, <1>7
  <1> QED
    BY <1>1, <1>m, <1>7, <1>8 DEF NextRow

-----------------------------------------------------------------------------
(* The steps of the callers                                                *)

LEMMA SessionsInvFields ==
  ASSUME SessionsInv
  PROVE  /\ sessions \in [Sessions -> Rows] /\ outbox \in Seq(OutboxRows)
         /\ caller \in [Clients -> {Idle} \cup SaveCopies \cup ProviderCopies]
         /\ \A s \in Sessions : /\ sessions[s] \in Rows /\ RowIsTold(outbox, s, sessions[s])
                                /\ AnswersStand(sessions[s])
                                /\ sessions[s].status = "absent" => sessions[s] = Absent
         /\ \A c \in Clients : CopyIsSound(caller[c])
  BY DEF SessionsInv

\* A caller that starts a save, or ends.
LEMMA CallerMoves ==
  ASSUME SessionsInv, NEW c \in Clients, NEW copy \in {Idle} \cup SaveCopies \cup ProviderCopies,
         CopyIsSound(copy), caller' = [caller EXCEPT ![c] = copy], UNCHANGED <<sessions, outbox>>
  PROVE  SessionsInv'
  <1>1. /\ caller' \in [Clients -> {Idle} \cup SaveCopies \cup ProviderCopies]
        /\ \A d \in Clients : caller'[d] = IF d = c THEN copy ELSE caller[d]
    BY SessionsInvFields
  <1>2. ASSUME NEW d \in Clients PROVE CopyIsSound(caller[d])'
    <2>1. PICK held : held = caller'[d]
      OBVIOUS
    <2>2. CopyIsSound(held)
      BY <1>1, <2>1, SessionsInvFields
    <2>3. CopyIsSound(held)'
      BY <2>2 DEF CopyIsSound, SaveIsNext, QuestionIsLast
    <2> QED
      BY <2>1, <2>3 DEF CopyIsSound, SaveIsNext, QuestionIsLast
  <1>3. /\ sessions' \in [Sessions -> Rows] /\ outbox' \in Seq(OutboxRows)
        /\ \A s \in Sessions : /\ RowIsTold(outbox', s, sessions'[s]) /\ AnswersStand(sessions'[s])
                               /\ sessions'[s].status = "absent" => sessions'[s] = Absent
    BY SessionsInvFields
  <1> QED
    BY <1>1, <1>2, <1>3 DEF SessionsInv

LEMMA IdleIsSound == CopyIsSound(Idle)
  BY DEF CopyIsSound, Idle

LEMMA FewEvents ==
  /\ \A e \in OutboxRows : <<e>> \in Seq(OutboxRows)
  /\ \A e, f \in OutboxRows : <<e, f>> \in Seq(OutboxRows)
  OBVIOUS

\* A command starts with a copy that is the next row.
LEMMA CommandStarts ==
  ASSUME SessionsInv, NEW c \in Clients, NEW s \in Sessions, NEW row \in Rows,
         NEW type \in EventTypes, NEW part \in {"command", "question"},
         Apply(c, s, row, type, part), NextRow(s, sessions[s], row, <<Event(s, type, row)>>),
         part = "question" => AsksLast(row) /\ row.status = "active"
  PROVE  SessionsInv'
  <1>1. sessions[s] \in Rows /\ sessions[s].version \in Nat /\ sessions[s].status # "absent"
    BY SessionsInvFields DEF Rows, Apply, Mutable
  <1>2. PICK expected \in Nat : expected = sessions[s].version
    BY <1>1
  <1>3. Event(s, type, row) \in OutboxRows
    <2>1. row.version \in Nat
      BY DEF Rows
    <2> QED
      BY <2>1, RecordsWritten DEF Event
  <1>4. PICK events \in Seq(OutboxRows) : events = <<Event(s, type, row)>>
    BY <1>3, FewEvents
  <1>5. PICK copy : copy = Saving(s, expected, row, events, part)
    OBVIOUS
  <1>6. /\ copy \in SaveCopies /\ copy.at = "save" /\ copy.session = s /\ copy.expected = expected
        /\ copy.row = row /\ copy.events = events /\ copy.part = part
    BY <1>5 DEF Saving, SaveCopies
  <1>7. CopyIsSound(copy)
    BY <1>1, <1>2, <1>4, <1>6 DEF CopyIsSound, SaveIsNext
  <1> QED
    BY <1>2, <1>4, <1>5, <1>6, <1>7, CallerMoves DEF Apply

\* The row of a session changes to a higher version, and its events tell so.
LEMMA SessionMoves ==
  ASSUME SessionsInv, NEW s \in Sessions, NEW new \in Rows, NEW events \in Seq(OutboxRows),
         RowIsTold(outbox \o events, s, new), AnswersStand(new), new.status # "absent",
         \A x \in Sessions \ {s} : RowIsTold(outbox \o events, x, sessions[x]),
         sessions' = [sessions EXCEPT ![s] = new], outbox' = outbox \o events
  PROVE  /\ sessions' \in [Sessions -> Rows] /\ outbox' \in Seq(OutboxRows)
         /\ \A x \in Sessions :
              /\ RowIsTold(outbox', x, sessions'[x]) /\ AnswersStand(sessions'[x])
              /\ sessions'[x].status = "absent" => sessions'[x] = Absent
         /\ \A copy \in {Idle} \cup SaveCopies \cup ProviderCopies :
              /\ copy.at = "save" /\ copy.session = s => copy.expected < new.version
              /\ copy.at = "provider" /\ copy.session = s => copy.row.version < new.version
              /\ CopyIsSound(copy)
              => CopyIsSound(copy)'
  <1>1. sessions' \in [Sessions -> Rows] /\ outbox' \in Seq(OutboxRows)
    BY SessionsInvFields, ConcatProperties
  <1>2. \A x \in Sessions : sessions'[x] = IF x = s THEN new ELSE sessions[x]
    BY SessionsInvFields
  <1>3. ASSUME NEW x \in Sessions
        PROVE  /\ RowIsTold(outbox', x, sessions'[x]) /\ AnswersStand(sessions'[x])
               /\ sessions'[x].status = "absent" => sessions'[x] = Absent
    <2>1. CASE x = s
      BY <1>2, <2>1
    <2>2. CASE x # s
      BY <1>2, <2>2, SessionsInvFields
    <2> QED
      BY <2>1, <2>2
  <1>4. ASSUME NEW copy \in {Idle} \cup SaveCopies \cup ProviderCopies, CopyIsSound(copy),
               copy.at = "save" /\ copy.session = s => copy.expected < new.version,
               copy.at = "provider" /\ copy.session = s => copy.row.version < new.version
        PROVE  CopyIsSound(copy)'
    <2>1. ASSUME copy.at = "save" PROVE SaveIsNext(copy)'
      <3>1. copy.session \in Sessions /\ copy.expected \in Nat /\ SaveIsNext(copy)
        BY <1>4, <2>1 DEF CopyIsSound, Idle, SaveCopies, ProviderCopies
      <3>2. CASE copy.session = s
        BY <1>2, <1>4, <2>1, <3>1, <3>2 DEF SaveIsNext, Rows
      <3>3. CASE copy.session # s
        BY <1>2, <3>1, <3>3 DEF SaveIsNext
      <3> QED
        BY <3>2, <3>3
    <2>2. ASSUME copy.at = "provider" PROVE QuestionIsLast(copy)'
      <3>1. copy.session \in Sessions /\ copy.row \in Rows /\ QuestionIsLast(copy)
        BY <1>4, <2>2 DEF CopyIsSound, Idle, SaveCopies, ProviderCopies
      <3>2. CASE copy.session = s
        BY <1>2, <1>4, <2>2, <3>1, <3>2 DEF QuestionIsLast, Rows
      <3>3. CASE copy.session # s
        BY <1>2, <3>1, <3>3 DEF QuestionIsLast
      <3> QED
        BY <3>2, <3>3
    <2> QED
      BY <2>1, <2>2 DEF CopyIsSound
  <1> QED
    BY <1>1, <1>3, <1>4

LEMMA CreateKeeps ==
  ASSUME SessionsInv, NEW s \in Sessions, CreateSession(s) PROVE SessionsInv'
  <1>1. PICK new \in Rows : new = NewSession
    BY CreatedIsTold, SessionsInvFields DEF CreateSession, Create
  <1>2. /\ sessions[s].status = "absent" /\ sessions[s] = Absent
        /\ sessions' = [sessions EXCEPT ![s] = new]
        /\ outbox' = outbox \o <<Event(s, "created", new)>> /\ caller' = caller
    BY <1>1, SessionsInvFields DEF CreateSession, Create
  <1>3. PICK rows \in Seq(OutboxRows) : rows = outbox
    BY SessionsInvFields
  <1>4. /\ Event(s, "created", new) \in OutboxRows /\ AnswersStand(new)
        /\ RowIsTold(Append(rows, Event(s, "created", new)), s, new)
    BY <1>1, <1>2, <1>3, SessionsInvFields, CreatedIsTold
  <1>5. PICK e \in OutboxRows : e = Event(s, "created", new)
    BY <1>4
  <1>6. PICK events \in Seq(OutboxRows) : events = <<e>>
    BY FewEvents
  <1>7. rows \o events = Append(rows, e)
    BY <1>6, AppendIsConcat
  <1>8. e.session = s
    BY <1>5 DEF Event
  <1>9. ASSUME NEW x \in Sessions \ {s} PROVE RowIsTold(outbox \o events, x, sessions[x])
    <2>1. PICK row : row = sessions[x]
      OBVIOUS
    <2>2. RowIsTold(rows, x, row)
      BY <1>3, <2>1, SessionsInvFields
    <2>3. RowIsTold(Append(rows, e), x, row)
      BY <1>8, <2>2, OthersAreToldTheSame
    <2> QED
      BY <1>3, <1>7, <2>1, <2>3
  <1>10. new.status # "absent"
    BY <1>1 DEF NewSession, Absent
  <1>11. RowIsTold(outbox \o events, s, new)
    BY <1>3, <1>4, <1>5, <1>7
  <1>12. outbox' = outbox \o events
    BY <1>2, <1>5, <1>6
  <1>13. /\ sessions' \in [Sessions -> Rows] /\ outbox' \in Seq(OutboxRows)
         /\ \A x \in Sessions :
              /\ RowIsTold(outbox', x, sessions'[x]) /\ AnswersStand(sessions'[x])
              /\ sessions'[x].status = "absent" => sessions'[x] = Absent
         /\ \A copy \in {Idle} \cup SaveCopies \cup ProviderCopies :
              /\ copy.at = "save" /\ copy.session = s => copy.expected < new.version
              /\ copy.at = "provider" /\ copy.session = s => copy.row.version < new.version
              /\ CopyIsSound(copy)
              => CopyIsSound(copy)'
    BY <1>2, <1>4, <1>9, <1>10, <1>11, <1>12, SessionMoves
  <1>14. ASSUME NEW c \in Clients PROVE CopyIsSound(caller[c])'
    <2>1. PICK copy \in {Idle} \cup SaveCopies \cup ProviderCopies : copy = caller[c]
      BY SessionsInvFields
    <2>2. CopyIsSound(copy)
      BY <2>1, SessionsInvFields
    <2>3. ~(copy.at = "save" /\ copy.session = s) /\ ~(copy.at = "provider" /\ copy.session = s)
      BY <1>2, <2>2 DEF CopyIsSound, SaveIsNext, QuestionIsLast
    <2>4. CopyIsSound(copy)'
      BY <1>13, <2>2, <2>3
    <2> QED
      BY <1>2, <2>1, <2>4 DEF CopyIsSound, SaveIsNext, QuestionIsLast
  <1> QED
    BY <1>2, <1>13, <1>14, SessionsInvFields DEF SessionsInv

LEMMA SaveKeeps ==
  ASSUME SessionsInv, NEW c \in Clients, Save(c) PROVE SessionsInv'
  <1>1. PICK copy \in SaveCopies : copy = caller[c]
    BY SessionsInvFields DEF Save, Idle, ProviderCopies
  <1>2. PICK s \in Sessions : s = copy.session
    BY DEF SaveCopies
  <1>3. PICK new \in Rows : new = copy.row
    BY DEF SaveCopies
  <1>4. PICK events \in Seq(OutboxRows) : events = copy.events
    BY DEF SaveCopies
  <1>5. PICK old \in Rows : old = sessions[s]
    BY SessionsInvFields
  <1>6. PICK rows \in Seq(OutboxRows) : rows = outbox
    BY SessionsInvFields
  <1>7. copy.at = "save" /\ copy.expected = old.version /\ copy.expected \in Nat
    BY <1>1, <1>2, <1>5 DEF Save, Matches, SaveCopies
  <1>8. SaveIsNext(copy)
    BY <1>1, <1>7, SessionsInvFields DEF CopyIsSound
  <1>9. /\ NextRow(s, old, new, events) /\ old.status # "absent"
        /\ copy.part = "question" => AsksLast(new) /\ new.status = "active"
    BY <1>2, <1>3, <1>4, <1>5, <1>7, <1>8 DEF SaveIsNext
  <1>10. /\ RowIsTold(rows, s, old) /\ AnswersStand(old)
    BY <1>5, <1>6, SessionsInvFields
  <1>11. RowIsTold(rows \o events, s, new) /\ AnswersStand(new)
    BY <1>9, <1>10, NextRowIsTold
  <1>12. ASSUME NEW x \in Sessions \ {s} PROVE RowIsTold(outbox \o events, x, sessions[x])
    <2>1. PICK row : row = sessions[x]
      OBVIOUS
    <2>2. RowIsTold(rows, x, row)
      BY <1>6, <2>1, SessionsInvFields
    <2>3. RowIsTold(rows \o events, x, row)
      BY <1>9, <2>2, OthersAreToldNothing
    <2> QED
      BY <1>6, <2>1, <2>3
  <1>13. /\ sessions' = [sessions EXCEPT ![s] = new] /\ outbox' = outbox \o events
         /\ caller' = [caller EXCEPT ![c] = AfterSave(c)]
    BY <1>1, <1>2, <1>3, <1>4 DEF Save
  <1>14. /\ new.status # "absent" /\ new.version = old.version + 1
         /\ old.version \in Nat
    BY <1>9 DEF NextRow, Rows
  <1>15. /\ sessions' \in [Sessions -> Rows] /\ outbox' \in Seq(OutboxRows)
         /\ \A x \in Sessions :
              /\ RowIsTold(outbox', x, sessions'[x]) /\ AnswersStand(sessions'[x])
              /\ sessions'[x].status = "absent" => sessions'[x] = Absent
         /\ \A held \in {Idle} \cup SaveCopies \cup ProviderCopies :
              /\ held.at = "save" /\ held.session = s => held.expected < new.version
              /\ held.at = "provider" /\ held.session = s => held.row.version < new.version
              /\ CopyIsSound(held)
              => CopyIsSound(held)'
    BY <1>6, <1>11, <1>12, <1>13, <1>14, SessionMoves
  <1>16. PICK after : after = AfterSave(c)
    OBVIOUS
  <1>17. after \in {Idle} \cup SaveCopies \cup ProviderCopies /\ CopyIsSound(after)'
    <2>1. CASE after = Idle
      <3>1. after.at # "save" /\ after.at # "provider"
        BY <2>1 DEF Idle
      <3> QED
        BY <2>1, <3>1 DEF CopyIsSound
    <2>2. CASE copy.part = "question" /\ after = [at |-> "provider", session |-> s, row |-> new]
      <3>1. /\ after \in ProviderCopies /\ after.at = "provider" /\ after.session = s /\ after.row = new
        BY <2>2 DEF ProviderCopies
      <3>2. sessions'[s] = new
        BY <1>13, SessionsInvFields
      <3>3. new.version \in Nat /\ AsksLast(new) /\ new.status = "active"
        BY <1>9, <1>14, <2>2
      <3>4. QuestionIsLast(after)'
        BY <1>14, <3>1, <3>2, <3>3 DEF QuestionIsLast
      <3> QED
        BY <3>1, <3>4 DEF CopyIsSound
    <2> QED
      BY <1>1, <1>2, <1>3, <1>16, <2>1, <2>2 DEF AfterSave
  <1>18. ASSUME NEW d \in Clients PROVE CopyIsSound(caller[d])'
    <2>1. CASE d = c
      <3>1. caller'[d] = after
        BY <1>13, <1>16, <2>1, SessionsInvFields
      <3> QED
        BY <1>17, <3>1 DEF CopyIsSound, SaveIsNext, QuestionIsLast
    <2>2. CASE d # c
      <3>1. PICK held \in {Idle} \cup SaveCopies \cup ProviderCopies : held = caller[d]
        BY SessionsInvFields
      <3>2. CopyIsSound(held) /\ caller'[d] = held
        BY <1>13, <2>2, <3>1, SessionsInvFields
      <3>3. held.at = "save" /\ held.session = s => held.expected < new.version
        BY <1>5, <1>14, <3>1, <3>2 DEF CopyIsSound, SaveIsNext, SaveCopies, ProviderCopies, Idle
      <3>4. held.at = "provider" /\ held.session = s => held.row.version < new.version
        <4> SUFFICES ASSUME held.at = "provider", held.session = s PROVE held.row.version < new.version
          OBVIOUS
        <4>1. held.row \in Rows /\ QuestionIsLast(held)
          BY <3>1, <3>2 DEF CopyIsSound, SaveCopies, ProviderCopies, Idle
        <4>2. held.row.version \in Nat /\ held.row.version <= old.version
          BY <1>5, <4>1 DEF QuestionIsLast, Rows
        <4> QED
          BY <1>14, <4>2
      <3>5. CopyIsSound(held)'
        BY <1>15, <3>2, <3>3, <3>4
      <3> QED
        BY <3>2, <3>5 DEF CopyIsSound, SaveIsNext, QuestionIsLast
    <2> QED
      BY <2>1, <2>2
  <1>19. caller' \in [Clients -> {Idle} \cup SaveCopies \cup ProviderCopies]
    BY <1>13, <1>16, <1>17, SessionsInvFields
  <1> QED
    BY <1>15, <1>18, <1>19 DEF SessionsInv

LEMMA AnswerKeeps ==
  ASSUME SessionsInv, NEW c \in Clients, ProviderAnswers(c) PROVE SessionsInv'
  <1>1. PICK copy \in ProviderCopies : copy = caller[c]
    BY SessionsInvFields DEF ProviderAnswers, Idle, SaveCopies
  <1>2. PICK s \in Sessions : s = copy.session
    BY DEF ProviderCopies
  <1>3. PICK base \in Rows : base = copy.row
    BY DEF ProviderCopies
  <1>4. QuestionIsLast(copy)
    BY <1>1, SessionsInvFields DEF CopyIsSound, ProviderCopies
  <1>5. /\ sessions[s].status # "absent" /\ base.version <= sessions[s].version
        /\ base.version = sessions[s].version => base = sessions[s]
        /\ AsksLast(base) /\ base.status = "active" /\ base.version \in Nat
    BY <1>2, <1>3, <1>4 DEF QuestionIsLast, Rows
  <1>6. PICK new : new = [WithMessage(base, "assistant") EXCEPT
                            !.messages[Len(base.messages) + 1].to = base.version]
    OBVIOUS
  <1>r. new \in Rows
    BY <1>5, <1>6, AnswerRow
  <1>e. Event(s, "message", new) \in OutboxRows /\ Event(s, "usage", new) \in OutboxRows
    <2>1. new.version \in Nat
      BY <1>r DEF Rows
    <2> QED
      BY <2>1, RecordsWritten DEF Event, EventTypes
  <1>7. PICK events \in Seq(OutboxRows) : events = <<Event(s, "message", new), Event(s, "usage", new)>>
    BY <1>e, FewEvents
  <1>8. /\ caller' = [caller EXCEPT ![c] = Saving(s, base.version, new, events, "answer")]
        /\ UNCHANGED <<sessions, outbox>>
    BY <1>1, <1>2, <1>3, <1>6, <1>7 DEF ProviderAnswers, AnswerBase
  <1>9. PICK saving : saving = Saving(s, base.version, new, events, "answer")
    OBVIOUS
  <1>10. base.version = sessions[s].version => NextRow(s, base, new, events)
    BY <1>5, <1>6, <1>7, AnswerRow
  <1>11. /\ saving \in SaveCopies /\ saving.at = "save" /\ saving.session = s
         /\ saving.expected = base.version /\ saving.row = new /\ saving.events = events
         /\ saving.part = "answer"
    BY <1>5, <1>9, <1>r DEF Saving, SaveCopies
  <1>12. CopyIsSound(saving)
    BY <1>5, <1>10, <1>11 DEF CopyIsSound, SaveIsNext
  <1> QED
    BY <1>8, <1>9, <1>11, <1>12, CallerMoves

\* Sessions, events and the copies of the callers stay in step.
LEMMA SessionStepKeeps == SessionsInv /\ [SessionNext]_sessionVars => SessionsInv'
  <1> SUFFICES ASSUME SessionsInv, [SessionNext]_sessionVars PROVE SessionsInv'
    OBVIOUS
  <1>1. ASSUME NEW s \in Sessions, CreateSession(s) PROVE SessionsInv'
    BY <1>1, CreateKeeps
  <1>2. ASSUME NEW c \in Clients, NEW s \in Sessions,
               AppendMessage(c, s) \/ SelectProvider(c, s) \/ ArchiveSession(c, s) \/ RunProvider(c, s)
        PROVE  SessionsInv'
    <2>1. PICK old \in Rows : old = sessions[s]
      BY SessionsInvFields
    <2>2. old.status = "active"
      BY <1>2, <2>1 DEF AppendMessage, SelectProvider, ArchiveSession, RunProvider, Apply, Mutable
    <2>3. CASE AppendMessage(c, s) \/ RunProvider(c, s)
      <3>1. PICK row \in Rows : row = WithMessage(old, "user")
        BY CommandRows
      <3>2. NextRow(s, sessions[s], row, <<Event(s, "message", row)>>) /\ AsksLast(row) /\ row.status = "active"
        BY <2>1, <2>2, <3>1, CommandRows
      <3>3. \E part \in {"command", "question"} : Apply(c, s, row, "message", part)
        BY <2>1, <2>3, <3>1 DEF AppendMessage, RunProvider
      <3>4. "message" \in EventTypes
        BY DEF EventTypes
      <3> QED
        BY <3>2, <3>3, <3>4, CommandStarts
    <2>4. CASE SelectProvider(c, s)
      <3>1. PICK row \in Rows : row = WithProvider(old)
        BY CommandRows
      <3>2. NextRow(s, sessions[s], row, <<Event(s, "provider", row)>>)
        BY <2>1, <2>2, <3>1, CommandRows
      <3>3. Apply(c, s, row, "provider", "command")
        BY <2>1, <2>4, <3>1 DEF SelectProvider
      <3>4. "provider" \in EventTypes
        BY DEF EventTypes
      <3> QED
        BY <3>2, <3>3, <3>4, CommandStarts
    <2>5. CASE ArchiveSession(c, s)
      <3>1. PICK row \in Rows : row = Archived(old)
        BY CommandRows
      <3>2. NextRow(s, sessions[s], row, <<Event(s, "archived", row)>>)
        BY <2>1, <2>2, <3>1, CommandRows
      <3>3. Apply(c, s, row, "archived", "command")
        BY <2>1, <2>5, <3>1 DEF ArchiveSession
      <3>4. "archived" \in EventTypes
        BY DEF EventTypes
      <3> QED
        BY <3>2, <3>3, <3>4, CommandStarts
    <2> QED
      BY <1>2, <2>3, <2>4, <2>5
  <1>3. ASSUME NEW c \in Clients, Save(c) PROVE SessionsInv'
    BY <1>3, SaveKeeps
  <1>4. ASSUME NEW c \in Clients, SaveConflicts(c) \/ CommandEnds(c) PROVE SessionsInv'
    BY <1>4, IdleIsSound, CallerMoves DEF SaveConflicts, CommandEnds
  <1>5. ASSUME NEW c \in Clients, ProviderAnswers(c) PROVE SessionsInv'
    BY <1>5, AnswerKeeps
  <1>6. CASE UNCHANGED sessionVars
    BY <1>6 DEF sessionVars, SessionsInv, CopyIsSound, SaveIsNext, QuestionIsLast
  <1> QED
    BY <1>1, <1>2, <1>3, <1>4, <1>5, <1>6 DEF SessionNext

\* No session is told by an empty outbox.
LEMMA NothingIsTold == \A s : RowIsTold(<<>>, s, Absent) /\ AnswersStand(Absent)
  <1> SUFFICES ASSUME NEW s PROVE RowIsTold(<<>>, s, Absent) /\ AnswersStand(Absent)
    OBVIOUS
  <1>1. \A types : Told(<<>>, s, types) = {}
    BY DEF Told
  <1>2. \A types : ToldVersions(<<>>, s, types) = {} /\ ToldInOrder(<<>>, s, types)
    BY <1>1 DEF ToldVersions, ToldInOrder
  <1>3. Absent.messages = <<>> /\ Absent.status = "absent"
    BY DEF Absent
  <1>4. \A roles : Appended(Absent, roles) = {}
    BY <1>3 DEF Appended, Range
  <1> QED
    <2>1. RowIsTold(<<>>, s, Absent)
      BY <1>2, <1>3, <1>4 DEF RowIsTold
    <2>2. AnswersStand(Absent)
      BY <1>3 DEF AnswersStand
    <2> QED
      BY <2>1, <2>2

LEMMA AbsentIsARow == Absent \in Rows /\ Absent.status = "absent"
  <1>1. <<>> \in Seq(Messages)
    OBVIOUS
  <1> QED
    BY <1>1, RecordsWritten DEF Absent, Statuses

LEMMA SessionsStart == Init => SessionsInv
  <1> SUFFICES ASSUME Init PROVE SessionsInv
    OBVIOUS
  <1>1. CASE SessionInit
    BY <1>1, NothingIsTold, AbsentIsARow, IdleIsSound DEF SessionInit, SessionsInv
  <1>2. CASE History
    <2>1. PICK s \in Sessions :
            /\ sessions = [x \in Sessions |-> IF x = s THEN Archived(NewSession) ELSE Absent]
            /\ outbox = <<Event(s, "created", NewSession), Event(s, "archived", Archived(NewSession))>>
      BY <1>2, DeliveryAssumption DEF History
    <2>m. <<>> \in Seq(OutboxRows)
      OBVIOUS
    <2>s. PICK none \in Seq(OutboxRows) : none = <<>>
      BY <2>m
    <2>n. RowIsTold(none, s, Absent)
      BY <2>s, NothingIsTold
    <2>2. PICK e \in OutboxRows : e = Event(s, "created", NewSession)
      BY <2>n, CreatedIsTold
    <2>3. PICK first \in Seq(OutboxRows) : first = <<e>>
      BY FewEvents
    <2>4. Append(none, e) = first
      BY <2>s, <2>3
    <2>5. PICK old \in Rows : old = NewSession
      BY <2>n, CreatedIsTold
    <2>6. RowIsTold(first, s, old) /\ AnswersStand(old)
      BY <2>2, <2>4, <2>5, <2>n, CreatedIsTold
    <2>7. old.status = "active"
      BY <2>5 DEF NewSession, Absent
    <2>8. PICK new \in Rows : new = Archived(old)
      BY CommandRows
    <2>9. PICK events : events = <<Event(s, "archived", new)>>
      OBVIOUS
    <2>10. NextRow(s, old, new, events)
      BY <2>7, <2>8, <2>9, CommandRows
    <2>11. RowIsTold(first \o events, s, new) /\ AnswersStand(new)
      BY <2>6, <2>7, <2>10, NextRowIsTold
    <2>12. outbox = first \o events /\ outbox \in Seq(OutboxRows)
      <3>1. Event(s, "archived", new) \in OutboxRows
        <4>1. new.version \in Nat
          BY DEF Rows
        <4> QED
          BY <4>1, RecordsWritten DEF Event, EventTypes
      <3>2. PICK f \in OutboxRows : f = Event(s, "archived", new)
        BY <3>1
      <3>3. outbox = <<e, f>>
        BY <2>1, <2>2, <2>5, <2>8, <3>2
      <3> QED
        BY <2>3, <2>9, <3>2, <3>3, FewEvents
    <2>13. ASSUME NEW x \in Sessions \ {s} PROVE RowIsTold(outbox, x, Absent)
      <3>1. e.session = s
        BY <2>2 DEF Event
      <3>2. RowIsTold(first, x, Absent)
        BY <2>4, <2>s, <3>1, NothingIsTold, OthersAreToldTheSame
      <3> QED
        BY <2>10, <2>12, <3>2, OthersAreToldNothing
    <2>14. \A x \in Sessions : sessions[x] = IF x = s THEN new ELSE Absent
      BY <2>1, <2>5, <2>8
    <2>15. sessions \in [Sessions -> Rows]
      BY <2>1, <2>5, <2>8, AbsentIsARow
    <2>16. new.status # "absent"
      BY <2>10 DEF NextRow
    <2>17. ASSUME NEW x \in Sessions
           PROVE  /\ RowIsTold(outbox, x, sessions[x]) /\ AnswersStand(sessions[x])
                  /\ sessions[x].status = "absent" => sessions[x] = Absent
      BY <2>11, <2>12, <2>13, <2>14, <2>16, NothingIsTold
    <2>18. caller = [c \in Clients |-> Idle]
      BY <1>2 DEF History
    <2> QED
      BY <2>12, <2>15, <2>17, <2>18, IdleIsSound DEF SessionsInv
  <1> QED
    BY <1>1, <1>2 DEF Init

\* Nothing but the callers touches sessions, their copies and the outbox.
LEMMA OthersLeaveSessions == [Next]_vars => [SessionNext]_sessionVars
  BY DEF Next, vars, Command, PublisherStep, ConsumerStep, ReadPending, PublishHead, MarkPublished,
         PublishFails, MarkFails, StopPublisher, OutboxLeaseLapses, ReadJournal, Reconnect,
         Deliver, ClaimEvent, Handle, Complete, Fail, PublishDeadLetter, Ack, StopConsumer,
         AckWaitExpires, InboxClaimLapses

THEOREM SessionsStayInStep == Spec => []SessionsInv
  BY SessionsStart, SessionStepKeeps, OthersLeaveSessions, PTL DEF Spec

\* A session reads like one conversation and its events tell it exactly,
\* however many callers save and providers answer, in whatever order.
THEOREM ConversationsStayTrue == Spec => []ConversationsAreTrue
  BY SessionsStayInStep, SessionsInvImplies, PTL

LEMMA GrowingIsPrefix ==
  ASSUME NEW S, NEW s \in Seq(S), NEW e \in S
  PROVE  IsPrefix(s, s) /\ IsPrefix(s, Append(s, e))
  <1>1. /\ Append(s, e) \in Seq(S) /\ Len(Append(s, e)) = Len(s) + 1 /\ Len(s) \in Nat
        /\ \A i \in 1 .. Len(s) : Append(s, e)[i] = s[i]
    BY AppendProperties
  <1>2. SubSeq(s, 1, Len(s)) = [i \in 1 .. Len(s) |-> s[i]]
    BY <1>1
  <1>3. SubSeq(Append(s, e), 1, Len(s)) = [i \in 1 .. Len(s) |-> Append(s, e)[i]]
    BY <1>1
  <1> QED
    BY <1>1, <1>2, <1>3 DEF IsPrefix

\* A session's history only grows and ends when it is archived: no save drops a
\* message somebody else saved (ensure_version, ensure_mutable, save).
THEOREM HistoriesGrow == Spec => HistoryOnlyGrows
  <1>1. ASSUME SessionsInv, [SessionNext]_sessionVars, NEW x \in Sessions
        PROVE  /\ IsPrefix(sessions[x].messages, sessions'[x].messages)
               /\ sessions[x].status = "archived" => sessions'[x] = sessions[x]
    <2>1. PICK old \in Rows : old = sessions[x]
      BY <1>1, SessionsInvFields
    <2>2. old.messages \in Seq(Messages)
      BY DEF Rows
    <2>3. CASE sessions'[x] = sessions[x]
      <3>1. \E m : m \in Messages
        BY RecordsWritten DEF Roles
      <3> QED
        BY <2>1, <2>2, <2>3, <3>1, GrowingIsPrefix
    <2>4. ASSUME NEW s \in Sessions, CreateSession(s), s = x
          PROVE  old.status = "absent" /\ old = Absent /\ sessions'[x] = NewSession
      BY <1>1, <2>1, <2>4, SessionsInvFields DEF CreateSession, Create
    <2>5. ASSUME NEW s \in Sessions, CreateSession(s), s # x
          PROVE  sessions'[x] = sessions[x]
      BY <1>1, <2>5, SessionsInvFields DEF CreateSession, Create
    <2>6. ASSUME NEW c \in Clients, Save(c), caller[c].session # x
          PROVE  sessions'[x] = sessions[x]
      BY <1>1, <2>6, SessionsInvFields DEF Save
    <2>7. ASSUME NEW c \in Clients, Save(c), caller[c].session = x
          PROVE  /\ old.status = "active"
                 /\ sessions'[x].messages = old.messages
                      \/ \E m \in Messages : sessions'[x].messages = Append(old.messages, m)
      <3>1. CopyIsSound(caller[c]) /\ caller[c].at = "save" /\ caller[c].expected = old.version
        BY <1>1, <2>1, <2>7, SessionsInvFields DEF Save, Matches
      <3>2. NextRow(x, old, caller[c].row, caller[c].events)
        BY <2>1, <2>7, <3>1 DEF CopyIsSound, SaveIsNext
      <3>3. sessions'[x] = caller[c].row
        BY <1>1, <2>7, SessionsInvFields DEF Save
      <3> QED
        BY <3>2, <3>3 DEF NextRow
    <2>8. CASE \E s \in Sessions : CreateSession(s)
      <3>1. NewSession.messages = <<>> /\ Absent.messages = <<>>
        BY DEF NewSession, Absent
      <3>2. IsPrefix(<<>>, <<>>)
        BY DEF IsPrefix
      <3> QED
        BY <2>1, <2>3, <2>4, <2>5, <2>8, <3>1, <3>2
    <2>9. CASE \E c \in Clients : Save(c)
      <3>1. PICK c \in Clients : Save(c)
        BY <2>9
      <3>2. CASE caller[c].session = x
        <4>1. \E m : m \in Messages
          BY RecordsWritten DEF Roles
        <4> QED
          BY <2>1, <2>2, <2>7, <3>1, <3>2, <4>1, GrowingIsPrefix
      <3> QED
        BY <2>3, <2>6, <3>1, <3>2
    <2>10. CASE ~(\E s \in Sessions : CreateSession(s)) /\ ~(\E c \in Clients : Save(c))
      <3>1. sessions' = sessions
        BY <1>1, <2>10 DEF SessionNext, sessionVars, AppendMessage, SelectProvider, ArchiveSession,
             RunProvider, Apply, SaveConflicts, ProviderAnswers, CommandEnds
      <3> QED
        BY <2>3, <3>1
    <2> QED
      BY <2>8, <2>9, <2>10
  <1>2. SessionsInv /\ [Next]_vars => [KeepsHistory]_sessionVars
    BY <1>1, OthersLeaveSessions DEF KeepsHistory
  <1> QED
    BY <1>2, SessionsStayInStep, PTL DEF Spec, HistoryOnlyGrows

-----------------------------------------------------------------------------
(* Minima, sequences and counts                                            *)

LEMMA MinIsIn ==
  ASSUME NEW S \in SUBSET Nat, S # {}
  PROVE  Min(S) \in S /\ \A y \in S : Min(S) <= y
  <1>1. PICK R : R = OpToRel(<, Nat)
    OBVIOUS
  <1>2. IsWellFoundedOn(R, Nat)
    BY <1>1, NatLessThanWellFounded
  <1>3. PICK x \in S : \A y \in S : ~(<<y, x>> \in R)
    BY <1>2, WFMin
  <1>4. \A y \in Nat, z \in Nat : y < z => <<y, z>> \in R
    BY <1>1 DEF OpToRel
  <1>5. x \in Nat /\ \A y \in S : y \in Nat /\ ~(y < x)
    BY <1>3, <1>4
  <1>6. \A y \in S : x <= y
    BY <1>5
  <1> QED
    BY <1>6 DEF Min

LEMMA SeqWidens ==
  ASSUME NEW S, NEW T, S \subseteq T, NEW s \in Seq(S)
  PROVE  s \in Seq(T)
  <1>1. s \in [1 .. Len(s) -> S] /\ Len(s) \in Nat
    OBVIOUS
  <1>2. s \in [1 .. Len(s) -> T]
    BY <1>1
  <1> QED
    BY <1>1, <1>2

LEMMA CountShrinks ==
  ASSUME NEW T, IsFiniteSet(T), NEW S, S \subseteq T
  PROVE  IsFiniteSet(S) /\ Cardinality(S) \in Nat /\ Cardinality(T) \in Nat
           /\ Cardinality(S) <= Cardinality(T)
  BY FS_Subset, FS_CardinalityType

LEMMA CountGrows ==
  ASSUME NEW T, IsFiniteSet(T), NEW x, NEW S, S \subseteq T \cup {x}
  PROVE  IsFiniteSet(S) /\ Cardinality(S) \in Nat /\ Cardinality(T) \in Nat
           /\ Cardinality(S) <= Cardinality(T) + 1
  <1>1. /\ IsFiniteSet(T \cup {x}) /\ Cardinality(T) \in Nat
        /\ Cardinality(T \cup {x}) <= Cardinality(T) + 1
    BY FS_AddElement, FS_CardinalityType
  <1>2. IsFiniteSet(S) /\ Cardinality(S) \in Nat /\ Cardinality(S) <= Cardinality(T \cup {x})
    BY <1>1, CountShrinks
  <1>3. Cardinality(T \cup {x}) \in Nat
    BY <1>1, FS_CardinalityType
  <1> QED
    BY <1>1, <1>2, <1>3

LEMMA CountLoses ==
  ASSUME NEW T, IsFiniteSet(T), NEW x \in T, NEW S, S \subseteq T \ {x}
  PROVE  IsFiniteSet(S) /\ Cardinality(S) \in Nat /\ Cardinality(T) \in Nat
           /\ Cardinality(S) + 1 <= Cardinality(T)
  <1>1. /\ IsFiniteSet(T \ {x}) /\ Cardinality(T) \in Nat
        /\ Cardinality(T \ {x}) = Cardinality(T) - 1
    BY FS_RemoveElement, FS_CardinalityType
  <1>2. IsFiniteSet(S) /\ Cardinality(S) \in Nat /\ Cardinality(S) <= Cardinality(T \ {x})
    BY <1>1, CountShrinks
  <1> QED
    BY <1>1, <1>2

-----------------------------------------------------------------------------
(* What publishers, the stream and its consumers hold                      *)

LeaseRows == [by : Instances \cup {Nobody}, live : BOOLEAN]
StreamRows ==
  [event : RowIds, deliveries : 0 .. MaxDeliveries, state : {"ready", "held", "settled"}]
InboxRows ==
  [by : Instances \cup {Nobody}, live : BOOLEAN, attempts : Nat, consumed : BOOLEAN]
Errands == [at : {"rest", "claim", "handle", "complete", "fail", "bury", "ack"}, msg : Nat]

PublishersTyped ==
  /\ published \subseteq RowIds
  /\ batch \in [Instances -> SUBSET RowIds]
  /\ handed \subseteq {i \in Instances : batch[i] # {}}
  /\ lease \in [AllRows -> LeaseRows]

ReadersTyped ==
  /\ journal \in Seq(RowIds)
  /\ reader \in [cursor : 0 .. Len(journal), acknowledged : 0 .. Len(journal), seen : SUBSET RowIds]
  /\ reader.acknowledged <= reader.cursor

ConsumersTyped ==
  /\ stream \in Seq(StreamRows)
  /\ inbox \in [AllRows -> InboxRows]
  /\ deadLetters \subseteq RowIds
  /\ handlings \in [AllRows -> Nat]
  /\ consumer \in [Instances -> Errands]
  /\ \A i \in Instances :
       consumer[i] = Resting \/ (consumer[i].at # "rest" /\ consumer[i].msg \in DOMAIN stream)

RowsTyped == outbox \in Seq(OutboxRows) /\ Len(outbox) <= MaxRows

Typed ==
  /\ deployment \in {"local", "service"}
  /\ RowsTyped /\ PublishersTyped /\ ReadersTyped /\ ConsumersTyped
  /\ repeats \in [AllRows -> [outbox : Nat, inbox : Nat]]

LEMMA RowIdsFit ==
  ASSUME RowsTyped
  PROVE  RowIds = 1 .. Len(outbox) /\ RowIds \subseteq AllRows /\ AllRows \subseteq Nat
  BY DeliveryAssumption DEF RowsTyped, RowIds, AllRows

LEMMA TypedImplies == Typed /\ SessionsInv => TypeOK
  <1> SUFFICES ASSUME Typed, SessionsInv PROVE TypeOK
    OBVIOUS
  <1>1. \A r \in RowIds : outbox[r] \in OutboxRows
    BY DEF Typed, RowsTyped, RowIds
  <1> QED
    BY <1>1 DEF Typed, PublishersTyped, ReadersTyped, ConsumersTyped, SessionsInv, TypeOK, OutboxRows,
         LeaseRows, StreamRows, InboxRows

LEMMA HeadIsIn ==
  ASSUME RowsTyped, PublishersTyped, NEW i \in Instances, batch[i] # {}
  PROVE  /\ Min(batch[i]) \in batch[i] /\ Min(batch[i]) \in RowIds /\ Min(batch[i]) \in AllRows
  <1>1. batch[i] \subseteq RowIds /\ batch[i] \in SUBSET Nat
    BY RowIdsFit DEF PublishersTyped
  <1>2. PICK rows \in SUBSET Nat : rows = batch[i]
    BY <1>1
  <1>3. Min(rows) \in rows
    BY <1>2, MinIsIn
  <1> QED
    BY <1>1, <1>2, <1>3, RowIdsFit

\* An instance that works on a message of the stream.
LEMMA ErrandIsKnown ==
  ASSUME Typed, NEW i \in Instances, consumer[i].at # "rest"
  PROVE  /\ consumer[i].msg \in DOMAIN stream /\ stream[consumer[i].msg] \in StreamRows
         /\ Current(i) \in RowIds /\ Current(i) \in AllRows
  <1>1. consumer[i].msg \in DOMAIN stream
    BY DEF Typed, ConsumersTyped, Resting
  <1>2. stream[consumer[i].msg] \in StreamRows
    BY <1>1 DEF Typed, ConsumersTyped
  <1>3. Current(i) \in RowIds
    BY <1>2 DEF Current, StreamRows
  <1> QED
    BY <1>1, <1>2, <1>3, RowIdsFit DEF Typed

-----------------------------------------------------------------------------
(* The stream and its consumers                                            *)

Kept(e) == inbox[e].consumed \/ e \in deadLetters
KeptNext(e) == inbox'[e].consumed \/ e \in deadLetters'

SettledAreKept ==
  /\ \A m \in DOMAIN stream : stream[m].state = "settled" => Kept(stream[m].event)
  /\ \A i \in Instances : consumer[i].at = "ack" => Kept(Current(i))

\* Who may yet record a success of an event's handler, or give its claim back.
Handlers(e) == {i \in Instances : consumer[i].at \in {"handle", "fail"} /\ Current(i) = e}
Unclaimed(e) == IF Claimable(e) THEN 1 ELSE 0

\* A success, a handler at work and the leave to start one: together at most
\* one, and one more for each claim whose time ran out.
HandlingsExcused ==
  \A e \in AllRows : handlings[e] + Cardinality(Handlers(e)) + Unclaimed(e) <= 1 + repeats[e].inbox

HandlersCounted(e) == IsFiniteSet(Handlers(e)) /\ Cardinality(Handlers(e)) \in Nat

LEMMA HandlersAreFinite == \A e : HandlersCounted(e)
  BY DeliveryAssumption, FS_Subset, FS_CardinalityType DEF Handlers, HandlersCounted

LEMMA HandledOnceHolds ==
  ASSUME Typed, HandlingsExcused PROVE HandledOnce
  <1> SUFFICES ASSUME NEW e \in AllRows PROVE handlings[e] <= 1 + repeats[e].inbox
    BY DEF HandledOnce
  <1>1. handlings[e] \in Nat /\ repeats[e].inbox \in Nat
    BY DEF Typed, ConsumersTyped
  <1>2. Unclaimed(e) \in {0, 1} /\ Cardinality(Handlers(e)) \in Nat
    BY HandlersAreFinite DEF Unclaimed, HandlersCounted
  <1> QED
    BY <1>1, <1>2 DEF HandlingsExcused

\* The events of the stream stay where they are.
SameEvents ==
  /\ stream' \in Seq(StreamRows)' /\ DOMAIN stream \subseteq DOMAIN stream'
  /\ \A m \in DOMAIN stream : stream'[m].event = stream[m].event

Taken(i, new) ==
  /\ new \in Errands
  /\ new = Resting \/ (new.at # "rest" /\ new.msg \in DOMAIN stream)
  /\ consumer' = [consumer EXCEPT ![i] = new]

\* The handlers of an event after one instance turned to something else.
LEMMA HandlersMove ==
  ASSUME Typed, SameEvents, NEW i \in Instances, NEW new, Taken(i, new), NEW e
  PROVE  LET is == new.at \in {"handle", "fail"} /\ stream[new.msg].event = e
             was == i \in Handlers(e)
             before == Cardinality(Handlers(e))
             after == Cardinality(Handlers(e)')
         IN  /\ before \in Nat /\ after \in Nat
             /\ after <= before + 1
             /\ ~is \/ was => after <= before
             /\ ~is /\ was => after + 1 <= before
  <1> DEFINE is == new.at \in {"handle", "fail"} /\ stream[new.msg].event = e
  <1>1. \A j \in Instances : consumer'[j] = IF j = i THEN new ELSE consumer[j]
    BY DEF Taken, Typed, ConsumersTyped
  <1>2. \A j \in Instances \ {i} : j \in Handlers(e)' <=> j \in Handlers(e)
    <2> SUFFICES ASSUME NEW j \in Instances \ {i}
                 PROVE  j \in Handlers(e)' <=> j \in Handlers(e)
      OBVIOUS
    <2>1. consumer'[j] = consumer[j]
      BY <1>1
    <2>2. consumer[j].at \in {"handle", "fail"} => consumer[j].msg \in DOMAIN stream
      BY ErrandIsKnown
    <2> QED
      BY <2>1, <2>2 DEF Handlers, Current, SameEvents
  <1>3. i \in Handlers(e)' <=> is
    <2>1. consumer'[i] = new
      BY <1>1
    <2>2. new.at \in {"handle", "fail"} => new.msg \in DOMAIN stream
      BY DEF Taken, Resting
    <2> QED
      BY <2>1, <2>2 DEF Handlers, Current, SameEvents
  <1>4. Handlers(e) \subseteq Instances /\ Handlers(e)' \subseteq Instances
    BY DEF Handlers
  <1>5. PICK old : old = Handlers(e)
    OBVIOUS
  <1>6. PICK now : now = Handlers(e)'
    OBVIOUS
  <1>7. IsFiniteSet(old)
    BY <1>5, HandlersAreFinite DEF HandlersCounted
  <1> HIDE DEF is
  <1>8. now \subseteq old \cup {i}
    BY <1>2, <1>4, <1>5, <1>6
  <1>9. Cardinality(old) \in Nat /\ Cardinality(now) \in Nat /\ Cardinality(now) <= Cardinality(old) + 1
    BY <1>7, <1>8, CountGrows
  <1>10. ~is \/ i \in old => Cardinality(now) <= Cardinality(old)
    <2> SUFFICES ASSUME ~is \/ i \in old PROVE Cardinality(now) <= Cardinality(old)
      OBVIOUS
    <2>1. now \subseteq old
      BY <1>2, <1>3, <1>4, <1>5, <1>6
    <2> QED
      BY <1>7, <2>1, CountShrinks
  <1>11. ~is /\ i \in old => Cardinality(now) + 1 <= Cardinality(old)
    <2> SUFFICES ASSUME ~is, i \in old PROVE Cardinality(now) + 1 <= Cardinality(old)
      OBVIOUS
    <2>1. now \subseteq old \ {i}
      BY <1>2, <1>3, <1>4, <1>5, <1>6
    <2> QED
      BY <1>7, <2>1, CountLoses
  <1> QED
    BY <1>5, <1>6, <1>9, <1>10, <1>11 DEF is

\* Steps that leave the consumers where they are.
LEMMA HandlersStay ==
  ASSUME Typed, SameEvents, UNCHANGED consumer
  PROVE  \A e : Handlers(e)' = Handlers(e)
  <1> SUFFICES ASSUME NEW e, NEW i \in Instances
               PROVE  i \in Handlers(e)' <=> i \in Handlers(e)
    BY DEF Handlers
  <1>1. consumer[i].at \in {"handle", "fail"} => consumer[i].msg \in DOMAIN stream
    BY ErrandIsKnown
  <1> QED
    BY <1>1 DEF Handlers, Current, SameEvents

\* A message changes its state.
LEMMA MessageMoves ==
  ASSUME Typed, UNCHANGED outbox, NEW m \in DOMAIN stream, NEW new \in StreamRows,
         new.event = stream[m].event, stream' = [stream EXCEPT ![m] = new]
  PROVE  /\ SameEvents /\ DOMAIN stream' = DOMAIN stream
         /\ \A n \in DOMAIN stream : stream'[n] = IF n = m THEN new ELSE stream[n]
  <1>1. PICK rows : rows = StreamRows
    OBVIOUS
  <1>2. PICK before \in Seq(rows) : before = stream
    BY <1>1 DEF Typed, ConsumersTyped
  <1>3. m \in 1 .. Len(before) /\ DOMAIN before = 1 .. Len(before)
    BY <1>2
  <1>4. /\ stream' \in Seq(rows) /\ Len(stream') = Len(before)
        /\ \A n \in 1 .. Len(before) : stream'[n] = IF n = m THEN new ELSE before[n]
    BY <1>1, <1>2, <1>3, ExceptSeq
  <1>5. DOMAIN stream' = DOMAIN stream
    BY <1>2, <1>3, <1>4
  <1>6. Seq(StreamRows)' = Seq(rows)
    BY <1>1 DEF StreamRows, RowIds
  <1>7. \A n \in DOMAIN stream : stream'[n] = IF n = m THEN new ELSE stream[n]
    BY <1>2, <1>3, <1>4
  <1>8. \A n \in DOMAIN stream : stream'[n].event = stream[n].event
    BY <1>7
  <1> QED
    BY <1>4, <1>5, <1>6, <1>7, <1>8 DEF SameEvents

\* What an instance needs to keep when it goes on with a message.
LEMMA WorkKeeps ==
  ASSUME Typed, SettledAreKept, NEW i \in Instances, NEW new, Taken(i, new),
         SameEvents, DOMAIN stream' = DOMAIN stream, UNCHANGED outbox,
         inbox' \in [AllRows -> InboxRows], handlings' \in [AllRows -> Nat],
         deadLetters \subseteq deadLetters', deadLetters' \subseteq RowIds,
         \A e \in AllRows : inbox[e].consumed => inbox'[e].consumed,
         \A m \in DOMAIN stream :
           stream'[m].state = "settled" => stream[m].state = "settled" \/ KeptNext(stream[m].event),
         new.at = "ack" => KeptNext(stream[new.msg].event)
  PROVE  ConsumersTyped' /\ SettledAreKept'
  <1>1. /\ consumer' \in [Instances -> Errands]
        /\ \A j \in Instances : consumer'[j] = IF j = i THEN new ELSE consumer[j]
    BY DEF Taken, Typed, ConsumersTyped
  <1>2. \A j \in Instances :
          consumer'[j] = Resting \/ (consumer'[j].at # "rest" /\ consumer'[j].msg \in DOMAIN stream')
    BY <1>1 DEF Taken, Typed, ConsumersTyped
  <1>3. ConsumersTyped'
    BY <1>1, <1>2 DEF ConsumersTyped, SameEvents, InboxRows, RowIds
  <1>4. \A m \in DOMAIN stream : stream[m].event \in AllRows
    <2>1. \A m \in DOMAIN stream : stream[m] \in StreamRows
      BY DEF Typed, ConsumersTyped
    <2>2. \A m \in DOMAIN stream : stream[m].event \in RowIds
      BY <2>1 DEF StreamRows
    <2> QED
      BY <2>2, RowIdsFit DEF Typed
  <1>5. \A e \in AllRows : Kept(e) => KeptNext(e)
    BY DEF Kept, KeptNext
  <1>6. ASSUME NEW m \in DOMAIN stream, stream'[m].state = "settled" PROVE KeptNext(stream[m].event)
    <2>1. stream[m].state = "settled" => Kept(stream[m].event)
      BY DEF SettledAreKept
    <2> QED
      BY <1>4, <1>5, <1>6, <2>1
  <1>7. ASSUME NEW m \in DOMAIN stream', stream'[m].state = "settled" PROVE KeptNext(stream'[m].event)
    BY <1>6, <1>7 DEF SameEvents
  <1>8. ASSUME NEW j \in Instances, consumer'[j].at = "ack" PROVE KeptNext(stream'[consumer'[j].msg].event)
    <2>1. CASE j = i
      <3>1. consumer'[j] = new /\ new.msg \in DOMAIN stream
        BY <1>1, <1>8, <2>1 DEF Taken, Resting
      <3> QED
        BY <1>8, <3>1 DEF SameEvents
    <2>2. CASE j # i
      <3>1. consumer'[j] = consumer[j]
        BY <1>1, <2>2
      <3>2. consumer[j].msg \in DOMAIN stream /\ Current(j) \in AllRows
        BY <1>8, <3>1, ErrandIsKnown
      <3>3. Kept(Current(j)) /\ stream'[consumer'[j].msg].event = Current(j)
        BY <1>8, <3>1, <3>2 DEF SettledAreKept, Current, SameEvents
      <3> QED
        BY <1>5, <3>2, <3>3
    <2> QED
      BY <2>1, <2>2
  <1>9. SettledAreKept'
    BY <1>7, <1>8 DEF SettledAreKept, Kept, KeptNext, Current
  <1> QED
    BY <1>3, <1>9

\* A step that records nothing about an event.
LEMMA QuietWorkKeeps ==
  ASSUME Typed, HandlingsExcused, SameEvents, NEW i \in Instances, NEW new, Taken(i, new),
         UNCHANGED <<inbox, handlings, repeats>>,
         new.at \in {"handle", "fail"} => i \in Handlers(stream[new.msg].event)
  PROVE  HandlingsExcused'
  <1> SUFFICES ASSUME NEW e \in AllRows
               PROVE  handlings[e] + Cardinality(Handlers(e)') + Unclaimed(e) <= 1 + repeats[e].inbox
    BY DEF HandlingsExcused, Unclaimed, Claimable
  <1>1. /\ Cardinality(Handlers(e)) \in Nat /\ Cardinality(Handlers(e)') \in Nat
        /\ Cardinality(Handlers(e)') <= Cardinality(Handlers(e))
    BY HandlersMove
  <1>2. handlings[e] \in Nat /\ repeats[e].inbox \in Nat
    BY DEF Typed, ConsumersTyped
  <1>3. handlings[e] + Cardinality(Handlers(e)) + Unclaimed(e) <= 1 + repeats[e].inbox
    BY DEF HandlingsExcused
  <1>4. Unclaimed(e) \in {0, 1}
    BY DEF Unclaimed
  <1> QED
    BY <1>1, <1>2, <1>3, <1>4

\* The rows of the inbox that consumers write.
LEMMA InboxRowsWritten ==
  ASSUME NEW was \in InboxRows
  PROVE  /\ \A i \in Instances : \A run : run = Claimed(was, i) =>
              run \in InboxRows /\ run.consumed = was.consumed /\ run.live
         /\ \A run : run = Consumed(was) => run \in InboxRows /\ run.consumed
         /\ \A run : run = Failed(was) => run \in InboxRows /\ run.consumed = was.consumed
         /\ \A run : run = [was EXCEPT !.live = FALSE] =>
              run \in InboxRows /\ run.consumed = was.consumed
  <1>1. /\ was.by \in Instances \cup {Nobody} /\ was.live \in BOOLEAN /\ was.attempts \in Nat
        /\ was.attempts + 1 \in Nat /\ was.consumed \in BOOLEAN
    BY DEF InboxRows
  <1>2. ASSUME NEW i \in Instances, NEW run, run = Claimed(was, i)
        PROVE  run \in InboxRows /\ run.consumed = was.consumed /\ run.live
    <2>1. run = [by |-> i, live |-> TRUE, attempts |-> was.attempts, consumed |-> was.consumed]
      BY <1>2 DEF InboxRows, Claimed
    <2> QED
      BY <1>1, <2>1 DEF InboxRows
  <1>3. ASSUME NEW run, run = Consumed(was) PROVE run \in InboxRows /\ run.consumed
    <2>1. run = [by |-> Nobody, live |-> FALSE, attempts |-> was.attempts, consumed |-> TRUE]
      BY <1>3 DEF InboxRows, Consumed
    <2> QED
      BY <1>1, <2>1 DEF InboxRows
  <1>4. ASSUME NEW run, run = Failed(was)
        PROVE  run \in InboxRows /\ run.consumed = was.consumed
    <2>1. run = [by |-> Nobody, live |-> FALSE, attempts |-> was.attempts + 1, consumed |-> was.consumed]
      BY <1>4 DEF InboxRows, Failed
    <2> QED
      BY <1>1, <2>1 DEF InboxRows
  <1>5. ASSUME NEW run, run = [was EXCEPT !.live = FALSE]
        PROVE  run \in InboxRows /\ run.consumed = was.consumed
    <2>1. run = [by |-> was.by, live |-> FALSE, attempts |-> was.attempts, consumed |-> was.consumed]
      BY <1>5 DEF InboxRows
    <2> QED
      BY <1>1, <2>1 DEF InboxRows
  <1> QED
    BY <1>2, <1>3, <1>4, <1>5

LEMMA StreamStays ==
  ASSUME Typed, UNCHANGED <<outbox, stream>>
  PROVE  SameEvents /\ DOMAIN stream' = DOMAIN stream
  BY DEF Typed, ConsumersTyped, SameEvents, StreamRows, RowIds

LEMMA StreamRowsWritten ==
  ASSUME Typed, NEW m \in DOMAIN stream, NEW state \in {"ready", "held", "settled"}
  PROVE  /\ \A run : run = [stream[m] EXCEPT !.state = state] =>
              run \in StreamRows /\ run.event = stream[m].event /\ run.state = state
         /\ \A run : stream[m].deliveries < MaxDeliveries
                       /\ run = Held(stream[m]) =>
              run \in StreamRows /\ run.event = stream[m].event /\ run.state = "held"
  <1>1. PICK ids : ids = RowIds
    OBVIOUS
  <1>2. PICK was \in StreamRows : was = stream[m]
    BY DEF Typed, ConsumersTyped
  <1>3. /\ was.event \in ids /\ was.deliveries \in 0 .. MaxDeliveries /\ MaxDeliveries \in Nat
        /\ was.deliveries < MaxDeliveries => was.deliveries + 1 \in 0 .. MaxDeliveries
    BY <1>1, <1>2, DeliveryAssumption DEF StreamRows
  <1>4. ASSUME NEW run, run = [was EXCEPT !.state = state]
        PROVE  run \in StreamRows /\ run.event = was.event /\ run.state = state
    <2>1. run = [event |-> was.event, deliveries |-> was.deliveries, state |-> state]
      BY <1>4 DEF StreamRows
    <2> QED
      BY <1>1, <1>3, <2>1 DEF StreamRows
  <1>5. ASSUME NEW run, was.deliveries < MaxDeliveries, run = Held(was)
        PROVE  run \in StreamRows /\ run.event = was.event /\ run.state = "held"
    <2>1. run = [event |-> was.event, deliveries |-> was.deliveries + 1, state |-> "held"]
      BY <1>5 DEF StreamRows, Held
    <2> QED
      BY <1>1, <1>3, <1>5, <2>1 DEF StreamRows
  <1> QED
    BY <1>2, <1>4, <1>5

LEMMA StateMoves ==
  ASSUME Typed, UNCHANGED outbox, NEW m \in DOMAIN stream, NEW state \in {"ready", "held", "settled"},
         stream' = [stream EXCEPT ![m].state = state]
  PROVE  /\ SameEvents /\ DOMAIN stream' = DOMAIN stream
         /\ \A n \in DOMAIN stream : stream'[n].state = IF n = m THEN state ELSE stream[n].state
  <1>0. PICK run : run = [stream[m] EXCEPT !.state = state]
    OBVIOUS
  <1>1. run \in StreamRows /\ run.event = stream[m].event /\ run.state = state
    BY <1>0, StreamRowsWritten
  <1>2. stream' = [stream EXCEPT ![m] = run]
    BY <1>0
  <1> QED
    BY <1>1, <1>2, MessageMoves

LEMMA ErrandsGo ==
  ASSUME Typed, NEW i \in Instances
  PROVE  /\ Rest(i) => Taken(i, Resting)
         /\ Resting.at = "rest"
         /\ \A place \in {"claim", "handle", "complete", "fail", "bury", "ack"} :
              consumer[i].at # "rest" /\ Goto(i, place) =>
                \E new : Taken(i, new) /\ new.at = place /\ stream[new.msg].event = Current(i)
  <1>1. Rest(i) => Taken(i, Resting)
    BY DEF Rest, Taken, Errands, Resting
  <1>2. ASSUME NEW place \in {"claim", "handle", "complete", "fail", "bury", "ack"},
               consumer[i].at # "rest", Goto(i, place)
        PROVE  \E new : Taken(i, new) /\ new.at = place /\ stream[new.msg].event = Current(i)
    <2>1. PICK was \in Errands : was = consumer[i]
      BY DEF Typed, ConsumersTyped
    <2>2. PICK new : new = [was EXCEPT !.at = place]
      OBVIOUS
    <2>3. new = [at |-> place, msg |-> was.msg] /\ was.msg \in Nat
      BY <2>2 DEF Errands
    <2>4. new \in Errands /\ new.at = place /\ new.msg = was.msg
      BY <2>3 DEF Errands
    <2>5. consumer' = [consumer EXCEPT ![i] = new]
      BY <1>2, <2>1, <2>2 DEF Goto
    <2>6. new.msg \in DOMAIN stream
      BY <1>2, <2>1, <2>4, ErrandIsKnown
    <2> QED
      BY <2>1, <2>4, <2>5, <2>6 DEF Taken, Current
  <1>3. Resting.at = "rest"
    BY DEF Resting
  <1> QED
    BY <1>1, <1>2, <1>3

ConsumersKept == ConsumersTyped /\ SettledAreKept /\ HandlingsExcused

LEMMA DeliverKeeps ==
  ASSUME Typed, ConsumersKept, NEW i \in Instances, Deliver(i) PROVE ConsumersKept'
  <1>1. PICK m \in DOMAIN stream :
          /\ stream[m].state = "ready" /\ stream[m].deliveries < MaxDeliveries
          /\ stream' = [stream EXCEPT ![m] = Held(@)]
          /\ consumer' = [consumer EXCEPT ![i] = [at |-> "claim", msg |-> m]]
    BY DEF Deliver
  <1>r. PICK run : run = Held(stream[m])
    OBVIOUS
  <1>2. run \in StreamRows /\ run.event = stream[m].event /\ run.state = "held"
    BY <1>1, <1>r, StreamRowsWritten
  <1>3. stream' = [stream EXCEPT ![m] = run] /\ UNCHANGED outbox
    <2>1. stream' = [stream EXCEPT ![m] = run]
      BY <1>1, <1>r, Zenon
    <2> QED
      BY <2>1 DEF Deliver, sessionVars
  <1>4. /\ SameEvents /\ DOMAIN stream' = DOMAIN stream
        /\ \A n \in DOMAIN stream : stream'[n] = IF n = m THEN run ELSE stream[n]
    BY <1>2, <1>3, MessageMoves
  <1>5. PICK new : new = [at |-> "claim", msg |-> m]
    OBVIOUS
  <1>6. new.at = "claim" /\ Taken(i, new)
    <2>1. m \in Nat
      BY DEF Typed, ConsumersTyped
    <2> QED
      BY <1>1, <1>5, <2>1 DEF Taken, Errands
  <1>7. UNCHANGED <<inbox, handlings, deadLetters, repeats>>
    BY DEF Deliver
  <1>8. ConsumersTyped' /\ SettledAreKept'
    BY <1>2, <1>3, <1>4, <1>6, <1>7, WorkKeeps DEF ConsumersKept, ConsumersTyped
  <1>9. HandlingsExcused'
    BY <1>4, <1>6, <1>7, QuietWorkKeeps DEF ConsumersKept
  <1> QED
    BY <1>8, <1>9 DEF ConsumersKept

\* One row of the inbox is written and one instance goes on.
LEMMA InboxMoves ==
  ASSUME Typed, NEW e \in AllRows, NEW run \in InboxRows, inbox' = [inbox EXCEPT ![e] = run],
         inbox[e].consumed => run.consumed
  PROVE  /\ inbox' \in [AllRows -> InboxRows] /\ inbox'[e] = run
         /\ \A f \in AllRows : f # e => inbox'[f] = inbox[f] /\ Unclaimed(f)' = Unclaimed(f)
         /\ \A f \in AllRows : inbox[f].consumed => inbox'[f].consumed
  <1>1. inbox \in [AllRows -> InboxRows]
    BY DEF Typed, ConsumersTyped
  <1>2. \A f \in AllRows : inbox'[f] = IF f = e THEN run ELSE inbox[f]
    BY <1>1
  <1>3. \A f \in AllRows : f # e => Unclaimed(f)' = Unclaimed(f)
    BY <1>2 DEF Unclaimed, Claimable
  <1> QED
    BY <1>1, <1>2, <1>3

\* The count of an event, given what the step adds and takes.
LEMMA CountsOf ==
  ASSUME Typed, HandlingsExcused, NEW e \in AllRows
  PROVE  /\ handlings[e] \in Nat /\ repeats[e].inbox \in Nat
         /\ Unclaimed(e) \in {0, 1} /\ Unclaimed(e)' \in {0, 1}
         /\ handlings[e] + Cardinality(Handlers(e)) + Unclaimed(e) <= 1 + repeats[e].inbox
  <1>1. handlings[e] \in Nat /\ repeats[e].inbox \in Nat
    BY DEF Typed, ConsumersTyped
  <1>2. Unclaimed(e) \in {0, 1} /\ Unclaimed(e)' \in {0, 1}
    BY DEF Unclaimed
  <1> QED
    BY <1>1, <1>2 DEF HandlingsExcused

LEMMA ClaimKeeps ==
  ASSUME Typed, ConsumersKept, NEW i \in Instances, ClaimEvent(i) PROVE ConsumersKept'
  <1>1. /\ consumer[i].at = "claim" /\ consumer[i].at # "rest"
        /\ UNCHANGED <<outbox, deadLetters, handlings, repeats>>
    BY DEF ClaimEvent, sessionVars
  <1>2. PICK e \in AllRows : e = Current(i)
    BY <1>1, ErrandIsKnown
  <1>3. consumer[i].msg \in DOMAIN stream
    BY <1>1, ErrandIsKnown
  <1>4. CASE /\ Claimable(e) /\ inbox' = [inbox EXCEPT ![e] = Claimed(@, i)]
             /\ Goto(i, "handle") /\ UNCHANGED stream
    <2>1. PICK was \in InboxRows : was = inbox[e]
      BY DEF Typed, ConsumersTyped
    <2>2. PICK run \in InboxRows : run = Claimed(was, i) /\ run.consumed = was.consumed /\ run.live
      BY InboxRowsWritten
    <2>3. inbox' = [inbox EXCEPT ![e] = run]
      BY <1>4, <2>1, <2>2
    <2>4. PICK new : Taken(i, new) /\ new.at = "handle" /\ stream[new.msg].event = e
      BY <1>1, <1>2, <1>4, ErrandsGo
    <2>5. SameEvents /\ DOMAIN stream' = DOMAIN stream
      BY <1>1, <1>4, StreamStays
    <2>6. /\ inbox' \in [AllRows -> InboxRows] /\ inbox'[e] = run
          /\ \A f \in AllRows : f # e => inbox'[f] = inbox[f] /\ Unclaimed(f)' = Unclaimed(f)
          /\ \A f \in AllRows : inbox[f].consumed => inbox'[f].consumed
      BY <2>1, <2>2, <2>3, InboxMoves
    <2>7. ConsumersTyped' /\ SettledAreKept'
      BY <1>1, <1>4, <2>4, <2>5, <2>6, WorkKeeps DEF ConsumersKept, Typed, ConsumersTyped
    <2>8. Unclaimed(e) = 1 /\ Unclaimed(e)' = 0
      BY <1>4, <2>2, <2>6 DEF Unclaimed, Claimable
    <2>9. ASSUME NEW f \in AllRows
          PROVE  handlings'[f] + Cardinality(Handlers(f)') + Unclaimed(f)' <= 1 + repeats'[f].inbox
      <3>1. /\ Cardinality(Handlers(f)) \in Nat /\ Cardinality(Handlers(f)') \in Nat
            /\ Cardinality(Handlers(f)') <= Cardinality(Handlers(f)) + 1
            /\ f # e => Cardinality(Handlers(f)') <= Cardinality(Handlers(f))
        BY <2>4, <2>5, HandlersMove
      <3>2. /\ handlings[f] \in Nat /\ repeats[f].inbox \in Nat /\ Unclaimed(f) \in {0, 1}
            /\ handlings[f] + Cardinality(Handlers(f)) + Unclaimed(f) <= 1 + repeats[f].inbox
        BY CountsOf DEF ConsumersKept
      <3> QED
        BY <1>1, <2>6, <2>8, <3>1, <3>2
    <2> QED
      BY <2>7, <2>9 DEF ConsumersKept, HandlingsExcused
  <1>5. CASE inbox[e].consumed /\ Goto(i, "ack") /\ UNCHANGED <<inbox, stream>>
    <2>1. PICK new : Taken(i, new) /\ new.at = "ack" /\ stream[new.msg].event = e
      BY <1>1, <1>2, <1>5, ErrandsGo
    <2>2. SameEvents /\ DOMAIN stream' = DOMAIN stream
      BY <1>1, <1>5, StreamStays
    <2>3. KeptNext(e)
      BY <1>5 DEF KeptNext
    <2>4. ConsumersTyped' /\ SettledAreKept'
      BY <1>1, <1>5, <2>1, <2>2, <2>3, WorkKeeps DEF ConsumersKept, Typed, ConsumersTyped
    <2>5. HandlingsExcused'
      BY <1>1, <1>5, <2>1, <2>2, QuietWorkKeeps DEF ConsumersKept
    <2> QED
      BY <2>4, <2>5 DEF ConsumersKept
  <1>6. CASE Rest(i) /\ WithState(i, "ready") /\ UNCHANGED inbox
    <2>1. Taken(i, Resting) /\ Resting.at = "rest"
      BY <1>6, ErrandsGo
    <2>2. /\ SameEvents /\ DOMAIN stream' = DOMAIN stream
          /\ \A n \in DOMAIN stream :
               stream'[n].state = IF n = consumer[i].msg THEN "ready" ELSE stream[n].state
      BY <1>1, <1>3, <1>6, StateMoves DEF WithState
    <2>3. ConsumersTyped' /\ SettledAreKept'
      BY <1>1, <1>6, <2>1, <2>2, WorkKeeps DEF ConsumersKept, Typed, ConsumersTyped
    <2>4. HandlingsExcused'
      BY <1>1, <1>6, <2>1, <2>2, QuietWorkKeeps DEF ConsumersKept
    <2> QED
      BY <2>3, <2>4 DEF ConsumersKept
  <1> QED
    BY <1>2, <1>4, <1>5, <1>6 DEF ClaimEvent

LEMMA HandleKeeps ==
  ASSUME Typed, ConsumersKept, NEW i \in Instances, Handle(i) PROVE ConsumersKept'
  <1>1. /\ consumer[i].at = "handle" /\ consumer[i].at # "rest"
        /\ UNCHANGED <<outbox, stream, inbox, deadLetters, repeats>>
    BY DEF Handle, sessionVars
  <1>2. PICK e \in AllRows : e = Current(i)
    BY <1>1, ErrandIsKnown
  <1>3. i \in Handlers(e)
    BY <1>1, <1>2 DEF Handlers
  <1>4. SameEvents /\ DOMAIN stream' = DOMAIN stream
    BY <1>1, StreamStays
  <1>5. CASE Goto(i, "complete") /\ handlings' = [handlings EXCEPT ![e] = @ + 1]
    <2>1. PICK new : Taken(i, new) /\ new.at = "complete" /\ stream[new.msg].event = e
      BY <1>1, <1>2, <1>5, ErrandsGo
    <2>2. /\ handlings' \in [AllRows -> Nat]
          /\ \A f \in AllRows : handlings'[f] = IF f = e THEN handlings[f] + 1 ELSE handlings[f]
      BY <1>5 DEF Typed, ConsumersTyped
    <2>3. ConsumersTyped' /\ SettledAreKept'
      BY <1>1, <1>4, <2>1, <2>2, WorkKeeps DEF ConsumersKept, Typed, ConsumersTyped
    <2>4. ASSUME NEW f \in AllRows
          PROVE  handlings'[f] + Cardinality(Handlers(f)') + Unclaimed(f)' <= 1 + repeats'[f].inbox
      <3>1. /\ Cardinality(Handlers(f)) \in Nat /\ Cardinality(Handlers(f)') \in Nat
            /\ Cardinality(Handlers(f)') <= Cardinality(Handlers(f))
            /\ f = e => Cardinality(Handlers(f)') + 1 <= Cardinality(Handlers(f))
        BY <1>3, <1>4, <2>1, HandlersMove
      <3>2. /\ handlings[f] \in Nat /\ repeats[f].inbox \in Nat /\ Unclaimed(f) \in {0, 1}
            /\ handlings[f] + Cardinality(Handlers(f)) + Unclaimed(f) <= 1 + repeats[f].inbox
        BY CountsOf DEF ConsumersKept
      <3>3. Unclaimed(f)' = Unclaimed(f)
        BY <1>1 DEF Unclaimed, Claimable
      <3> QED
        BY <1>1, <2>2, <3>1, <3>2, <3>3
    <2> QED
      BY <2>3, <2>4 DEF ConsumersKept, HandlingsExcused
  <1>6. CASE Goto(i, "fail") /\ UNCHANGED handlings
    <2>1. PICK new : Taken(i, new) /\ new.at = "fail" /\ stream[new.msg].event = e
      BY <1>1, <1>2, <1>6, ErrandsGo
    <2>2. ConsumersTyped' /\ SettledAreKept'
      BY <1>1, <1>4, <1>6, <2>1, WorkKeeps DEF ConsumersKept, Typed, ConsumersTyped
    <2>3. HandlingsExcused'
      BY <1>1, <1>3, <1>4, <1>6, <2>1, QuietWorkKeeps DEF ConsumersKept
    <2> QED
      BY <2>2, <2>3 DEF ConsumersKept
  <1> QED
    BY <1>2, <1>5, <1>6 DEF Handle

LEMMA CompleteKeeps ==
  ASSUME Typed, ConsumersKept, NEW i \in Instances, Complete(i) PROVE ConsumersKept'
  <1>1. /\ consumer[i].at = "complete" /\ consumer[i].at # "rest"
        /\ UNCHANGED <<outbox, stream, deadLetters, handlings, repeats>>
    BY DEF Complete, sessionVars
  <1>2. PICK e \in AllRows : e = Current(i)
    BY <1>1, ErrandIsKnown
  <1>3. SameEvents /\ DOMAIN stream' = DOMAIN stream
    BY <1>1, StreamStays
  <1>4. CASE inbox' = [inbox EXCEPT ![e] = Consumed(@)] /\ Goto(i, "ack")
    <2>1. PICK was \in InboxRows : was = inbox[e]
      BY DEF Typed, ConsumersTyped
    <2>2. PICK run \in InboxRows : run = Consumed(was) /\ run.consumed
      BY InboxRowsWritten
    <2>3. inbox' = [inbox EXCEPT ![e] = run]
      BY <1>4, <2>1, <2>2
    <2>4. PICK new : Taken(i, new) /\ new.at = "ack" /\ stream[new.msg].event = e
      BY <1>1, <1>2, <1>4, ErrandsGo
    <2>5. /\ inbox' \in [AllRows -> InboxRows] /\ inbox'[e] = run
          /\ \A f \in AllRows : f # e => inbox'[f] = inbox[f] /\ Unclaimed(f)' = Unclaimed(f)
          /\ \A f \in AllRows : inbox[f].consumed => inbox'[f].consumed
      BY <2>2, <2>3, InboxMoves
    <2>6. KeptNext(e)
      BY <2>2, <2>5 DEF KeptNext
    <2>7. ConsumersTyped' /\ SettledAreKept'
      BY <1>1, <1>3, <2>4, <2>5, <2>6, WorkKeeps DEF ConsumersKept, Typed, ConsumersTyped
    <2>8. Unclaimed(e)' = 0
      BY <2>2, <2>5 DEF Unclaimed, Claimable
    <2>9. ASSUME NEW f \in AllRows
          PROVE  handlings'[f] + Cardinality(Handlers(f)') + Unclaimed(f)' <= 1 + repeats'[f].inbox
      <3>1. /\ Cardinality(Handlers(f)) \in Nat /\ Cardinality(Handlers(f)') \in Nat
            /\ Cardinality(Handlers(f)') <= Cardinality(Handlers(f))
        BY <1>3, <2>4, HandlersMove
      <3>2. /\ handlings[f] \in Nat /\ repeats[f].inbox \in Nat /\ Unclaimed(f) \in {0, 1}
            /\ handlings[f] + Cardinality(Handlers(f)) + Unclaimed(f) <= 1 + repeats[f].inbox
        BY CountsOf DEF ConsumersKept
      <3> QED
        BY <1>1, <2>5, <2>8, <3>1, <3>2
    <2> QED
      BY <2>7, <2>9 DEF ConsumersKept, HandlingsExcused
  <1>5. CASE Rest(i) /\ UNCHANGED inbox
    <2>1. Taken(i, Resting) /\ Resting.at = "rest"
      BY <1>5, ErrandsGo
    <2>2. ConsumersTyped' /\ SettledAreKept'
      BY <1>1, <1>3, <1>5, <2>1, WorkKeeps DEF ConsumersKept, Typed, ConsumersTyped
    <2>3. HandlingsExcused'
      BY <1>1, <1>3, <1>5, <2>1, QuietWorkKeeps DEF ConsumersKept
    <2> QED
      BY <2>2, <2>3 DEF ConsumersKept
  <1> QED
    BY <1>2, <1>4, <1>5 DEF Complete

LEMMA FailKeeps ==
  ASSUME Typed, ConsumersKept, NEW i \in Instances, Fail(i) PROVE ConsumersKept'
  <1>1. /\ consumer[i].at = "fail" /\ consumer[i].at # "rest"
        /\ UNCHANGED <<outbox, deadLetters, handlings, repeats>>
    BY DEF Fail, sessionVars
  <1>2. PICK e \in AllRows : e = Current(i)
    BY <1>1, ErrandIsKnown
  <1>3. consumer[i].msg \in DOMAIN stream /\ i \in Handlers(e)
    BY <1>1, <1>2, ErrandIsKnown DEF Handlers
  <1>4. CASE /\ inbox' = [inbox EXCEPT ![e] = Failed(@)]
             /\ \/ Goto(i, "bury") /\ UNCHANGED stream
                \/ Rest(i) /\ WithState(i, "ready")
    <2>1. PICK was \in InboxRows : was = inbox[e]
      BY DEF Typed, ConsumersTyped
    <2>2. PICK run \in InboxRows : run = Failed(was) /\ run.consumed = was.consumed
      BY InboxRowsWritten
    <2>3. inbox' = [inbox EXCEPT ![e] = run]
      BY <1>4, <2>1, <2>2
    <2>4. /\ inbox' \in [AllRows -> InboxRows] /\ inbox'[e] = run
          /\ \A f \in AllRows : f # e => inbox'[f] = inbox[f] /\ Unclaimed(f)' = Unclaimed(f)
          /\ \A f \in AllRows : inbox[f].consumed => inbox'[f].consumed
      BY <2>1, <2>2, <2>3, InboxMoves
    <2>5. PICK new : Taken(i, new) /\ new.at \in {"bury", "rest"}
      BY <1>1, <1>4, ErrandsGo
    <2>6. /\ SameEvents /\ DOMAIN stream' = DOMAIN stream
          /\ \A n \in DOMAIN stream : stream'[n].state \in {stream[n].state, "ready"}
      <3>1. CASE UNCHANGED stream
        BY <1>1, <3>1, StreamStays
      <3>2. CASE WithState(i, "ready")
        <4>1. /\ SameEvents /\ DOMAIN stream' = DOMAIN stream
              /\ \A n \in DOMAIN stream :
                   stream'[n].state = IF n = consumer[i].msg THEN "ready" ELSE stream[n].state
          BY <1>1, <1>3, <3>2, StateMoves DEF WithState
        <4> QED
          BY <4>1
      <3> QED
        BY <1>4, <3>1, <3>2
    <2>7. ConsumersTyped' /\ SettledAreKept'
      BY <1>1, <2>4, <2>5, <2>6, WorkKeeps DEF ConsumersKept, Typed, ConsumersTyped
    <2>8. ASSUME NEW f \in AllRows
          PROVE  handlings'[f] + Cardinality(Handlers(f)') + Unclaimed(f)' <= 1 + repeats'[f].inbox
      <3>1. /\ Cardinality(Handlers(f)) \in Nat /\ Cardinality(Handlers(f)') \in Nat
            /\ Cardinality(Handlers(f)') <= Cardinality(Handlers(f))
            /\ f = e => Cardinality(Handlers(f)') + 1 <= Cardinality(Handlers(f))
        BY <1>3, <2>5, <2>6, HandlersMove
      <3>2. /\ handlings[f] \in Nat /\ repeats[f].inbox \in Nat
            /\ Unclaimed(f) \in {0, 1} /\ Unclaimed(f)' \in {0, 1}
            /\ handlings[f] + Cardinality(Handlers(f)) + Unclaimed(f) <= 1 + repeats[f].inbox
        BY CountsOf DEF ConsumersKept
      <3> QED
        BY <1>1, <2>4, <3>1, <3>2
    <2> QED
      BY <2>7, <2>8 DEF ConsumersKept, HandlingsExcused
  <1>5. CASE Rest(i) /\ UNCHANGED <<inbox, stream>>
    <2>1. Taken(i, Resting) /\ Resting.at = "rest"
      BY <1>5, ErrandsGo
    <2>2. SameEvents /\ DOMAIN stream' = DOMAIN stream
      BY <1>1, <1>5, StreamStays
    <2>3. ConsumersTyped' /\ SettledAreKept'
      BY <1>1, <1>5, <2>1, <2>2, WorkKeeps DEF ConsumersKept, Typed, ConsumersTyped
    <2>4. HandlingsExcused'
      BY <1>1, <1>5, <2>1, <2>2, QuietWorkKeeps DEF ConsumersKept
    <2> QED
      BY <2>3, <2>4 DEF ConsumersKept
  <1> QED
    BY <1>2, <1>4, <1>5 DEF Fail

\* Burying, acknowledging and stopping.
LEMMA EndOfErrandKeeps ==
  ASSUME Typed, ConsumersKept, NEW i \in Instances,
         PublishDeadLetter(i) \/ Ack(i) \/ StopConsumer(i)
  PROVE  ConsumersKept'
  <1>1. CASE PublishDeadLetter(i)
    <2>1. /\ consumer[i].at = "bury" /\ consumer[i].at # "rest" /\ Goto(i, "ack")
          /\ UNCHANGED <<outbox, stream, inbox, handlings, repeats>>
      BY <1>1 DEF PublishDeadLetter, sessionVars
    <2>2. PICK e \in RowIds : e = Current(i)
      BY <2>1, ErrandIsKnown
    <2>3. deadLetters' = deadLetters \cup {e}
      BY <1>1, <2>2 DEF PublishDeadLetter
    <2>4. PICK new : Taken(i, new) /\ new.at = "ack" /\ stream[new.msg].event = e
      BY <2>1, <2>2, ErrandsGo
    <2>5. SameEvents /\ DOMAIN stream' = DOMAIN stream
      BY <2>1, StreamStays
    <2>6. KeptNext(e)
      BY <2>3 DEF KeptNext
    <2>7. deadLetters \subseteq deadLetters' /\ deadLetters' \subseteq RowIds
      BY <2>3 DEF Typed, ConsumersTyped
    <2>8. ConsumersTyped' /\ SettledAreKept'
      BY <2>1, <2>4, <2>5, <2>6, <2>7, WorkKeeps DEF ConsumersKept, Typed, ConsumersTyped
    <2>9. HandlingsExcused'
      BY <2>1, <2>4, <2>5, QuietWorkKeeps DEF ConsumersKept
    <2> QED
      BY <2>8, <2>9 DEF ConsumersKept
  <1>2. CASE Ack(i)
    <2>1. /\ consumer[i].at = "ack" /\ consumer[i].at # "rest" /\ Rest(i) /\ WithState(i, "settled")
          /\ UNCHANGED <<outbox, deadLetters, inbox, handlings, repeats>>
      BY <1>2 DEF Ack, sessionVars
    <2>2. consumer[i].msg \in DOMAIN stream /\ Kept(Current(i))
      BY <2>1, ErrandIsKnown DEF ConsumersKept, SettledAreKept
    <2>3. /\ SameEvents /\ DOMAIN stream' = DOMAIN stream
          /\ \A n \in DOMAIN stream :
               stream'[n].state = IF n = consumer[i].msg THEN "settled" ELSE stream[n].state
      BY <2>1, <2>2, StateMoves DEF WithState
    <2>4. KeptNext(stream[consumer[i].msg].event)
      BY <2>1, <2>2 DEF Kept, KeptNext, Current
    <2>5. Taken(i, Resting) /\ Resting.at = "rest"
      BY <2>1, ErrandsGo
    <2>6. ConsumersTyped' /\ SettledAreKept'
      BY <2>1, <2>3, <2>4, <2>5, WorkKeeps DEF ConsumersKept, Typed, ConsumersTyped
    <2>7. HandlingsExcused'
      BY <2>1, <2>3, <2>5, QuietWorkKeeps DEF ConsumersKept
    <2> QED
      BY <2>6, <2>7 DEF ConsumersKept
  <1>3. CASE StopConsumer(i)
    <2>1. Rest(i) /\ UNCHANGED <<outbox, stream, deadLetters, inbox, handlings, repeats>>
      BY <1>3 DEF StopConsumer, sessionVars
    <2>2. SameEvents /\ DOMAIN stream' = DOMAIN stream
      BY <2>1, StreamStays
    <2>3. Taken(i, Resting) /\ Resting.at = "rest"
      BY <2>1, ErrandsGo
    <2>4. ConsumersTyped' /\ SettledAreKept'
      BY <2>1, <2>2, <2>3, WorkKeeps DEF ConsumersKept, Typed, ConsumersTyped
    <2>5. HandlingsExcused'
      BY <2>1, <2>2, <2>3, QuietWorkKeeps DEF ConsumersKept
    <2> QED
      BY <2>4, <2>5 DEF ConsumersKept
  <1> QED
    BY <1>1, <1>2, <1>3

\* Steps that do not touch the consumers; the stream and the outbox may grow.
LEMMA OthersKeepConsumers ==
  ASSUME Typed, ConsumersKept, SameEvents, RowIds \subseteq RowIds',
         UNCHANGED <<inbox, consumer, deadLetters, handlings>>,
         \A e \in AllRows : repeats'[e].inbox = repeats[e].inbox,
         \A m \in DOMAIN stream' :
           stream'[m].state = "settled" => m \in DOMAIN stream /\ stream[m].state = "settled"
  PROVE  ConsumersKept'
  <1>1. ConsumersTyped'
    <2>1. stream' \in Seq(StreamRows)' /\ DOMAIN stream \subseteq DOMAIN stream'
      BY DEF SameEvents
    <2>2. deadLetters' \subseteq RowIds'
      BY DEF Typed, ConsumersTyped
    <2>3. InboxRows' = InboxRows /\ Errands' = Errands /\ Resting' = Resting
      BY DEF InboxRows, Errands, Resting
    <2> QED
      BY <2>1, <2>2, <2>3 DEF Typed, ConsumersTyped
  <1>2. ASSUME NEW m \in DOMAIN stream', stream'[m].state = "settled" PROVE Kept(stream[m].event)
    BY <1>2 DEF ConsumersKept, SettledAreKept
  <1>3. ASSUME NEW j \in Instances, consumer[j].at = "ack"
        PROVE  Kept(Current(j)) /\ stream'[consumer'[j].msg].event = Current(j)
    <2>1. consumer[j].msg \in DOMAIN stream
      BY <1>3, ErrandIsKnown
    <2> QED
      BY <1>3, <2>1 DEF ConsumersKept, SettledAreKept, SameEvents, Current
  <1>4. SettledAreKept'
    <2>1. \A m \in DOMAIN stream' : stream'[m].state = "settled" => Kept(stream'[m].event)
      BY <1>2 DEF SameEvents
    <2> QED
      BY <1>3, <2>1 DEF SettledAreKept, Kept, Current
  <1>5. \A e : Handlers(e)' = Handlers(e)
    BY HandlersStay
  <1>6. HandlingsExcused'
    BY <1>5 DEF ConsumersKept, HandlingsExcused, Unclaimed, Claimable
  <1> QED
    BY <1>1, <1>4, <1>6 DEF ConsumersKept

LEMMA AckWaitKeeps ==
  ASSUME Typed, ConsumersKept, NEW m \in DOMAIN stream, AckWaitExpires(m) PROVE ConsumersKept'
  <1>1. /\ stream' = [stream EXCEPT ![m].state = "ready"]
        /\ UNCHANGED <<outbox, repeats, inbox, consumer, deadLetters, handlings>>
    BY DEF AckWaitExpires, sessionVars, consumerVars
  <1>2. /\ SameEvents /\ DOMAIN stream' = DOMAIN stream
        /\ \A n \in DOMAIN stream : stream'[n].state = IF n = m THEN "ready" ELSE stream[n].state
    BY <1>1, StateMoves
  <1>3. RowIds \subseteq RowIds'
    BY <1>1 DEF RowIds
  <1> QED
    BY <1>1, <1>2, <1>3, OthersKeepConsumers

LEMMA ClaimLapseKeeps ==
  ASSUME Typed, ConsumersKept, NEW e \in AllRows, InboxClaimLapses(e)
  PROVE  ConsumersKept' /\ repeats' \in [AllRows -> [outbox : Nat, inbox : Nat]]
           /\ \A f \in AllRows : repeats'[f].outbox = repeats[f].outbox
  <1>1. /\ inbox' = [inbox EXCEPT ![e].live = FALSE]
        /\ repeats' = [repeats EXCEPT ![e].inbox = @ + 1]
        /\ UNCHANGED <<outbox, stream, consumer, deadLetters, handlings>>
    BY DEF InboxClaimLapses, sessionVars
  <1>2. PICK was \in InboxRows : was = inbox[e]
    BY DEF Typed, ConsumersTyped
  <1>3. PICK run : run = [was EXCEPT !.live = FALSE]
    OBVIOUS
  <1>4. run \in InboxRows /\ run.consumed = was.consumed
    BY <1>3, InboxRowsWritten
  <1>5. inbox' = [inbox EXCEPT ![e] = run]
    BY <1>1, <1>2, <1>3
  <1>6. /\ inbox' \in [AllRows -> InboxRows] /\ inbox'[e] = run
        /\ \A f \in AllRows : f # e => inbox'[f] = inbox[f] /\ Unclaimed(f)' = Unclaimed(f)
        /\ \A f \in AllRows : inbox[f].consumed => inbox'[f].consumed
    BY <1>2, <1>4, <1>5, InboxMoves
  <1>7. SameEvents /\ DOMAIN stream' = DOMAIN stream
    BY <1>1, StreamStays
  <1>8. /\ repeats' \in [AllRows -> [outbox : Nat, inbox : Nat]]
        /\ repeats'[e].inbox = repeats[e].inbox + 1
        /\ \A f \in AllRows : f # e => repeats'[f].inbox = repeats[f].inbox
        /\ \A f \in AllRows : repeats'[f].outbox = repeats[f].outbox
    <2>1. PICK old \in [outbox : Nat, inbox : Nat] : old = repeats[e]
      BY DEF Typed
    <2>2. PICK new : new = [old EXCEPT !.inbox = old.inbox + 1]
      OBVIOUS
    <2>3. new = [outbox |-> old.outbox, inbox |-> old.inbox + 1]
      BY <2>2
    <2>4. new \in [outbox : Nat, inbox : Nat] /\ new.inbox = old.inbox + 1 /\ new.outbox = old.outbox
      BY <2>3
    <2>5. repeats' = [repeats EXCEPT ![e] = new]
      BY <1>1, <2>1, <2>2
    <2> QED
      BY <2>1, <2>4, <2>5 DEF Typed
  <1>9. ConsumersTyped'
    BY <1>1, <1>6 DEF Typed, ConsumersTyped, StreamRows, RowIds, InboxRows
  <1>10. SettledAreKept'
    <2>1. \A f \in AllRows : Kept(f) => KeptNext(f)
      BY <1>1, <1>6 DEF Kept, KeptNext
    <2>2. ASSUME NEW m \in DOMAIN stream, stream[m].state = "settled" PROVE KeptNext(stream[m].event)
      <3>1. stream[m] \in StreamRows
        BY DEF Typed, ConsumersTyped
      <3>2. stream[m].event \in AllRows
        BY <3>1, RowIdsFit DEF StreamRows, Typed
      <3> QED
        BY <2>1, <2>2, <3>2 DEF ConsumersKept, SettledAreKept
    <2>3. ASSUME NEW i \in Instances, consumer[i].at = "ack" PROVE KeptNext(Current(i))
      BY <2>1, <2>3, ErrandIsKnown DEF ConsumersKept, SettledAreKept
    <2> QED
      BY <1>1, <2>2, <2>3 DEF SettledAreKept, Kept, KeptNext, Current
  <1>11. \A f : Handlers(f)' = Handlers(f)
    BY <1>1, <1>7, HandlersStay
  <1>12. ASSUME NEW f \in AllRows
         PROVE  handlings'[f] + Cardinality(Handlers(f)') + Unclaimed(f)' <= 1 + repeats'[f].inbox
    <2>1. /\ handlings[f] \in Nat /\ repeats[f].inbox \in Nat
          /\ Unclaimed(f) \in {0, 1} /\ Unclaimed(f)' \in {0, 1}
          /\ handlings[f] + Cardinality(Handlers(f)) + Unclaimed(f) <= 1 + repeats[f].inbox
      BY CountsOf DEF ConsumersKept
    <2>2. Cardinality(Handlers(f)) \in Nat /\ Handlers(f)' = Handlers(f)
      BY <1>11, HandlersAreFinite DEF HandlersCounted
    <2>3. Cardinality(Handlers(f)') = Cardinality(Handlers(f))
      BY <2>2
    <2> QED
      BY <1>1, <1>6, <1>8, <2>1, <2>2, <2>3
  <1> QED
    BY <1>8, <1>9, <1>10, <1>12 DEF ConsumersKept, HandlingsExcused

-----------------------------------------------------------------------------
(* The publishers                                                          *)

Sent == {stream[m].event : m \in DOMAIN stream}
HandedIsKept == \A i \in handed : Min(batch[i]) \in Range(journal) \cup Sent

Copies(r) == {m \in DOMAIN stream : stream[m].event = r}

\* Who may yet publish a row, and whether anybody may take it.
Senders(r) == {i \in Instances : r \in batch[i] /\ ~(i \in handed /\ r = Min(batch[i]))}
Unsent(r) == IF r \notin published /\ ~lease[r].live THEN 1 ELSE 0

\* A copy in the stream, a publisher with the row in its batch and the leave to
\* take it: together at most one, and one more for each lease that lapsed and
\* each answer that was lost.
SendsExcused ==
  /\ deployment = "local" => stream = <<>>
  /\ deployment = "service" =>
       \A r \in AllRows :
         Cardinality(Copies(r)) + Cardinality(Senders(r)) + Unsent(r) <= 1 + repeats[r].outbox

PublishersKept == PublishersTyped /\ PublishedIsKept /\ HandedIsKept /\ SendsExcused

LEMMA SendCounts ==
  ASSUME Typed, NEW r \in AllRows
  PROVE  /\ IsFiniteSet(Copies(r)) /\ Cardinality(Copies(r)) \in Nat
         /\ IsFiniteSet(Senders(r)) /\ Cardinality(Senders(r)) \in Nat
         /\ Unsent(r) \in {0, 1} /\ Unsent(r)' \in {0, 1} /\ repeats[r].outbox \in Nat
  <1>1. Len(stream) \in Nat /\ DOMAIN stream = 1 .. Len(stream)
    BY DEF Typed, ConsumersTyped
  <1>2. IsFiniteSet(DOMAIN stream)
    BY <1>1, FS_Interval
  <1>3. IsFiniteSet(Copies(r)) /\ Cardinality(Copies(r)) \in Nat
    BY <1>2, FS_Subset, FS_CardinalityType DEF Copies
  <1>4. IsFiniteSet(Senders(r)) /\ Cardinality(Senders(r)) \in Nat
    BY DeliveryAssumption, FS_Subset, FS_CardinalityType DEF Senders
  <1>5. Unsent(r) \in {0, 1} /\ Unsent(r)' \in {0, 1}
    BY DEF Unsent
  <1>6. repeats[r].outbox \in Nat
    BY DEF Typed
  <1> QED
    BY <1>3, <1>4, <1>5, <1>6

LEMMA RepeatsAreExcusedHolds ==
  ASSUME Typed, SendsExcused PROVE RepeatsAreExcused
  <1> SUFFICES ASSUME NEW r \in AllRows PROVE Cardinality(Copies(r)) <= 1 + repeats[r].outbox
    BY DEF RepeatsAreExcused, Copies
  <1>1. /\ Cardinality(Copies(r)) \in Nat /\ Cardinality(Senders(r)) \in Nat
        /\ Unsent(r) \in {0, 1} /\ repeats[r].outbox \in Nat
    BY SendCounts
  <1>2. CASE deployment = "service"
    BY <1>1, <1>2 DEF SendsExcused
  <1>3. CASE deployment = "local"
    <2>1. stream = <<>>
      BY <1>3 DEF SendsExcused
    <2>2. Copies(r) = {}
      BY <2>1 DEF Copies
    <2> QED
      BY <1>1, <2>2, FS_EmptySet
  <1> QED
    BY <1>2, <1>3 DEF Typed

OnlyPublisher(i) ==
  \A j \in Instances \ {i} : batch'[j] = batch[j] /\ (j \in handed' <=> j \in handed)

\* The publishers of a row after one of them went on.
LEMMA SendersMove ==
  ASSUME Typed, NEW i \in Instances, OnlyPublisher(i), NEW r
  PROVE  LET is == i \in Senders(r)'
             was == i \in Senders(r)
             before == Cardinality(Senders(r))
             after == Cardinality(Senders(r)')
         IN  /\ before \in Nat /\ after \in Nat
             /\ after <= before + 1
             /\ ~is \/ was => after <= before
             /\ ~is /\ was => after + 1 <= before
  <1>1. \A j \in Instances \ {i} : j \in Senders(r)' <=> j \in Senders(r)
    BY DEF Senders, OnlyPublisher
  <1>2. Senders(r) \subseteq Instances /\ Senders(r)' \subseteq Instances
    BY DEF Senders
  <1>3. PICK old : old = Senders(r)
    OBVIOUS
  <1>4. PICK now : now = Senders(r)'
    OBVIOUS
  <1>5. IsFiniteSet(old)
    BY <1>2, <1>3, DeliveryAssumption, FS_Subset
  <1>6. now \subseteq old \cup {i}
    BY <1>1, <1>2, <1>3, <1>4
  <1>7. Cardinality(old) \in Nat /\ Cardinality(now) \in Nat /\ Cardinality(now) <= Cardinality(old) + 1
    BY <1>5, <1>6, CountGrows
  <1>8. i \notin now \/ i \in old => Cardinality(now) <= Cardinality(old)
    <2> SUFFICES ASSUME i \notin now \/ i \in old PROVE Cardinality(now) <= Cardinality(old)
      OBVIOUS
    <2>1. now \subseteq old
      BY <1>6
    <2> QED
      BY <1>5, <2>1, CountShrinks
  <1>9. i \notin now /\ i \in old => Cardinality(now) + 1 <= Cardinality(old)
    <2> SUFFICES ASSUME i \notin now, i \in old PROVE Cardinality(now) + 1 <= Cardinality(old)
      OBVIOUS
    <2>1. now \subseteq old \ {i}
      BY <1>6
    <2> QED
      BY <1>5, <2>1, CountLoses
  <1> QED
    BY <1>3, <1>4, <1>7, <1>8, <1>9

\* The copies of a row when the stream keeps its events, and after one more.
LEMMA CopiesStay ==
  ASSUME SameEvents, DOMAIN stream' = DOMAIN stream
  PROVE  Sent' = Sent /\ \A r : Copies(r)' = Copies(r)
  BY DEF SameEvents, Sent, Copies

LEMMA StreamGrows ==
  ASSUME Typed, UNCHANGED outbox, NEW r \in RowIds, stream' = Append(stream, Message(r))
  PROVE  /\ SameEvents
         /\ \A m \in DOMAIN stream' :
              stream'[m].state = "settled" => m \in DOMAIN stream /\ stream[m].state = "settled"
         /\ Sent' = Sent \cup {r}
         /\ \A q : q # r => Copies(q)' = Copies(q)
         /\ r \in AllRows =>
              /\ Cardinality(Copies(r)') \in Nat
              /\ Cardinality(Copies(r)') <= Cardinality(Copies(r)) + 1
  <1>1. PICK rows : rows = StreamRows
    OBVIOUS
  <1>2. PICK before \in Seq(rows) : before = stream
    BY <1>1 DEF Typed, ConsumersTyped
  <1>3. PICK new : new = Message(r)
    OBVIOUS
  <1>4. new \in rows /\ new.event = r /\ new.state = "ready"
    <2>1. 0 \in 0 .. MaxDeliveries
      BY DeliveryAssumption
    <2> QED
      BY <1>1, <1>3, <2>1 DEF Message, StreamRows
  <1>5. PICK n \in Nat : n = Len(before)
    BY <1>2
  <1>6. /\ DOMAIN before = 1 .. n /\ stream' \in Seq(rows) /\ DOMAIN stream' = 1 .. n + 1
        /\ \A m \in 1 .. n : stream'[m] = before[m]
        /\ stream'[n + 1] = new
    BY <1>2, <1>3, <1>4, <1>5, AppendProperties
  <1>7. /\ \A m \in 1 .. n + 1 : m \in 1 .. n \/ m = n + 1
        /\ 1 .. n \subseteq 1 .. n + 1 /\ n + 1 \in 1 .. n + 1 /\ n + 1 \notin 1 .. n
    BY <1>5
  <1>8. Seq(StreamRows)' = Seq(rows)
    BY <1>1 DEF StreamRows, RowIds
  <1>9. SameEvents
    BY <1>2, <1>6, <1>7, <1>8 DEF SameEvents
  <1>10. \A m \in DOMAIN stream' :
           stream'[m].state = "settled" => m \in DOMAIN stream /\ stream[m].state = "settled"
    BY <1>2, <1>4, <1>6, <1>7
  <1>11. Sent' = Sent \cup {r}
    <2>1. ASSUME NEW q \in Sent' PROVE q \in Sent \cup {r}
      BY <1>2, <1>4, <1>6, <1>7 DEF Sent
    <2>2. ASSUME NEW q \in Sent \cup {r} PROVE q \in Sent'
      BY <1>2, <1>4, <1>6, <1>7 DEF Sent
    <2> QED
      BY <2>1, <2>2
  <1>12. ASSUME NEW q, q # r PROVE Copies(q)' = Copies(q)
    BY <1>2, <1>4, <1>6, <1>7, <1>12 DEF Copies
  <1>13. Copies(r)' \subseteq Copies(r) \cup {n + 1}
    BY <1>2, <1>4, <1>6, <1>7 DEF Copies
  <1>14. ASSUME r \in AllRows
         PROVE  /\ Cardinality(Copies(r)') \in Nat
                /\ Cardinality(Copies(r)') <= Cardinality(Copies(r)) + 1
    <2>1. PICK old : old = Copies(r)
      OBVIOUS
    <2>2. PICK now : now = Copies(r)'
      OBVIOUS
    <2>3. IsFiniteSet(old)
      BY <1>14, <2>1, SendCounts
    <2>4. now \subseteq old \cup {n + 1}
      BY <1>13, <2>1, <2>2
    <2> QED
      BY <2>1, <2>2, <2>3, <2>4, CountGrows
  <1> QED
    BY <1>9, <1>10, <1>11, <1>12, <1>14

-----------------------------------------------------------------------------
(* The journal and its reader                                              *)

ReaderSaw == \A k \in 1 .. reader.cursor : journal[k] \in reader.seen
ReadersKept == ReadersTyped /\ JournalledOnce /\ ReaderSaw

LEMMA ReaderFacts ==
  ASSUME ReadersTyped
  PROVE  /\ journal \in Seq(RowIds) /\ Len(journal) \in Nat /\ DOMAIN journal = 1 .. Len(journal)
         /\ reader.cursor \in Nat /\ reader.cursor <= Len(journal)
         /\ reader.acknowledged \in Nat /\ reader.acknowledged <= reader.cursor
         /\ reader.seen \subseteq RowIds
  <1>1. Len(journal) \in Nat /\ DOMAIN journal = 1 .. Len(journal)
    BY DEF ReadersTyped
  <1>2. PICK n \in Nat : n = Len(journal)
    BY <1>1
  <1>3. reader \in [cursor : 0 .. n, acknowledged : 0 .. n, seen : SUBSET RowIds]
    BY <1>2 DEF ReadersTyped
  <1>4. reader.cursor \in 0 .. n /\ reader.acknowledged \in 0 .. n /\ reader.seen \subseteq RowIds
    BY <1>3
  <1> QED
    BY <1>1, <1>2, <1>4 DEF ReadersTyped

LEMMA CursorMissesNothingHolds ==
  ASSUME ReadersKept PROVE CursorMissesNothing
  <1>1. PICK n \in Nat : n = reader.cursor
    BY ReaderFacts DEF ReadersKept
  <1>2. PICK log \in Seq(RowIds) : log = journal
    BY ReaderFacts DEF ReadersKept
  <1>3. n <= Len(log) /\ Len(log) \in Nat
    BY <1>1, <1>2, ReaderFacts DEF ReadersKept
  <1>4. SubSeq(log, 1, n) = [k \in 1 .. n |-> log[k]]
    BY <1>1, <1>2, <1>3
  <1>5. Range(SubSeq(log, 1, n)) = {log[k] : k \in 1 .. n}
    BY <1>4 DEF Range
  <1> QED
    BY <1>1, <1>2, <1>5 DEF ReadersKept, ReaderSaw, CursorMissesNothing

\* A row is journalled, if it was not.
LEMMA JournalGrows ==
  ASSUME ReadersKept, NEW r \in RowIds, UNCHANGED <<outbox, reader>>, journal' = JournalWith(r)
  PROVE  ReadersKept' /\ Range(journal') = Range(journal) \cup {r}
  <1>1. CASE r \in Range(journal)
    <2>1. journal' = journal
      BY <1>1 DEF JournalWith
    <2> QED
      BY <1>1, <2>1 DEF ReadersKept, ReadersTyped, JournalledOnce, ReaderSaw, RowIds
  <1>2. CASE r \notin Range(journal)
    <2>1. PICK ids : ids = RowIds
      OBVIOUS
    <2>2. PICK log \in Seq(ids) : log = journal
      BY <2>1, ReaderFacts DEF ReadersKept
    <2>3. PICK n \in Nat : n = Len(log)
      BY <2>2
    <2>4. PICK c \in Nat : c = reader.cursor /\ c <= n
      BY <2>2, <2>3, ReaderFacts DEF ReadersKept
    <2>5. /\ journal' \in Seq(ids) /\ Len(journal') = n + 1 /\ DOMAIN journal' = 1 .. n + 1
          /\ DOMAIN log = 1 .. n
          /\ \A k \in 1 .. n : journal'[k] = log[k]
          /\ journal'[n + 1] = r
      BY <1>2, <2>1, <2>2, <2>3, AppendProperties DEF JournalWith
    <2>6. /\ \A k \in 1 .. n + 1 : k \in 1 .. n \/ k = n + 1
          /\ 1 .. n \subseteq 1 .. n + 1 /\ n + 1 \in 1 .. n + 1 /\ 1 .. c \subseteq 1 .. n
          /\ 0 .. n \subseteq 0 .. n + 1
      BY <2>3, <2>4
    <2>7. Range(journal') = Range(journal) \cup {r}
      BY <2>2, <2>5, <2>6 DEF Range
    <2>8. JournalledOnce'
      <3>1. \A k \in 1 .. n : log[k] # r
        BY <1>2, <2>2, <2>5 DEF Range
      <3> QED
        BY <2>2, <2>5, <2>6, <3>1 DEF ReadersKept, JournalledOnce
    <2>9. ReaderSaw'
      BY <2>2, <2>4, <2>5, <2>6 DEF ReadersKept, ReaderSaw
    <2>10. ReadersTyped'
      <3>1. reader \in [cursor : 0 .. n, acknowledged : 0 .. n, seen : SUBSET ids]
        BY <2>1, <2>2, <2>3 DEF ReadersKept, ReadersTyped
      <3>2. reader \in [cursor : 0 .. n + 1, acknowledged : 0 .. n + 1, seen : SUBSET ids]
        BY <2>6, <3>1
      <3>3. RowIds' = ids
        BY <2>1 DEF RowIds
      <3> QED
        BY <2>5, <3>2, <3>3 DEF ReadersKept, ReadersTyped
    <2> QED
      BY <2>7, <2>8, <2>9, <2>10 DEF ReadersKept
  <1> QED
    BY <1>1, <1>2

LEMMA ReadJournalKeeps ==
  ASSUME ReadersKept, ReadJournal PROVE ReadersKept'
  <1>1. PICK ids : ids = RowIds
    OBVIOUS
  <1>2. PICK log \in Seq(ids) : log = journal
    BY <1>1, ReaderFacts DEF ReadersKept
  <1>3. PICK n \in Nat : n = Len(log) /\ DOMAIN log = 1 .. n
    BY <1>2
  <1>4. PICK c \in Nat : c = reader.cursor /\ c < n
    BY <1>2, <1>3, ReaderFacts DEF ReadersKept, ReadJournal
  <1>5. PICK hi \in Nat : hi = Least(n, c + ReadLimit) /\ c < hi /\ hi <= n
    BY <1>3, <1>4, DeliveryAssumption DEF Least
  <1>6. PICK records : records = SubSeq(log, c + 1, hi)
    OBVIOUS
  <1>7. records \in Seq(ids) /\ Len(records) = hi - c /\ \A k \in 1 .. hi - c : records[k] = log[c + k]
    BY <1>2, <1>3, <1>4, <1>5, <1>6, SubSeqProperties
  <1>8. reader' = [cursor |-> c + Len(records), acknowledged |-> c, seen |-> reader.seen \cup Range(records)]
    BY <1>2, <1>3, <1>4, <1>5, <1>6 DEF ReadJournal, Records, NextCursor
  <1>9. c + Len(records) = hi
    BY <1>4, <1>5, <1>7
  <1>10. Range(records) \subseteq ids
    BY <1>7 DEF Range
  <1>11. PICK seen : seen = reader.seen \cup Range(records)
    OBVIOUS
  <1>12. reader' = [cursor |-> hi, acknowledged |-> c, seen |-> seen]
    BY <1>8, <1>9, <1>11
  <1>13. seen \in SUBSET ids
    BY <1>1, <1>10, <1>11, ReaderFacts DEF ReadersKept
  <1>14. reader'.cursor = hi /\ reader'.acknowledged = c /\ reader'.seen = seen
    BY <1>12
  <1>15. UNCHANGED <<journal, outbox>>
    BY DEF ReadJournal, sessionVars
  <1>16. ReadersTyped'
    <2>1. hi \in 0 .. n /\ c \in 0 .. n
      BY <1>4, <1>5
    <2>2. reader' \in [cursor : 0 .. n, acknowledged : 0 .. n, seen : SUBSET ids]
      BY <1>12, <1>13, <2>1
    <2>3. RowIds' = ids /\ Len(journal') = n
      BY <1>1, <1>2, <1>3, <1>15 DEF RowIds
    <2> QED
      BY <1>2, <1>5, <1>14, <1>15, <2>2, <2>3 DEF ReadersTyped
  <1>17. ReaderSaw'
    <2> SUFFICES ASSUME NEW k \in 1 .. hi PROVE log[k] \in seen
      BY <1>2, <1>14, <1>15 DEF ReaderSaw
    <2>1. CASE k <= c
      <3>1. k \in 1 .. c
        BY <2>1, <1>4
      <3> QED
        BY <1>2, <1>4, <1>11, <3>1 DEF ReadersKept, ReaderSaw
    <2>2. CASE k > c
      <3>1. k - c \in 1 .. hi - c /\ c + (k - c) = k
        BY <2>2, <1>4, <1>5
      <3>2. records[k - c] = log[k] /\ k - c \in DOMAIN records
        BY <1>7, <3>1
      <3> QED
        BY <1>11, <3>2 DEF Range
    <2> QED
      BY <2>1, <2>2, <1>4
  <1>18. JournalledOnce'
    BY <1>15 DEF ReadersKept, JournalledOnce
  <1> QED
    BY <1>16, <1>17, <1>18 DEF ReadersKept

LEMMA ReconnectKeeps ==
  ASSUME ReadersKept, Reconnect PROVE ReadersKept'
  <1>1. PICK n \in Nat : n = Len(journal)
    BY ReaderFacts DEF ReadersKept
  <1>2. PICK was \in [cursor : 0 .. n, acknowledged : 0 .. n, seen : SUBSET RowIds] : was = reader
    BY <1>1 DEF ReadersKept, ReadersTyped
  <1>3. PICK now : now = [was EXCEPT !.cursor = was.acknowledged]
    OBVIOUS
  <1>4. now = [cursor |-> was.acknowledged, acknowledged |-> was.acknowledged, seen |-> was.seen]
    BY <1>3
  <1>5. reader' = now /\ UNCHANGED <<journal, outbox>>
    BY <1>2, <1>3 DEF Reconnect, sessionVars
  <1>6. /\ now \in [cursor : 0 .. n, acknowledged : 0 .. n, seen : SUBSET RowIds]
        /\ now.cursor = was.acknowledged /\ now.acknowledged = was.acknowledged /\ now.seen = was.seen
    BY <1>4
  <1>7. ReadersTyped'
    <2>1. RowIds' = RowIds /\ Len(journal') = n
      BY <1>1, <1>5 DEF RowIds
    <2>2. was.acknowledged \in Nat
      BY <1>2
    <2> QED
      BY <1>5, <1>6, <2>1, <2>2 DEF ReadersKept, ReadersTyped
  <1>8. ReaderSaw'
    <2>1. 1 .. was.acknowledged \subseteq 1 .. was.cursor
      BY <1>2, ReaderFacts DEF ReadersKept
    <2> QED
      BY <1>2, <1>5, <1>6, <2>1 DEF ReadersKept, ReaderSaw
  <1>9. JournalledOnce'
    BY <1>5 DEF ReadersKept, JournalledOnce
  <1> QED
    BY <1>7, <1>8, <1>9 DEF ReadersKept

-----------------------------------------------------------------------------
(* The steps of the publishers                                             *)

LEMMA HeadIsDone ==
  ASSUME Typed, NEW i \in Instances, batch[i] # {}, NEW r, r = Min(batch[i]), HeadDone(i),
         UNCHANGED outbox
  PROVE  /\ r \in batch[i] /\ r \in RowIds /\ r \in AllRows
         /\ OnlyPublisher(i) /\ i \notin handed' /\ handed' \subseteq handed
         /\ batch' \in [Instances -> SUBSET RowIds]
         /\ handed' \subseteq {j \in Instances : batch'[j] # {}}
         /\ \A q : /\ Cardinality(Senders(q)) \in Nat /\ Cardinality(Senders(q)') \in Nat
                   /\ Cardinality(Senders(q)') <= Cardinality(Senders(q))
         /\ i \notin handed => Cardinality(Senders(r)') + 1 <= Cardinality(Senders(r))
  <1>1. r \in batch[i] /\ r \in RowIds /\ r \in AllRows
    BY HeadIsIn DEF Typed
  <1>2. /\ batch \in [Instances -> SUBSET RowIds] /\ handed \subseteq {j \in Instances : batch[j] # {}}
        /\ batch' = [batch EXCEPT ![i] = batch[i] \ {r}] /\ handed' = handed \ {i}
    BY DEF Typed, PublishersTyped, HeadDone
  <1>3. \A j \in Instances : batch'[j] = IF j = i THEN batch[i] \ {r} ELSE batch[j]
    BY <1>2
  <1>4. OnlyPublisher(i) /\ i \notin handed' /\ handed' \subseteq handed
    BY <1>2, <1>3 DEF OnlyPublisher
  <1>5. batch' \in [Instances -> SUBSET RowIds]
    BY <1>2
  <1>6. handed' \subseteq {j \in Instances : batch'[j] # {}}
    BY <1>2, <1>3
  <1>7. ASSUME NEW q
        PROVE  /\ i \in Senders(q)' => i \in Senders(q)
               /\ q = r => i \notin Senders(q)'
               /\ q = r /\ i \notin handed => i \in Senders(q)
    BY <1>1, <1>3, <1>4 DEF Senders
  <1>8. ASSUME NEW q
        PROVE  /\ Cardinality(Senders(q)) \in Nat /\ Cardinality(Senders(q)') \in Nat
               /\ Cardinality(Senders(q)') <= Cardinality(Senders(q))
               /\ q = r /\ i \notin handed => Cardinality(Senders(q)') + 1 <= Cardinality(Senders(q))
    BY <1>4, <1>7, SendersMove
  <1> QED
    BY <1>1, <1>4, <1>5, <1>6, <1>8

\* What has been handed over stays so.
LEMMA HandedStays ==
  ASSUME Typed, HandedIsKept, NEW i \in Instances, OnlyPublisher(i), handed' \subseteq Instances,
         i \in handed' => Min(batch'[i]) \in Range(journal') \cup Sent',
         Range(journal) \subseteq Range(journal'), Sent \subseteq Sent'
  PROVE  HandedIsKept'
  <1> SUFFICES ASSUME NEW j \in handed' PROVE Min(batch'[j]) \in Range(journal') \cup Sent'
    BY DEF HandedIsKept, Sent
  <1>1. CASE j # i
    BY <1>1 DEF HandedIsKept, OnlyPublisher
  <1> QED
    BY <1>1

LEMMA LeasesWritten ==
  ASSUME lease \in [AllRows -> LeaseRows], NEW i \in Instances, NEW r \in AllRows
  PROVE  /\ Released(i, r) \in [AllRows -> LeaseRows]
         /\ \A q \in AllRows : q # r => Released(i, r)[q] = lease[q]
  <1>1. Free \in LeaseRows
    BY DEF Free, LeaseRows
  <1> QED
    BY <1>1 DEF Released

LEMMA ReadPendingKeeps ==
  ASSUME Typed, PublishersKept, NEW i \in Instances, ReadPending(i) PROVE PublishersKept'
  <1>1. /\ batch[i] = {} /\ batch' = [batch EXCEPT ![i] = OldestPending]
        /\ lease' = [r \in AllRows |-> IF deployment = "service" /\ r \in OldestPending
                                        THEN [by |-> i, live |-> TRUE] ELSE lease[r]]
        /\ UNCHANGED <<outbox, deployment, published, handed, journal, stream, repeats>>
    BY DEF ReadPending, sessionVars, localVars
  <1>2. OldestPending \subseteq Pending /\ Pending \subseteq RowIds
    BY DEF OldestPending, Pending
  <1>3. /\ batch \in [Instances -> SUBSET RowIds] /\ handed \subseteq {j \in Instances : batch[j] # {}}
        /\ lease \in [AllRows -> LeaseRows]
    BY DEF PublishersKept, PublishersTyped
  <1>4. \A j \in Instances : batch'[j] = IF j = i THEN OldestPending ELSE batch[j]
    BY <1>1, <1>3
  <1>5. i \notin handed
    BY <1>1, <1>3
  <1>6. OnlyPublisher(i)
    BY <1>1, <1>4 DEF OnlyPublisher
  <1>7. PublishersTyped'
    <2>1. batch' \in [Instances -> SUBSET RowIds]
      BY <1>1, <1>2, <1>3
    <2>2. handed' \subseteq {j \in Instances : batch'[j] # {}}
      BY <1>1, <1>3, <1>4, <1>5
    <2>3. [by |-> i, live |-> TRUE] \in LeaseRows
      BY DEF LeaseRows
    <2>4. lease' \in [AllRows -> LeaseRows]
      BY <1>1, <1>3, <2>3
    <2>5. RowIds' = RowIds /\ published \subseteq RowIds
      BY <1>1 DEF RowIds, PublishersKept, PublishersTyped
    <2> QED
      BY <1>1, <2>1, <2>2, <2>4, <2>5 DEF PublishersTyped, LeaseRows
  <1>8. Sent' = Sent /\ PublishedIsKept'
    BY <1>1 DEF Sent, PublishersKept, PublishedIsKept
  <1>9. HandedIsKept'
    BY <1>1, <1>3, <1>5, <1>6, <1>8, HandedStays DEF PublishersKept
  <1>10. SendsExcused'
    <2> SUFFICES ASSUME deployment = "service", NEW r \in AllRows
                 PROVE  Cardinality(Copies(r)') + Cardinality(Senders(r)') + Unsent(r)' <= 1 + repeats[r].outbox
      BY <1>1 DEF PublishersKept, SendsExcused
    <2>1. /\ Cardinality(Copies(r)) \in Nat /\ Cardinality(Senders(r)) \in Nat
          /\ Unsent(r) \in {0, 1} /\ repeats[r].outbox \in Nat
          /\ Cardinality(Copies(r)) + Cardinality(Senders(r)) + Unsent(r) <= 1 + repeats[r].outbox
      BY SendCounts DEF PublishersKept, SendsExcused
    <2>2. Copies(r)' = Copies(r)
      BY <1>1 DEF Copies
    <2>3. /\ Cardinality(Senders(r)') \in Nat
          /\ Cardinality(Senders(r)') <= Cardinality(Senders(r)) + 1
          /\ i \notin Senders(r)' => Cardinality(Senders(r)') <= Cardinality(Senders(r))
      BY <1>6, SendersMove
    <2>4. CASE r \in OldestPending
      <3>1. Unsent(r) = 1
        BY <1>2, <2>4 DEF Unsent, Pending
      <3>2. lease'[r].live
        BY <1>1, <2>4
      <3>3. Unsent(r)' = 0
        BY <3>2 DEF Unsent
      <3> QED
        BY <2>1, <2>2, <2>3, <3>1, <3>3
    <2>5. CASE r \notin OldestPending
      <3>1. i \notin Senders(r)'
        BY <1>4, <2>5 DEF Senders
      <3>2. lease'[r] = lease[r]
        BY <1>1, <2>5
      <3>3. Unsent(r)' = Unsent(r)
        BY <1>1, <3>2 DEF Unsent
      <3> QED
        BY <2>1, <2>2, <2>3, <3>1, <3>3
    <2> QED
      BY <2>4, <2>5
  <1> QED
    BY <1>7, <1>8, <1>9, <1>10 DEF PublishersKept

LEMMA PublishHeadKeeps ==
  ASSUME Typed, PublishersKept, ReadersKept, ConsumersKept, NEW i \in Instances, PublishHead(i)
  PROVE  PublishersKept' /\ ReadersKept' /\ ConsumersKept'
  <1>1. /\ batch[i] # {} /\ i \notin handed /\ handed' = handed \cup {i}
        /\ UNCHANGED <<outbox, deployment, published, batch, lease, reader, repeats>>
        /\ UNCHANGED <<inbox, consumer, deadLetters, handlings>>
    BY DEF PublishHead, sessionVars, consumerVars
  <1>2. PICK r \in RowIds : r = Min(batch[i]) /\ r \in batch[i] /\ r \in AllRows
    BY <1>1, HeadIsIn DEF Typed
  <1>3. Delivered(r)
    BY <1>2 DEF PublishHead
  <1>4. PublishersTyped'
    <2>1. handed' \subseteq {j \in Instances : batch[j] # {}}
      BY <1>1 DEF PublishersKept, PublishersTyped
    <2> QED
      BY <1>1, <2>1 DEF PublishersKept, PublishersTyped, LeaseRows, RowIds
  <1>5. OnlyPublisher(i) /\ i \notin Senders(r)' /\ i \in Senders(r)
        /\ \A q : q # r => (i \in Senders(q)' <=> i \in Senders(q))
    BY <1>1, <1>2 DEF OnlyPublisher, Senders
  <1>6. CASE deployment = "local"
    <2>1. journal' = JournalWith(r) /\ UNCHANGED stream
      BY <1>3, <1>6 DEF Delivered
    <2>2. ReadersKept' /\ Range(journal') = Range(journal) \cup {r}
      BY <1>1, <2>1, JournalGrows
    <2>3. Sent' = Sent
      BY <2>1 DEF Sent
    <2>4. PublishedIsKept'
      BY <1>1, <2>2, <2>3 DEF PublishersKept, PublishedIsKept, Sent
    <2>5. HandedIsKept'
      BY <1>1, <1>2, <1>5, <2>2, <2>3, HandedStays DEF PublishersKept, PublishersTyped
    <2>6. SendsExcused'
      BY <1>1, <1>6, <2>1 DEF PublishersKept, SendsExcused
    <2>7. ConsumersKept'
      <3>1. SameEvents /\ DOMAIN stream' = DOMAIN stream
        BY <1>1, <2>1, StreamStays
      <3>2. RowIds' = RowIds
        BY <1>1 DEF RowIds
      <3> QED
        BY <1>1, <2>1, <3>1, <3>2, OthersKeepConsumers
    <2> QED
      BY <1>4, <2>2, <2>4, <2>5, <2>6, <2>7 DEF PublishersKept
  <1>7. CASE deployment = "service"
    <2>1. stream' = Append(stream, Message(r)) /\ UNCHANGED journal
      BY <1>3, <1>7 DEF Delivered
    <2>2. /\ SameEvents
          /\ \A m \in DOMAIN stream' :
               stream'[m].state = "settled" => m \in DOMAIN stream /\ stream[m].state = "settled"
          /\ Sent' = Sent \cup {r}
          /\ \A q : q # r => Copies(q)' = Copies(q)
          /\ Cardinality(Copies(r)') \in Nat
          /\ Cardinality(Copies(r)') <= Cardinality(Copies(r)) + 1
      BY <1>1, <1>2, <2>1, StreamGrows
    <2>3. PublishedIsKept'
      BY <1>1, <2>1, <2>2 DEF PublishersKept, PublishedIsKept, Sent
    <2>4. HandedIsKept'
      BY <1>1, <1>2, <1>5, <2>1, <2>2, HandedStays DEF PublishersKept, PublishersTyped
    <2>5. ASSUME NEW q \in AllRows
          PROVE  Cardinality(Copies(q)') + Cardinality(Senders(q)') + Unsent(q)' <= 1 + repeats[q].outbox
      <3>1. /\ Cardinality(Copies(q)) \in Nat /\ Cardinality(Senders(q)) \in Nat
            /\ Unsent(q) \in {0, 1} /\ repeats[q].outbox \in Nat
            /\ Cardinality(Copies(q)) + Cardinality(Senders(q)) + Unsent(q) <= 1 + repeats[q].outbox
        BY <1>7, SendCounts DEF PublishersKept, SendsExcused
      <3>2. Unsent(q)' = Unsent(q)
        BY <1>1 DEF Unsent
      <3>3. CASE q = r
        <4>1. /\ Cardinality(Senders(q)') \in Nat
              /\ Cardinality(Senders(q)') + 1 <= Cardinality(Senders(q))
          BY <1>5, <3>3, SendersMove
        <4> QED
          BY <2>2, <3>1, <3>2, <3>3, <4>1
      <3>4. CASE q # r
        <4>1. /\ Cardinality(Senders(q)') \in Nat
              /\ Cardinality(Senders(q)') <= Cardinality(Senders(q))
          BY <1>5, <3>4, SendersMove
        <4>2. Cardinality(Copies(q)') = Cardinality(Copies(q))
          BY <2>2, <3>4
        <4> QED
          BY <3>1, <3>2, <4>1, <4>2
      <3> QED
        BY <3>3, <3>4
    <2>6. SendsExcused'
      BY <1>1, <1>7, <2>5 DEF SendsExcused
    <2>7. ConsumersKept'
      <3>1. RowIds' = RowIds
        BY <1>1 DEF RowIds
      <3> QED
        BY <1>1, <2>2, <3>1, OthersKeepConsumers
    <2>8. ReadersKept'
      BY <1>1, <2>1 DEF ReadersKept, ReadersTyped, JournalledOnce, ReaderSaw, RowIds
    <2> QED
      BY <1>4, <2>3, <2>4, <2>6, <2>7, <2>8 DEF PublishersKept
  <1> QED
    BY <1>6, <1>7 DEF Typed

\* A publisher is done with the oldest row of its batch.
LEMMA HeadDoneKeeps ==
  ASSUME Typed, PublishersKept, NEW i \in Instances, batch[i] # {}, HeadDone(i),
         UNCHANGED <<outbox, deployment, journal>>, Sent \subseteq Sent',
         published' \subseteq RowIds, lease' \in [AllRows -> LeaseRows],
         PublishedIsKept', SendsExcused'
  PROVE  PublishersKept'
  <1>1. PICK r : r = Min(batch[i])
    OBVIOUS
  <1>2. /\ OnlyPublisher(i) /\ i \notin handed' /\ handed' \subseteq handed
        /\ batch' \in [Instances -> SUBSET RowIds]
        /\ handed' \subseteq {j \in Instances : batch'[j] # {}}
    BY <1>1, HeadIsDone
  <1>3. PublishersTyped'
    <2>1. RowIds' = RowIds /\ LeaseRows' = LeaseRows
      BY DEF RowIds, LeaseRows
    <2> QED
      BY <1>2, <2>1 DEF PublishersTyped
  <1>4. HandedIsKept'
    BY <1>2, HandedStays DEF PublishersKept
  <1> QED
    BY <1>3, <1>4 DEF PublishersKept

LEMMA MarkPublishedKeeps ==
  ASSUME Typed, PublishersKept, NEW i \in Instances, MarkPublished(i) PROVE PublishersKept'
  <1>1. /\ batch[i] # {} /\ i \in handed /\ HeadDone(i)
        /\ UNCHANGED <<outbox, deployment, journal, stream, repeats>>
    BY DEF MarkPublished, sessionVars, localVars
  <1>2. PICK r : r = Min(batch[i])
    OBVIOUS
  <1>3. /\ r \in RowIds /\ r \in AllRows
        /\ \A q : /\ Cardinality(Senders(q)) \in Nat /\ Cardinality(Senders(q)') \in Nat
                  /\ Cardinality(Senders(q)') <= Cardinality(Senders(q))
    BY <1>1, <1>2, HeadIsDone
  <1>4. /\ Owns(i, r) => published' = published \cup {r} /\ lease' = Released(i, r)
        /\ ~Owns(i, r) => published' = published /\ lease' = lease
    BY <1>2 DEF MarkPublished, Released
  <1>5. /\ lease \in [AllRows -> LeaseRows] /\ published \subseteq RowIds
        /\ r \in Range(journal) \cup Sent
    BY <1>1, <1>2 DEF PublishersKept, PublishersTyped, HandedIsKept
  <1>6. /\ Released(i, r) \in [AllRows -> LeaseRows]
        /\ \A q \in AllRows : q # r => Released(i, r)[q] = lease[q]
    BY <1>3, <1>5, LeasesWritten
  <1>7. published' \subseteq RowIds /\ lease' \in [AllRows -> LeaseRows]
    BY <1>3, <1>4, <1>5, <1>6
  <1>8. Sent' = Sent /\ \A q : Copies(q)' = Copies(q)
    BY <1>1 DEF Sent, Copies
  <1>9. PublishedIsKept'
    BY <1>1, <1>4, <1>5 DEF PublishersKept, PublishedIsKept, Sent
  <1>10. SendsExcused'
    <2> SUFFICES ASSUME deployment = "service", NEW q \in AllRows
                 PROVE  Cardinality(Copies(q)') + Cardinality(Senders(q)') + Unsent(q)' <= 1 + repeats[q].outbox
      BY <1>1 DEF PublishersKept, SendsExcused
    <2>1. /\ Cardinality(Copies(q)) \in Nat /\ Cardinality(Senders(q)) \in Nat
          /\ Unsent(q) \in {0, 1} /\ repeats[q].outbox \in Nat
          /\ Cardinality(Copies(q)) + Cardinality(Senders(q)) + Unsent(q) <= 1 + repeats[q].outbox
      BY SendCounts DEF PublishersKept, SendsExcused
    <2>2. Unsent(q)' \in {0, 1} /\ Unsent(q)' <= Unsent(q)
      BY <1>4, <1>6 DEF Unsent
    <2>3. Cardinality(Copies(q)') = Cardinality(Copies(q))
      BY <1>8
    <2> QED
      BY <1>3, <2>1, <2>2, <2>3
  <1> QED
    BY <1>1, <1>7, <1>8, <1>9, <1>10, HeadDoneKeeps

LEMMA MarkFailsKeeps ==
  ASSUME Typed, PublishersKept, NEW i \in Instances, MarkFails(i) PROVE PublishersKept'
  <1>1. /\ batch[i] # {} /\ HeadDone(i)
        /\ UNCHANGED <<outbox, deployment, published, lease, journal, stream, repeats>>
    BY DEF MarkFails, sessionVars, localVars
  <1>2. \A q : /\ Cardinality(Senders(q)) \in Nat /\ Cardinality(Senders(q)') \in Nat
               /\ Cardinality(Senders(q)') <= Cardinality(Senders(q))
    BY <1>1, HeadIsDone
  <1>3. lease' \in [AllRows -> LeaseRows] /\ published' \subseteq RowIds
    BY <1>1 DEF PublishersKept, PublishersTyped
  <1>4. Sent' = Sent /\ PublishedIsKept'
    BY <1>1 DEF PublishersKept, PublishedIsKept, Sent
  <1>5. SendsExcused'
    <2> SUFFICES ASSUME deployment = "service", NEW q \in AllRows
                 PROVE  Cardinality(Copies(q)') + Cardinality(Senders(q)') + Unsent(q)' <= 1 + repeats[q].outbox
      BY <1>1 DEF PublishersKept, SendsExcused
    <2>1. /\ Cardinality(Copies(q)) \in Nat /\ Unsent(q) \in {0, 1} /\ repeats[q].outbox \in Nat
          /\ Cardinality(Copies(q)) + Cardinality(Senders(q)) + Unsent(q) <= 1 + repeats[q].outbox
      BY SendCounts DEF PublishersKept, SendsExcused
    <2>2. Unsent(q)' = Unsent(q)
      BY <1>1 DEF Unsent
    <2>3. Copies(q)' = Copies(q)
      BY <1>1 DEF Copies
    <2> QED
      BY <1>2, <2>1, <2>2, <2>3
  <1> QED
    BY <1>1, <1>3, <1>4, <1>5, HeadDoneKeeps

\* A row of repeats gains one lapse or one lost answer of the outbox.
LEMMA OneMoreRepeat ==
  ASSUME Typed, NEW r \in AllRows, repeats' = [repeats EXCEPT ![r].outbox = @ + 1]
  PROVE  /\ repeats' \in [AllRows -> [outbox : Nat, inbox : Nat]]
         /\ repeats'[r].outbox = repeats[r].outbox + 1
         /\ \A q \in AllRows : q # r => repeats'[q].outbox = repeats[q].outbox
         /\ \A q \in AllRows : repeats'[q].inbox = repeats[q].inbox
  <1>1. PICK old \in [outbox : Nat, inbox : Nat] : old = repeats[r]
    BY DEF Typed
  <1>2. PICK new : new = [old EXCEPT !.outbox = old.outbox + 1]
    OBVIOUS
  <1>3. new = [outbox |-> old.outbox + 1, inbox |-> old.inbox]
    BY <1>2
  <1>4. new \in [outbox : Nat, inbox : Nat] /\ new.outbox = old.outbox + 1 /\ new.inbox = old.inbox
    BY <1>3
  <1>5. repeats' = [repeats EXCEPT ![r] = new]
    BY <1>1, <1>2
  <1> QED
    BY <1>1, <1>4, <1>5 DEF Typed

LEMMA PublishFailsKeeps ==
  ASSUME Typed, PublishersKept, ConsumersKept, NEW i \in Instances, PublishFails(i)
  PROVE  /\ PublishersKept' /\ ConsumersKept'
         /\ repeats' \in [AllRows -> [outbox : Nat, inbox : Nat]]
  <1>1. /\ batch[i] # {} /\ i \notin handed /\ HeadDone(i)
        /\ UNCHANGED <<outbox, deployment, published, journal>>
        /\ UNCHANGED <<inbox, consumer, deadLetters, handlings>>
    BY DEF PublishFails, sessionVars, localVars, consumerVars
  <1>2. PICK r : r = Min(batch[i])
    OBVIOUS
  <1>3. /\ r \in RowIds /\ r \in AllRows
        /\ \A q : /\ Cardinality(Senders(q)) \in Nat /\ Cardinality(Senders(q)') \in Nat
                  /\ Cardinality(Senders(q)') <= Cardinality(Senders(q))
        /\ Cardinality(Senders(r)') + 1 <= Cardinality(Senders(r))
    BY <1>1, <1>2, HeadIsDone
  <1>4. /\ lease' = Released(i, r)
        /\ \/ UNCHANGED <<stream, repeats>>
           \/ /\ deployment = "service" /\ stream' = Append(stream, Message(r))
              /\ repeats' = [repeats EXCEPT ![r].outbox = @ + 1]
    BY <1>2 DEF PublishFails
  <1>5. lease \in [AllRows -> LeaseRows] /\ published \subseteq RowIds
    BY DEF PublishersKept, PublishersTyped
  <1>6. lease' \in [AllRows -> LeaseRows] /\ \A q \in AllRows : q # r => lease'[q] = lease[q]
    BY <1>3, <1>4, <1>5, LeasesWritten
  <1>7. /\ SameEvents /\ Sent \subseteq Sent'
        /\ \A m \in DOMAIN stream' :
             stream'[m].state = "settled" => m \in DOMAIN stream /\ stream[m].state = "settled"
        /\ deployment = "local" => stream' = stream
        /\ repeats' \in [AllRows -> [outbox : Nat, inbox : Nat]]
        /\ \A q \in AllRows : repeats'[q].inbox = repeats[q].inbox
        /\ \A q \in AllRows : q # r => Copies(q)' = Copies(q) /\ repeats'[q].outbox = repeats[q].outbox
        /\ Cardinality(Copies(r)') \in Nat /\ repeats'[r].outbox \in Nat
        /\ Cardinality(Copies(r)') + repeats[r].outbox <= Cardinality(Copies(r)) + repeats'[r].outbox
    <2>0. Cardinality(Copies(r)) \in Nat /\ repeats[r].outbox \in Nat
      BY <1>3, SendCounts
    <2>1. CASE UNCHANGED <<stream, repeats>>
      <3>1. SameEvents
        BY <1>1, <2>1, StreamStays
      <3>2. Sent' = Sent /\ \A q : Copies(q)' = Copies(q)
        BY <2>1 DEF Sent, Copies
      <3>3. Cardinality(Copies(r)') = Cardinality(Copies(r))
        BY <3>2
      <3> QED
        BY <2>0, <2>1, <3>1, <3>2, <3>3 DEF Typed
    <2>2. CASE /\ deployment = "service" /\ stream' = Append(stream, Message(r))
               /\ repeats' = [repeats EXCEPT ![r].outbox = @ + 1]
      <3>1. /\ SameEvents /\ Sent \subseteq Sent'
            /\ \A m \in DOMAIN stream' :
                 stream'[m].state = "settled" => m \in DOMAIN stream /\ stream[m].state = "settled"
            /\ \A q : q # r => Copies(q)' = Copies(q)
            /\ Cardinality(Copies(r)') \in Nat
            /\ Cardinality(Copies(r)') <= Cardinality(Copies(r)) + 1
        BY <1>1, <1>3, <2>2, StreamGrows
      <3>2. /\ repeats' \in [AllRows -> [outbox : Nat, inbox : Nat]]
            /\ repeats'[r].outbox = repeats[r].outbox + 1
            /\ \A q \in AllRows : q # r => repeats'[q].outbox = repeats[q].outbox
            /\ \A q \in AllRows : repeats'[q].inbox = repeats[q].inbox
        BY <1>3, <2>2, OneMoreRepeat
      <3> QED
        BY <2>0, <2>2, <3>1, <3>2
    <2> QED
      BY <1>4, <2>1, <2>2
  <1>8. PublishedIsKept'
    BY <1>1, <1>7 DEF PublishersKept, PublishedIsKept, Sent
  <1>9. SendsExcused'
    <2>1. ASSUME deployment = "service", NEW q \in AllRows
          PROVE  Cardinality(Copies(q)') + Cardinality(Senders(q)') + Unsent(q)' <= 1 + repeats'[q].outbox
      <3>1. /\ Cardinality(Copies(q)) \in Nat /\ Cardinality(Senders(q)) \in Nat
            /\ Unsent(q) \in {0, 1} /\ Unsent(q)' \in {0, 1} /\ repeats[q].outbox \in Nat
            /\ Cardinality(Copies(q)) + Cardinality(Senders(q)) + Unsent(q) <= 1 + repeats[q].outbox
        BY <2>1, SendCounts DEF PublishersKept, SendsExcused
      <3>2. CASE q = r
        BY <1>3, <1>7, <3>1, <3>2
      <3>3. CASE q # r
        <4>1. Unsent(q)' = Unsent(q)
          BY <1>1, <1>6, <3>3 DEF Unsent
        <4>2. Cardinality(Copies(q)') = Cardinality(Copies(q)) /\ repeats'[q].outbox = repeats[q].outbox
          BY <1>7, <3>3
        <4> QED
          BY <1>3, <3>1, <4>1, <4>2
      <3> QED
        BY <3>2, <3>3
    <2>2. deployment = "local" => stream' = <<>>
      BY <1>7 DEF PublishersKept, SendsExcused
    <2> QED
      BY <1>1, <2>1, <2>2 DEF SendsExcused
  <1>10. PublishersKept'
    BY <1>1, <1>5, <1>6, <1>7, <1>8, <1>9, HeadDoneKeeps
  <1>11. ConsumersKept'
    <2>1. RowIds' = RowIds
      BY <1>1 DEF RowIds
    <2> QED
      BY <1>1, <1>7, <2>1, OthersKeepConsumers
  <1> QED
    BY <1>7, <1>10, <1>11

LEMMA StopPublisherKeeps ==
  ASSUME Typed, PublishersKept, NEW i \in Instances, StopPublisher(i) PROVE PublishersKept'
  <1>1. /\ batch' = [batch EXCEPT ![i] = {}] /\ handed' = handed \ {i}
        /\ UNCHANGED <<outbox, deployment, published, lease, journal, stream, repeats>>
    BY DEF StopPublisher, sessionVars, localVars
  <1>2. /\ batch \in [Instances -> SUBSET RowIds] /\ handed \subseteq {j \in Instances : batch[j] # {}}
    BY DEF PublishersKept, PublishersTyped
  <1>3. \A j \in Instances : batch'[j] = IF j = i THEN {} ELSE batch[j]
    BY <1>1, <1>2
  <1>4. OnlyPublisher(i) /\ \A q : i \notin Senders(q)'
    BY <1>1, <1>3 DEF OnlyPublisher, Senders
  <1>5. PublishersTyped'
    <2>1. batch' \in [Instances -> SUBSET RowIds]
      BY <1>1, <1>2
    <2>2. handed' \subseteq {j \in Instances : batch'[j] # {}}
      BY <1>1, <1>2, <1>3
    <2> QED
      BY <1>1, <2>1, <2>2 DEF PublishersKept, PublishersTyped, LeaseRows, RowIds
  <1>6. Sent' = Sent /\ PublishedIsKept'
    BY <1>1 DEF PublishersKept, PublishedIsKept, Sent
  <1>7. HandedIsKept'
    BY <1>1, <1>2, <1>4, <1>6, HandedStays DEF PublishersKept
  <1>8. SendsExcused'
    <2> SUFFICES ASSUME deployment = "service", NEW q \in AllRows
                 PROVE  Cardinality(Copies(q)') + Cardinality(Senders(q)') + Unsent(q)' <= 1 + repeats[q].outbox
      BY <1>1 DEF PublishersKept, SendsExcused
    <2>1. /\ Cardinality(Copies(q)) \in Nat /\ Unsent(q) \in {0, 1} /\ repeats[q].outbox \in Nat
          /\ Cardinality(Copies(q)) + Cardinality(Senders(q)) + Unsent(q) <= 1 + repeats[q].outbox
      BY SendCounts DEF PublishersKept, SendsExcused
    <2>2. /\ Cardinality(Senders(q)) \in Nat /\ Cardinality(Senders(q)') \in Nat
          /\ Cardinality(Senders(q)') <= Cardinality(Senders(q))
      BY <1>4, SendersMove
    <2>3. Unsent(q)' = Unsent(q) /\ Copies(q)' = Copies(q)
      BY <1>1 DEF Unsent, Copies
    <2> QED
      BY <2>1, <2>2, <2>3
  <1> QED
    BY <1>5, <1>6, <1>7, <1>8 DEF PublishersKept

LEMMA OutboxLeaseLapsesKeeps ==
  ASSUME Typed, PublishersKept, NEW r \in AllRows, OutboxLeaseLapses(r)
  PROVE  /\ PublishersKept' /\ repeats' \in [AllRows -> [outbox : Nat, inbox : Nat]]
         /\ \A q \in AllRows : repeats'[q].inbox = repeats[q].inbox
  <1>1. /\ lease' = [lease EXCEPT ![r].live = FALSE]
        /\ repeats' = [repeats EXCEPT ![r].outbox = @ + 1]
        /\ UNCHANGED <<outbox, deployment, published, batch, handed, journal, stream>>
    BY DEF OutboxLeaseLapses, sessionVars, localVars
  <1>2. /\ repeats' \in [AllRows -> [outbox : Nat, inbox : Nat]]
        /\ repeats'[r].outbox = repeats[r].outbox + 1
        /\ \A q \in AllRows : q # r => repeats'[q].outbox = repeats[q].outbox
        /\ \A q \in AllRows : repeats'[q].inbox = repeats[q].inbox
    BY <1>1, OneMoreRepeat
  <1>3. lease' \in [AllRows -> LeaseRows] /\ \A q \in AllRows : q # r => lease'[q] = lease[q]
    <2>1. PICK was \in LeaseRows : was = lease[r]
      BY DEF PublishersKept, PublishersTyped
    <2>2. PICK now : now = [was EXCEPT !.live = FALSE]
      OBVIOUS
    <2>3. now = [by |-> was.by, live |-> FALSE]
      BY <2>2 DEF LeaseRows
    <2>4. now \in LeaseRows
      BY <2>3 DEF LeaseRows
    <2>5. lease' = [lease EXCEPT ![r] = now]
      BY <1>1, <2>1, <2>2
    <2> QED
      BY <2>4, <2>5 DEF PublishersKept, PublishersTyped
  <1>4. PublishersTyped'
    BY <1>1, <1>3 DEF PublishersKept, PublishersTyped, LeaseRows, RowIds
  <1>5. PublishedIsKept' /\ HandedIsKept'
    BY <1>1 DEF PublishersKept, PublishedIsKept, HandedIsKept, Sent
  <1>6. SendsExcused'
    <2> SUFFICES ASSUME deployment = "service", NEW q \in AllRows
                 PROVE  Cardinality(Copies(q)') + Cardinality(Senders(q)') + Unsent(q)' <= 1 + repeats'[q].outbox
      BY <1>1 DEF PublishersKept, SendsExcused
    <2>1. /\ Cardinality(Copies(q)) \in Nat /\ Cardinality(Senders(q)) \in Nat
          /\ Unsent(q) \in {0, 1} /\ Unsent(q)' \in {0, 1} /\ repeats[q].outbox \in Nat
          /\ Cardinality(Copies(q)) + Cardinality(Senders(q)) + Unsent(q) <= 1 + repeats[q].outbox
      BY SendCounts DEF PublishersKept, SendsExcused
    <2>2. Senders(q)' = Senders(q) /\ Copies(q)' = Copies(q)
      BY <1>1 DEF Senders, Copies
    <2>3. q # r => Unsent(q)' = Unsent(q)
      BY <1>1, <1>3 DEF Unsent
    <2> QED
      BY <1>2, <2>1, <2>2, <2>3
  <1> QED
    BY <1>2, <1>4, <1>5, <1>6 DEF PublishersKept

-----------------------------------------------------------------------------
(* What a step leaves alone                                                *)

LEMMA ReadersStay ==
  ASSUME ReadersKept, UNCHANGED <<outbox, journal, reader>> PROVE ReadersKept'
  BY DEF ReadersKept, ReadersTyped, JournalledOnce, ReaderSaw, RowIds

LEMMA ConsumersStay ==
  ASSUME Typed, ConsumersKept, UNCHANGED <<outbox, stream, inbox, consumer, deadLetters, handlings>>,
         \A e \in AllRows : repeats'[e].inbox = repeats[e].inbox
  PROVE  ConsumersKept'
  <1>1. SameEvents /\ DOMAIN stream' = DOMAIN stream
    BY StreamStays
  <1>2. RowIds' = RowIds
    BY DEF RowIds
  <1> QED
    BY <1>1, <1>2, OthersKeepConsumers

LEMMA PublishersStay ==
  ASSUME Typed, PublishersKept, UNCHANGED <<outbox, deployment, published, batch, handed, lease, journal>>,
         SameEvents, DOMAIN stream' = DOMAIN stream,
         \A r \in AllRows : repeats'[r].outbox = repeats[r].outbox
  PROVE  PublishersKept'
  <1>1. Sent' = Sent /\ \A r : Copies(r)' = Copies(r)
    BY CopiesStay
  <1>2. PublishersTyped'
    BY DEF PublishersKept, PublishersTyped, LeaseRows, RowIds
  <1>3. PublishedIsKept' /\ HandedIsKept'
    BY <1>1 DEF PublishersKept, PublishedIsKept, HandedIsKept, Sent
  <1>4. \A r : Senders(r)' = Senders(r) /\ Unsent(r)' = Unsent(r)
    BY DEF Senders, Unsent
  <1>5. ASSUME deployment = "local" PROVE stream' = <<>>
    <2>1. stream = <<>>
      BY <1>5 DEF PublishersKept, SendsExcused
    <2>2. PICK rows : stream' \in Seq(rows)
      BY DEF SameEvents
    <2>3. DOMAIN stream' = {} /\ DOMAIN stream' = 1 .. Len(stream') /\ Len(stream') \in Nat
      BY <2>1, <2>2
    <2>4. Len(stream') = 0
      BY <2>3
    <2> QED
      BY <2>2, <2>4, EmptySeq
  <1>6. SendsExcused'
    <2>1. ASSUME deployment = "service", NEW r \in AllRows
          PROVE  Cardinality(Copies(r)') + Cardinality(Senders(r)') + Unsent(r)' <= 1 + repeats'[r].outbox
      <3>1. Cardinality(Copies(r)) + Cardinality(Senders(r)) + Unsent(r) <= 1 + repeats[r].outbox
        BY <2>1 DEF PublishersKept, SendsExcused
      <3> QED
        BY <1>1, <1>4, <3>1
    <2> QED
      BY <1>5, <2>1 DEF SendsExcused
  <1> QED
    BY <1>2, <1>3, <1>6 DEF PublishersKept

\* No consumer adds a message to the stream, or takes one away.
LEMMA ConsumersKeepTheStream ==
  ASSUME Typed, NEW i \in Instances, ConsumerStep(i)
  PROVE  SameEvents /\ DOMAIN stream' = DOMAIN stream
  <1>1. UNCHANGED outbox
    BY DEF ConsumerStep, Deliver, ClaimEvent, Handle, Complete, Fail, PublishDeadLetter, Ack, StopConsumer,
         sessionVars
  <1>2. CASE UNCHANGED stream
    BY <1>1, <1>2, StreamStays
  <1>3. ASSUME NEW state \in {"ready", "held", "settled"}, WithState(i, state), consumer[i].at # "rest"
        PROVE  SameEvents /\ DOMAIN stream' = DOMAIN stream
    BY <1>1, <1>3, ErrandIsKnown, StateMoves DEF WithState
  <1>4. CASE Deliver(i)
    <2>1. PICK m \in DOMAIN stream :
            stream[m].deliveries < MaxDeliveries /\ stream' = [stream EXCEPT ![m] = Held(@)]
      BY <1>4 DEF Deliver
    <2>2. PICK run : run = Held(stream[m])
      OBVIOUS
    <2>3. run \in StreamRows /\ run.event = stream[m].event
      BY <2>1, <2>2, StreamRowsWritten
    <2>4. stream' = [stream EXCEPT ![m] = run]
      BY <2>1, <2>2
    <2> QED
      BY <1>1, <2>3, <2>4, MessageMoves
  <1>5. CASE ClaimEvent(i) \/ Fail(i)
    <2>1. consumer[i].at # "rest" /\ (UNCHANGED stream \/ WithState(i, "ready"))
      BY <1>5 DEF ClaimEvent, Fail
    <2> QED
      BY <1>2, <1>3, <2>1
  <1>6. CASE Ack(i)
    <2>1. consumer[i].at # "rest" /\ WithState(i, "settled")
      BY <1>6 DEF Ack
    <2> QED
      BY <1>3, <2>1
  <1>7. CASE Handle(i) \/ Complete(i) \/ PublishDeadLetter(i) \/ StopConsumer(i)
    BY <1>2, <1>7 DEF Handle, Complete, PublishDeadLetter, StopConsumer
  <1> QED
    BY <1>4, <1>5, <1>6, <1>7 DEF ConsumerStep

LEMMA ConsumerStepKeeps ==
  ASSUME Typed, ConsumersKept, NEW i \in Instances, ConsumerStep(i)
  PROVE  /\ ConsumersKept'
         /\ UNCHANGED <<sessionVars, deployment, publisherVars, localVars, repeats>>
  <1>1. ConsumersKept'
    BY DeliverKeeps, ClaimKeeps, HandleKeeps, CompleteKeeps, FailKeeps, EndOfErrandKeeps DEF ConsumerStep
  <1>2. UNCHANGED <<sessionVars, deployment, publisherVars, localVars, repeats>>
    BY DEF ConsumerStep, Deliver, ClaimEvent, Handle, Complete, Fail, PublishDeadLetter, Ack, StopConsumer
  <1> QED
    BY <1>1, <1>2

-----------------------------------------------------------------------------
(* The whole invariant                                                     *)

Deployed ==
  /\ deployment \in {"local", "service"} /\ RowsTyped
  /\ repeats \in [AllRows -> [outbox : Nat, inbox : Nat]]

DeliveryKept == Deployed /\ PublishersKept /\ ReadersKept /\ ConsumersKept

LEMMA KeptIsTyped == DeliveryKept => Typed
  BY DEF DeliveryKept, Deployed, PublishersKept, ReadersKept, ConsumersKept, Typed

LEMMA PublisherStepKeeps ==
  ASSUME DeliveryKept, NEW i \in Instances, PublisherStep(i) PROVE DeliveryKept'
  <1>1. Typed /\ PublishersKept /\ ReadersKept /\ ConsumersKept
    BY KeptIsTyped DEF DeliveryKept
  <1>2. UNCHANGED <<outbox, deployment, inbox, consumer, deadLetters, handlings>>
    BY DEF PublisherStep, ReadPending, PublishHead, MarkPublished, PublishFails, MarkFails, StopPublisher,
         sessionVars, consumerVars
  <1>3. ASSUME repeats' \in [AllRows -> [outbox : Nat, inbox : Nat]] PROVE Deployed'
    BY <1>2, <1>3 DEF DeliveryKept, Deployed, RowsTyped
  <1>4. CASE PublishHead(i)
    <2>1. UNCHANGED repeats
      BY <1>4 DEF PublishHead
    <2>2. Deployed'
      BY <1>3, <2>1 DEF DeliveryKept, Deployed
    <2> QED
      BY <1>1, <1>4, <2>2, PublishHeadKeeps DEF DeliveryKept
  <1>5. CASE PublishFails(i)
    <2>1. /\ PublishersKept' /\ ConsumersKept'
          /\ repeats' \in [AllRows -> [outbox : Nat, inbox : Nat]]
      BY <1>1, <1>5, PublishFailsKeeps
    <2>2. UNCHANGED <<journal, reader>>
      BY <1>5 DEF PublishFails, localVars
    <2>3. ReadersKept'
      BY <1>1, <1>2, <2>2, ReadersStay
    <2> QED
      BY <1>3, <2>1, <2>3 DEF DeliveryKept
  <1>6. CASE ReadPending(i) \/ MarkPublished(i) \/ MarkFails(i) \/ StopPublisher(i)
    <2>1. PublishersKept'
      BY <1>1, <1>6, ReadPendingKeeps, MarkPublishedKeeps, MarkFailsKeeps, StopPublisherKeeps
    <2>2. UNCHANGED <<stream, journal, reader, repeats>>
      BY <1>6 DEF ReadPending, MarkPublished, MarkFails, StopPublisher, localVars
    <2>3. Deployed'
      BY <1>3, <2>2 DEF DeliveryKept, Deployed
    <2>4. ReadersKept'
      BY <1>1, <1>2, <2>2, ReadersStay
    <2>5. ConsumersKept'
      BY <1>1, <1>2, <2>2, ConsumersStay
    <2> QED
      BY <2>1, <2>3, <2>4, <2>5 DEF DeliveryKept
  <1> QED
    BY <1>4, <1>5, <1>6 DEF PublisherStep

LEMMA LapsesKeep ==
  ASSUME DeliveryKept, NEW r \in AllRows, OutboxLeaseLapses(r) \/ InboxClaimLapses(r)
  PROVE  DeliveryKept'
  <1>1. Typed /\ PublishersKept /\ ReadersKept /\ ConsumersKept
    BY KeptIsTyped DEF DeliveryKept
  <1>2. UNCHANGED <<outbox, deployment, journal, reader, stream>>
    BY DEF OutboxLeaseLapses, InboxClaimLapses, sessionVars, localVars
  <1>3. ReadersKept'
    BY <1>1, <1>2, ReadersStay
  <1>4. CASE OutboxLeaseLapses(r)
    <2>1. /\ PublishersKept' /\ repeats' \in [AllRows -> [outbox : Nat, inbox : Nat]]
          /\ \A q \in AllRows : repeats'[q].inbox = repeats[q].inbox
      BY <1>1, <1>4, OutboxLeaseLapsesKeeps
    <2>2. UNCHANGED <<inbox, consumer, deadLetters, handlings>>
      BY <1>4 DEF OutboxLeaseLapses, consumerVars
    <2>3. ConsumersKept'
      BY <1>1, <1>2, <2>1, <2>2, ConsumersStay
    <2>4. Deployed'
      BY <1>2, <2>1 DEF DeliveryKept, Deployed, RowsTyped
    <2> QED
      BY <1>3, <2>1, <2>3, <2>4 DEF DeliveryKept
  <1>5. CASE InboxClaimLapses(r)
    <2>1. /\ ConsumersKept' /\ repeats' \in [AllRows -> [outbox : Nat, inbox : Nat]]
          /\ \A q \in AllRows : repeats'[q].outbox = repeats[q].outbox
      BY <1>1, <1>5, ClaimLapseKeeps
    <2>2. UNCHANGED <<published, batch, handed, lease>>
      BY <1>5 DEF InboxClaimLapses, publisherVars
    <2>3. SameEvents /\ DOMAIN stream' = DOMAIN stream
      BY <1>1, <1>2, StreamStays
    <2>4. PublishersKept'
      BY <1>1, <1>2, <2>1, <2>2, <2>3, PublishersStay
    <2>5. Deployed'
      BY <1>2, <2>1 DEF DeliveryKept, Deployed, RowsTyped
    <2> QED
      BY <1>3, <2>1, <2>4, <2>5 DEF DeliveryKept
  <1> QED
    BY <1>4, <1>5

LEMMA StreamStepKeeps ==
  ASSUME DeliveryKept,
         (\E i \in Instances : ConsumerStep(i)) \/ (\E m \in DOMAIN stream : AckWaitExpires(m))
  PROVE  DeliveryKept'
  <1>1. Typed /\ PublishersKept /\ ReadersKept /\ ConsumersKept
    BY KeptIsTyped DEF DeliveryKept
  <1>2. /\ ConsumersKept' /\ SameEvents /\ DOMAIN stream' = DOMAIN stream
        /\ UNCHANGED <<sessionVars, deployment, publisherVars, localVars, repeats>>
    <2>1. CASE \E i \in Instances : ConsumerStep(i)
      BY <1>1, <2>1, ConsumerStepKeeps, ConsumersKeepTheStream
    <2>2. CASE \E m \in DOMAIN stream : AckWaitExpires(m)
      <3>1. PICK m \in DOMAIN stream : AckWaitExpires(m)
        BY <2>2
      <3>2. /\ stream' = [stream EXCEPT ![m].state = "ready"]
            /\ UNCHANGED <<sessionVars, deployment, publisherVars, localVars, repeats>>
        BY <3>1 DEF AckWaitExpires
      <3>3. UNCHANGED outbox
        BY <3>2 DEF sessionVars
      <3>4. SameEvents /\ DOMAIN stream' = DOMAIN stream
        BY <1>1, <3>2, <3>3, StateMoves
      <3> QED
        BY <1>1, <3>1, <3>2, <3>4, AckWaitKeeps
    <2> QED
      BY <2>1, <2>2
  <1>3. UNCHANGED <<outbox, deployment, published, batch, handed, lease, journal, reader, repeats>>
    BY <1>2 DEF sessionVars, publisherVars, localVars
  <1>4. PublishersKept'
    BY <1>1, <1>2, <1>3, PublishersStay
  <1>5. ReadersKept'
    BY <1>1, <1>3, ReadersStay
  <1>6. Deployed'
    BY <1>3 DEF DeliveryKept, Deployed, RowsTyped
  <1> QED
    BY <1>2, <1>4, <1>5, <1>6 DEF DeliveryKept

LEMMA ReaderStepKeeps ==
  ASSUME DeliveryKept, ReadJournal \/ Reconnect PROVE DeliveryKept'
  <1>1. Typed /\ PublishersKept /\ ReadersKept /\ ConsumersKept
    BY KeptIsTyped DEF DeliveryKept
  <1>2. /\ UNCHANGED <<outbox, deployment, published, batch, handed, lease, journal, stream>>
        /\ UNCHANGED <<inbox, consumer, deadLetters, handlings, repeats>>
    BY DEF ReadJournal, Reconnect, sessionVars, publisherVars, consumerVars
  <1>3. ReadersKept'
    BY <1>1, ReadJournalKeeps, ReconnectKeeps
  <1>4. ConsumersKept'
    BY <1>1, <1>2, ConsumersStay
  <1>5. SameEvents /\ DOMAIN stream' = DOMAIN stream
    BY <1>1, <1>2, StreamStays
  <1>6. PublishersKept'
    BY <1>1, <1>2, <1>5, PublishersStay
  <1>7. Deployed'
    BY <1>2 DEF DeliveryKept, Deployed, RowsTyped
  <1> QED
    BY <1>3, <1>4, <1>6, <1>7 DEF DeliveryKept

\* The outbox only grows.
LEMMA OutboxGrows ==
  ASSUME SessionsInv, SessionsInv', SessionNext
  PROVE  Len(outbox) \in Nat /\ Len(outbox') \in Nat /\ Len(outbox) <= Len(outbox')
           /\ RowIds \subseteq RowIds'
  <1>1. /\ Len(outbox) \in Nat /\ Len(outbox') \in Nat
        /\ DOMAIN outbox = 1 .. Len(outbox) /\ DOMAIN outbox' = 1 .. Len(outbox')
    BY DEF SessionsInv
  <1> SUFFICES Len(outbox) <= Len(outbox')
    BY <1>1 DEF RowIds
  <1>2. ASSUME NEW rows \in Seq(OutboxRows), outbox' = outbox \o rows PROVE Len(outbox) <= Len(outbox')
    <2>1. Len(outbox') = Len(outbox) + Len(rows) /\ Len(rows) \in Nat
      BY <1>2 DEF SessionsInv
    <2> QED
      BY <1>1, <2>1
  <1>3. CASE UNCHANGED outbox
    BY <1>1, <1>3
  <1>4. CASE \E s \in Sessions : CreateSession(s)
    <2>1. PICK s \in Sessions : CreateSession(s)
      BY <1>4
    <2>2. Event(s, "created", NewSession) \in OutboxRows
      <3>1. NewSession.version = 0
        BY DEF NewSession, Absent
      <3> QED
        BY <3>1, RecordsWritten DEF Event, EventTypes
    <2>3. PICK rows \in Seq(OutboxRows) : rows = <<Event(s, "created", NewSession)>>
      BY <2>2, FewEvents
    <2> QED
      BY <1>2, <2>1, <2>3 DEF CreateSession, Create
  <1>5. CASE \E c \in Clients : Save(c)
    <2>1. PICK c \in Clients : Save(c)
      BY <1>5
    <2>2. caller[c] \in SaveCopies
      BY <2>1, SessionsInvFields DEF Save, Idle, ProviderCopies
    <2>3. PICK rows \in Seq(OutboxRows) : rows = caller[c].events
      BY <2>2 DEF SaveCopies
    <2> QED
      BY <1>2, <2>1, <2>3 DEF Save
  <1>6. \/ \E s \in Sessions : CreateSession(s)
        \/ \E c \in Clients : Save(c)
        \/ UNCHANGED outbox
    BY DEF SessionNext, AppendMessage, SelectProvider, ArchiveSession, RunProvider, Apply,
         SaveConflicts, ProviderAnswers, CommandEnds
  <1> QED
    BY <1>3, <1>4, <1>5, <1>6

LEMMA CommandKeeps ==
  ASSUME DeliveryKept, SessionsInv, SessionsInv', Command PROVE DeliveryKept'
  <1>1. Typed /\ PublishersKept /\ ReadersKept /\ ConsumersKept
    BY KeptIsTyped DEF DeliveryKept
  <1>2. /\ SessionNext /\ Len(outbox') <= MaxRows
        /\ UNCHANGED <<deployment, published, batch, handed, lease, journal, reader, stream>>
        /\ UNCHANGED <<inbox, consumer, deadLetters, handlings, repeats>>
    BY DEF Command, publisherVars, localVars, consumerVars
  <1>3. RowIds \subseteq RowIds'
    BY <1>2, OutboxGrows
  <1>4. PICK before : before = RowIds
    OBVIOUS
  <1>5. PICK after : after = RowIds'
    OBVIOUS
  <1>6. before \subseteq after
    BY <1>3, <1>4, <1>5
  <1>7. Deployed'
    BY <1>2 DEF DeliveryKept, Deployed, RowsTyped, SessionsInv, OutboxRows
  <1>8. PublishersKept'
    <2>1. PublishersTyped'
      <3>1. batch \in [Instances -> SUBSET before] /\ published \subseteq before
        BY <1>1, <1>4 DEF PublishersKept, PublishersTyped
      <3>2. batch \in [Instances -> SUBSET after] /\ published \subseteq after
        BY <1>6, <3>1
      <3> QED
        BY <1>1, <1>2, <1>5, <3>2 DEF PublishersKept, PublishersTyped, LeaseRows
    <2>2. PublishedIsKept' /\ HandedIsKept'
      BY <1>1, <1>2 DEF PublishersKept, PublishedIsKept, HandedIsKept, Sent
    <2>3. \A r : Senders(r)' = Senders(r) /\ Unsent(r)' = Unsent(r) /\ Copies(r)' = Copies(r)
      BY <1>2 DEF Senders, Unsent, Copies
    <2>4. SendsExcused'
      BY <1>1, <1>2, <2>3 DEF PublishersKept, SendsExcused
    <2> QED
      BY <2>1, <2>2, <2>4 DEF PublishersKept
  <1>9. ReadersKept'
    <2>1. PICK n \in Nat : n = Len(journal)
      BY <1>1, ReaderFacts DEF ReadersKept
    <2>2. /\ journal \in Seq(before)
          /\ reader \in [cursor : 0 .. n, acknowledged : 0 .. n, seen : SUBSET before]
      BY <1>1, <1>4, <2>1 DEF ReadersKept, ReadersTyped
    <2>3. journal \in Seq(after)
      BY <1>6, <2>2, SeqWidens
    <2>4. reader \in [cursor : 0 .. n, acknowledged : 0 .. n, seen : SUBSET after]
      BY <1>6, <2>2
    <2>5. ReadersTyped'
      BY <1>1, <1>2, <1>5, <2>1, <2>3, <2>4 DEF ReadersKept, ReadersTyped
    <2> QED
      BY <1>1, <1>2, <2>5 DEF ReadersKept, JournalledOnce, ReaderSaw
  <1>10. ConsumersKept'
    <2>1. PICK old : old = StreamRows
      OBVIOUS
    <2>2. PICK new : new = StreamRows'
      OBVIOUS
    <2>3. old \subseteq new
      BY <1>4, <1>5, <1>6, <2>1, <2>2 DEF StreamRows
    <2>4. stream \in Seq(old)
      BY <1>1, <2>1 DEF Typed, ConsumersTyped
    <2>5. stream \in Seq(new)
      BY <2>3, <2>4, SeqWidens
    <2>6. Seq(StreamRows)' = Seq(new)
      BY <2>2
    <2>7. SameEvents
      BY <1>2, <2>5, <2>6 DEF SameEvents
    <2> QED
      BY <1>1, <1>2, <1>3, <2>7, OthersKeepConsumers
  <1> QED
    BY <1>7, <1>8, <1>9, <1>10 DEF DeliveryKept

LEMMA DeliveryStepKeeps ==
  DeliveryKept /\ SessionsInv /\ SessionsInv' /\ [Next]_vars => DeliveryKept'
  <1> SUFFICES ASSUME DeliveryKept, SessionsInv, SessionsInv', [Next]_vars PROVE DeliveryKept'
    OBVIOUS
  <1>1. CASE UNCHANGED vars
    <2>1. /\ UNCHANGED <<outbox, deployment, published, batch, handed, lease, journal, reader, stream>>
          /\ UNCHANGED <<inbox, consumer, deadLetters, handlings, repeats>>
      BY <1>1 DEF vars, sessionVars, publisherVars, localVars, consumerVars
    <2>2. Typed /\ PublishersKept /\ ReadersKept /\ ConsumersKept
      BY KeptIsTyped DEF DeliveryKept
    <2>3. SameEvents /\ DOMAIN stream' = DOMAIN stream
      BY <2>1, <2>2, StreamStays
    <2>4. PublishersKept' /\ ReadersKept' /\ ConsumersKept'
      BY <2>1, <2>2, <2>3, PublishersStay, ReadersStay, ConsumersStay
    <2>5. Deployed'
      BY <2>1 DEF DeliveryKept, Deployed, RowsTyped
    <2> QED
      BY <2>4, <2>5 DEF DeliveryKept
  <1> QED
    BY <1>1, CommandKeeps, PublisherStepKeeps, LapsesKeep, ReaderStepKeeps, StreamStepKeeps DEF Next

LEMMA EmptyJournal ==
  ASSUME journal = <<>>, reader = [cursor |-> 0, acknowledged |-> 0, seen |-> {}] PROVE ReadersKept
  <1>1. Len(journal) = 0 /\ DOMAIN journal = {} /\ journal \in Seq(RowIds)
    OBVIOUS
  <1>2. reader.cursor = 0 /\ reader.acknowledged = 0
    OBVIOUS
  <1>3. reader \in [cursor : 0 .. 0, acknowledged : 0 .. 0, seen : SUBSET RowIds]
    OBVIOUS
  <1> QED
    BY <1>1, <1>2, <1>3 DEF ReadersKept, ReadersTyped, JournalledOnce, ReaderSaw

LEMMA NothingIsExcused ==
  ASSUME handlings = [r \in AllRows |-> 0], repeats = [r \in AllRows |-> [outbox |-> 0, inbox |-> 0]],
         \A e \in AllRows : Handlers(e) = {}
  PROVE  HandlingsExcused
  <1> SUFFICES ASSUME NEW e \in AllRows
               PROVE  handlings[e] + Cardinality(Handlers(e)) + Unclaimed(e) <= 1 + repeats[e].inbox
    BY DEF HandlingsExcused
  <1>1. handlings[e] = 0 /\ repeats[e].inbox = 0
    OBVIOUS
  <1>2. Cardinality(Handlers(e)) = 0
    BY FS_EmptySet
  <1>3. Unclaimed(e) \in {0, 1}
    BY DEF Unclaimed
  <1> QED
    BY <1>1, <1>2, <1>3

\* In service mode the first of two rows is already published and handled.
LEMMA DeliveryStarts == Init => DeliveryKept
  <1> SUFFICES ASSUME Init PROVE DeliveryKept
    OBVIOUS
  <1>1. /\ deployment \in {"local", "service"}
        /\ batch = [i \in Instances |-> {}] /\ handed = {}
        /\ lease = [r \in AllRows |-> Free]
        /\ journal = <<>> /\ reader = [cursor |-> 0, acknowledged |-> 0, seen |-> {}]
        /\ consumer = [i \in Instances |-> Resting] /\ deadLetters = {}
        /\ handlings = [r \in AllRows |-> 0]
        /\ repeats = [r \in AllRows |-> [outbox |-> 0, inbox |-> 0]]
    BY DeliveryAssumption DEF Init
  <1>2. SessionsInv
    BY SessionsStart
  <1>3. CASE deployment = "local"
    <2>1. /\ outbox = <<>> /\ published = {} /\ stream = <<>>
          /\ inbox = [r \in AllRows |-> Unseen]
      BY <1>3 DEF Init, SessionInit
    <2>2. Deployed
      <3>1. Len(outbox) = 0
        BY <2>1
      <3>2. outbox \in Seq(OutboxRows) /\ Len(outbox) <= MaxRows
        BY <1>2, <3>1, DeliveryAssumption DEF SessionsInv
      <3> QED
        BY <1>1, <3>2 DEF Deployed, RowsTyped
    <2>3. PublishersKept
      <3>1. PublishersTyped
        BY <1>1, <2>1 DEF PublishersTyped, LeaseRows, Free
      <3> QED
        BY <1>1, <1>3, <2>1, <3>1 DEF PublishersKept, PublishedIsKept, HandedIsKept, SendsExcused
    <2>4. ConsumersKept
      <3>1. ConsumersTyped
        BY <1>1, <2>1 DEF ConsumersTyped, InboxRows, Unseen, Errands, Resting
      <3>2. SettledAreKept
        BY <1>1, <2>1 DEF SettledAreKept, Resting
      <3>3. \A e \in AllRows : Handlers(e) = {}
        BY <1>1 DEF Handlers, Resting
      <3>4. HandlingsExcused
        BY <1>1, <3>3, NothingIsExcused
      <3> QED
        BY <3>1, <3>2, <3>4 DEF ConsumersKept
    <2>5. ReadersKept
      BY <1>1, EmptyJournal
    <2> QED
      BY <2>2, <2>3, <2>4, <2>5 DEF DeliveryKept
  <1>4. CASE deployment = "service"
    <2>1. /\ History /\ published = {1}
          /\ stream = <<[event |-> 1, deliveries |-> 1, state |-> "settled"]>>
          /\ inbox = [r \in AllRows |-> [Unseen EXCEPT !.consumed = (r = 1)]]
      BY <1>4 DEF Init, History
    <2>2. Len(outbox) = 2 /\ outbox \in Seq(OutboxRows)
      BY <1>2, <2>1 DEF History, SessionsInv
    <2>3. Deployed
      BY <1>1, <2>2, DeliveryAssumption DEF Deployed, RowsTyped
    <2>4. RowIds = 1 .. 2 /\ 1 \in RowIds /\ 1 \in AllRows
      BY <2>2, DeliveryAssumption DEF RowIds, AllRows
    <2>5. PICK message : message = [event |-> 1, deliveries |-> 1, state |-> "settled"]
      OBVIOUS
    <2>6. /\ message \in StreamRows /\ message.event = 1
          /\ stream \in Seq(StreamRows) /\ DOMAIN stream = {1} /\ stream[1] = message
      <3>1. 1 \in 0 .. MaxDeliveries
        BY DeliveryAssumption
      <3>2. message \in StreamRows /\ message.event = 1
        BY <2>4, <2>5, <3>1 DEF StreamRows
      <3>3. stream = <<message>>
        BY <2>1, <2>5
      <3> QED
        BY <3>2, <3>3
    <2>7. PublishersKept
      <3>1. PublishersTyped
        BY <1>1, <2>1, <2>4 DEF PublishersTyped, LeaseRows, Free
      <3>2. PublishedIsKept /\ HandedIsKept
        BY <1>1, <2>1, <2>6 DEF PublishedIsKept, HandedIsKept
      <3>3. ASSUME NEW r \in AllRows
            PROVE  Cardinality(Copies(r)) + Cardinality(Senders(r)) + Unsent(r) <= 1 + repeats[r].outbox
        <4>1. Senders(r) = {} /\ repeats[r].outbox = 0
          BY <1>1 DEF Senders
        <4>2. Cardinality(Senders(r)) = 0
          BY <4>1, FS_EmptySet
        <4>3. CASE r = 1
          <5>1. Copies(r) = {1} /\ Unsent(r) = 0
            BY <2>1, <2>6, <4>3 DEF Copies, Unsent
          <5>2. Cardinality(Copies(r)) = 1
            BY <5>1, FS_Singleton
          <5> QED
            BY <4>1, <4>2, <5>1, <5>2
        <4>4. CASE r # 1
          <5>1. Copies(r) = {}
            BY <2>6, <4>4 DEF Copies
          <5>2. Cardinality(Copies(r)) = 0 /\ Unsent(r) \in {0, 1}
            BY <5>1, FS_EmptySet DEF Unsent
          <5> QED
            BY <4>1, <4>2, <5>2
        <4> QED
          BY <4>3, <4>4
      <3>4. SendsExcused
        BY <1>4, <3>3 DEF SendsExcused
      <3> QED
        BY <3>1, <3>2, <3>4 DEF PublishersKept
    <2>8. ConsumersKept
      <3>1. ASSUME NEW r \in AllRows
            PROVE  inbox[r] \in InboxRows /\ (r = 1 => inbox[r].consumed)
        <4>1. PICK run : run = [Unseen EXCEPT !.consumed = (r = 1)]
          OBVIOUS
        <4>2. run = [by |-> Nobody, live |-> FALSE, attempts |-> 0, consumed |-> (r = 1)]
          BY <4>1 DEF Unseen
        <4>3. run \in InboxRows /\ (r = 1 => run.consumed)
          BY <4>2 DEF InboxRows
        <4> QED
          BY <2>1, <4>1, <4>3
      <3>2. inbox \in [AllRows -> InboxRows]
        BY <2>1, <3>1
      <3>3. ConsumersTyped
        BY <1>1, <2>6, <3>2 DEF ConsumersTyped, Errands, Resting
      <3>4. SettledAreKept
        BY <1>1, <2>4, <2>6, <3>1 DEF SettledAreKept, Resting, Kept
      <3>5. \A e \in AllRows : Handlers(e) = {}
        BY <1>1 DEF Handlers, Resting
      <3>6. HandlingsExcused
        BY <1>1, <3>5, NothingIsExcused
      <3> QED
        BY <3>3, <3>4, <3>6 DEF ConsumersKept
    <2>9. ReadersKept
      BY <1>1, EmptyJournal
    <2> QED
      BY <2>3, <2>7, <2>8, <2>9 DEF DeliveryKept
  <1> QED
    BY <1>1, <1>3, <1>4

THEOREM DeliveryStaysKept == Spec => []DeliveryKept
  <1>1. SessionsInv /\ DeliveryKept /\ [Next]_vars => SessionsInv' /\ DeliveryKept'
    BY OthersLeaveSessions, SessionStepKeeps, DeliveryStepKeeps
  <1>2. Init => SessionsInv /\ DeliveryKept
    BY SessionsStart, DeliveryStarts
  <1> QED
    BY <1>1, <1>2, PTL DEF Spec

\* The journal holds every published row once and a client that follows its
\* cursor has seen every event up to it, however publishers crash and repeat
\* and clients reconnect (run_outbox_publisher, list_after, EventBatch.next).
THEOREM JournalStaysComplete == Spec => []JournalIsComplete
  <1>1. SessionsInv /\ DeliveryKept => JournalIsComplete
    BY KeptIsTyped, TypedImplies, CursorMissesNothingHolds
    DEF DeliveryKept, PublishersKept, ReadersKept, JournalIsComplete
  <1> QED
    BY <1>1, SessionsStayInStep, DeliveryStaysKept, PTL

\* A row is published twice, and its handler succeeds twice, only if a lease
\* lapsed or an answer was lost in between, and no message is settled before
\* its event was handled or is a dead letter (claim_outbox, EventInbox).
THEOREM HandOversStayExcused == Spec => []HandOversAreExcused
  <1>1. SettledAreKept => SettledIsKept
    BY DEF SettledAreKept, SettledIsKept, Kept
  <1>2. DeliveryKept => HandOversAreExcused
    BY <1>1, KeptIsTyped, RepeatsAreExcusedHolds, HandledOnceHolds
    DEF DeliveryKept, PublishersKept, ConsumersKept, HandOversAreExcused
  <1> QED
    BY <1>2, DeliveryStaysKept, PTL
=============================================================================
