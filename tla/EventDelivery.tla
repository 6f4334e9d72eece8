--------------------------- MODULE EventDelivery ---------------------------
(***************************************************************************)
(* What becomes of the rows of the outbox.  In local mode one publisher    *)
(* journals them and clients read the journal by cursor.  In service mode  *)
(* several instances lease rows of the PostgreSQL outbox, publish them to  *)
(* JetStream, and consume the stream with the PostgreSQL inbox in between. *)
(* Delivery is at least once: a publisher or consumer may stop between any *)
(* two steps, leases lapse, messages come again.                           *)
(***************************************************************************)
EXTENDS Sessions

CONSTANTS
  Deployments,    \* the deployments examined: "local", "service" or both
  Instances,      \* the instances of service mode; one of them is the daemon
  BatchLimit,     \* pending_outbox(limit), claim_outbox(limit)
  ReadLimit,      \* list_after(limit)
  MaxDeliveries,  \* DurableConsumerConfig.max_deliveries
  MaxRows,        \* bound: rows of the outbox
  MaxFaults       \* bound, by deployment: errors, crashes, leases that lapse under work

ASSUME DeliveryAssumption ==
  /\ Sessions # {} /\ Deployments \subseteq {"local", "service"}
  /\ IsFiniteSet(Instances) /\ Instances # {} /\ "nobody" \notin Instances
  /\ {BatchLimit, ReadLimit, MaxDeliveries} \subseteq Nat \ {0}
  /\ MaxRows \in Nat /\ MaxRows > 1

VARIABLES
  deployment,
  published,      \* the outbox rows with published_at
  batch,          \* the rows each publisher has yet to publish, oldest first
  handed,         \* publishers that published the oldest of their batch
  lease,          \* claimed_by and claimed_until of the outbox rows
  journal,        \* client_event_journal in the order of sequence: outbox rows
  reader,         \* a client: its cursor, the one it acknowledged, what it saw
  stream,         \* the messages of the JetStream stream
  inbox,          \* the rows of sessionweft_inbox
  consumer,       \* what each instance's durable_consumer is doing
  deadLetters,    \* the events on the dead-letter subject
  handlings,      \* how often the handler succeeded for an event
  repeats,        \* excuses: lapsed leases and lost answers, by row and table
  faults

publisherVars == <<published, batch, handed, lease>>
localVars == <<journal, reader>>
consumerVars == <<inbox, consumer, deadLetters, handlings>>
vars == <<sessionVars, deployment, publisherVars, localVars, stream, consumerVars, repeats, faults>>

AllRows == 1 .. MaxRows
RowIds == DOMAIN outbox
Daemon == CHOOSE i \in Instances : TRUE
Publishers == IF deployment = "local" THEN {Daemon} ELSE Instances
Nobody == "nobody"
Free == [by |-> Nobody, live |-> FALSE]

Fault == faults < MaxFaults[deployment] /\ faults' = faults + 1
Least(m, n) == IF m < n THEN m ELSE n

-----------------------------------------------------------------------------
(* The publisher, run_outbox_publisher: SqliteSessionRepository with the   *)
(* journal as transport, or PostgresServiceDatabase with JetStream.        *)

(* The rows a scan returns; claim_outbox skips those leased to somebody.   *)
Pending == {r \in RowIds : r \notin published /\ ~lease[r].live}
OldestPending == {r \in Pending : Cardinality({p \in Pending : p < r}) < BatchLimit}

ReadPending(i) ==
  /\ i \in Publishers
  /\ batch[i] = {} /\ Pending # {}
  /\ batch' = [batch EXCEPT ![i] = OldestPending]
  /\ lease' = [r \in AllRows |-> IF deployment = "service" /\ r \in OldestPending
                                 THEN [by |-> i, live |-> TRUE] ELSE lease[r]]
  /\ UNCHANGED <<sessionVars, deployment, published, handed, localVars, stream, consumerVars, repeats, faults>>

(* INSERT ... ON CONFLICT (event_id) keeps the row and its sequence.       *)
JournalWith(r) == IF r \in Range(journal) THEN journal ELSE Append(journal, r)

Message(r) == [event |-> r, deliveries |-> 0, state |-> "ready"]

Delivered(r) ==
  IF deployment = "local"
  THEN journal' = JournalWith(r) /\ UNCHANGED stream
  ELSE stream' = Append(stream, Message(r)) /\ UNCHANGED journal

PublishHead(i) ==
  /\ batch[i] # {} /\ i \notin handed
  /\ Delivered(Min(batch[i]))
  /\ handed' = handed \cup {i}
  /\ UNCHANGED <<sessionVars, deployment, published, batch, lease, reader, consumerVars, repeats, faults>>

(* The rows of the batch are marked only while the lease is the marker's.  *)
Owns(i, r) == deployment = "local" \/ lease[r].by = i

HeadDone(i) ==
  /\ batch' = [batch EXCEPT ![i] = @ \ {Min(@)}]
  /\ handed' = handed \ {i}

(* The lease ends with a mark of its owner; of anybody else the mark       *)
(* affects no row, which is no error.                                      *)
Released(i, r) == IF Owns(i, r) THEN [lease EXCEPT ![r] = Free] ELSE lease

(* mark_outbox_published.                                                  *)
MarkPublished(i) ==
  /\ batch[i] # {} /\ i \in handed
  /\ LET r == Min(batch[i]) IN
     /\ published' = IF Owns(i, r) THEN published \cup {r} ELSE published
     /\ lease' = Released(i, r)
  /\ HeadDone(i)
  /\ UNCHANGED <<sessionVars, deployment, localVars, stream, consumerVars, repeats, faults>>

(* Fault: a failed row is marked as a published one is.                    *)
PublishFailsAndMarks(i) ==
  /\ batch[i] # {} /\ i \notin handed
  /\ Fault
  /\ published' = published \cup {Min(batch[i])}
  /\ HeadDone(i)
  /\ UNCHANGED <<sessionVars, deployment, lease, localVars, stream, repeats, consumerVars>>

(* The transport answers with an error, perhaps after JetStream stored the *)
(* message.  mark_outbox_failed gives the row back; the batch goes on.     *)
PublishFails(i) ==
  /\ batch[i] # {} /\ i \notin handed
  /\ Fault
  /\ LET r == Min(batch[i]) IN
     /\ \/ UNCHANGED <<stream, repeats>>
        \/ /\ deployment = "service"
           /\ stream' = Append(stream, Message(r))
           /\ repeats' = [repeats EXCEPT ![r].outbox = @ + 1]
     /\ lease' = Released(i, r)
  /\ HeadDone(i)
  /\ UNCHANGED <<sessionVars, deployment, published, localVars, consumerVars>>

(* "published event could not be marked; duplicate delivery is possible"   *)
MarkFails(i) ==
  /\ batch[i] # {} /\ i \in handed
  /\ Fault
  /\ HeadDone(i)
  /\ UNCHANGED <<sessionVars, deployment, published, lease, localVars, stream, consumerVars, repeats>>

StopPublisher(i) ==
  /\ batch[i] # {}
  /\ Fault
  /\ batch' = [batch EXCEPT ![i] = {}]
  /\ handed' = handed \ {i}
  /\ UNCHANGED <<sessionVars, deployment, published, lease, localVars, stream, consumerVars, repeats>>

(* claimed_until passes.  It is a fault only while the owner still works.  *)
OutboxLeaseLapses(r) ==
  /\ lease[r].live
  /\ IF r \in batch[lease[r].by] THEN Fault ELSE UNCHANGED faults
  /\ lease' = [lease EXCEPT ![r].live = FALSE]
  /\ repeats' = [repeats EXCEPT ![r].outbox = @ + 1]
  /\ UNCHANGED <<sessionVars, deployment, published, batch, handed, localVars, stream, consumerVars>>

PublisherStep(i) ==
  \/ ReadPending(i)
  \/ PublishHead(i)
  \/ MarkPublished(i)
  \/ PublishFails(i)
  \/ MarkFails(i)
  \/ StopPublisher(i)

-----------------------------------------------------------------------------
(* A client of the journal: GET /v1/events or its stream.                  *)

Records(after) ==
  SubSeq(journal, after + 1, Least(Len(journal), after + ReadLimit))

(* Fault: the client goes on from latest.                                  *)
LatestCursor(records) == Len(journal)

(* EventBatch.next is the cursor of the last record; latest is read in a   *)
(* second statement.                                                       *)
NextCursor(records) == reader.cursor + Len(records)

ReadJournal ==
  /\ reader.cursor < Len(journal)
  /\ LET records == Records(reader.cursor) IN
     reader' = [cursor |-> NextCursor(records), acknowledged |-> reader.cursor,
                seen |-> reader.seen \cup Range(records)]
  /\ UNCHANGED <<sessionVars, deployment, publisherVars, journal, stream, consumerVars, repeats, faults>>

(* A client that comes back knows the cursor it last asked with.           *)
Reconnect ==
  /\ reader.acknowledged # reader.cursor
  /\ Fault
  /\ reader' = [reader EXCEPT !.cursor = reader.acknowledged]
  /\ UNCHANGED <<sessionVars, deployment, publisherVars, journal, stream, consumerVars, repeats>>

-----------------------------------------------------------------------------
(* The stream and its durable consumers, durable_consumer with             *)
(* PostgresEventInbox.                                                     *)

Resting == [at |-> "rest", msg |-> 0]
Unseen == [by |-> Nobody, live |-> FALSE, attempts |-> 0, consumed |-> FALSE]

Current(i) == stream[consumer[i].msg].event
Goto(i, place) == consumer' = [consumer EXCEPT ![i].at = place]
Rest(i) == consumer' = [consumer EXCEPT ![i] = Resting]
WithState(i, state) == stream' = [stream EXCEPT ![consumer[i].msg].state = state]

Held(message) == [message EXCEPT !.state = "held", !.deliveries = @ + 1]

(* JetStream delivers a message up to max_deliver times, and again when it *)
(* was not acknowledged in time.                                           *)
Deliver(i) ==
  /\ consumer[i] = Resting
  /\ \E m \in DOMAIN stream :
       /\ stream[m].state = "ready" /\ stream[m].deliveries < MaxDeliveries
       /\ stream' = [stream EXCEPT ![m] = Held(@)]
       /\ consumer' = [consumer EXCEPT ![i] = [at |-> "claim", msg |-> m]]
  /\ UNCHANGED <<sessionVars, deployment, publisherVars, localVars, inbox, deadLetters, handlings, repeats, faults>>

Working(m) == \E i \in Instances : consumer[i].msg = m

AckWaitExpires(m) ==
  /\ stream[m].state = "held"
  /\ IF Working(m) THEN Fault ELSE UNCHANGED faults
  /\ stream' = [stream EXCEPT ![m].state = "ready"]
  /\ UNCHANGED <<sessionVars, deployment, publisherVars, localVars, consumerVars, repeats>>

(* What claim, complete and fail write to a row of the inbox.              *)
Claimed(row, i) == [row EXCEPT !.by = i, !.live = TRUE]
Consumed(row) == [row EXCEPT !.consumed = TRUE, !.by = Nobody, !.live = FALSE]
Failed(row) == [row EXCEPT !.attempts = @ + 1, !.by = Nobody, !.live = FALSE]

(* Fault: the processing time of another claim is not looked at.           *)
ClaimableAnyTime(e) == ~inbox[e].consumed

(* EventInbox::claim: a row is taken when it is new, or not consumed and   *)
(* its processing time is over or was given up.                            *)
Claimable(e) == ~inbox[e].consumed /\ ~inbox[e].live

ClaimEvent(i) ==
  /\ consumer[i].at = "claim"
  /\ LET e == Current(i) IN
     \/ /\ Claimable(e)
        /\ inbox' = [inbox EXCEPT ![e] = Claimed(@, i)]
        /\ Goto(i, "handle") /\ UNCHANGED stream
     \/ /\ inbox[e].consumed
        /\ Goto(i, "ack") /\ UNCHANGED <<inbox, stream>>
     \/ /\ ~Claimable(e) /\ ~inbox[e].consumed
        /\ Rest(i) /\ WithState(i, "ready") /\ UNCHANGED inbox
  /\ UNCHANGED <<sessionVars, deployment, publisherVars, localVars, deadLetters, handlings, repeats, faults>>

Handle(i) ==
  /\ consumer[i].at = "handle"
  /\ \/ /\ Goto(i, "complete")
        /\ handlings' = [handlings EXCEPT ![Current(i)] = @ + 1]
     \/ /\ Goto(i, "fail")
        /\ UNCHANGED handlings
  /\ UNCHANGED <<sessionVars, deployment, publisherVars, localVars, stream, inbox, deadLetters, repeats, faults>>

(* EventInbox::complete; a claim that was lost ends the consumer.          *)
Complete(i) ==
  /\ consumer[i].at = "complete"
  /\ LET e == Current(i) IN
     \/ /\ inbox[e].by = i
        /\ inbox' = [inbox EXCEPT ![e] = Consumed(@)]
        /\ Goto(i, "ack")
     \/ /\ inbox[e].by # i
        /\ Rest(i) /\ UNCHANGED inbox
  /\ UNCHANGED <<sessionVars, deployment, publisherVars, localVars, stream, deadLetters, handlings, repeats, faults>>

(* EventInbox::fail, then a dead letter or a delayed NAK.                  *)
Fail(i) ==
  /\ consumer[i].at = "fail"
  /\ LET e == Current(i) IN
     \/ /\ inbox[e].by = i
        /\ inbox' = [inbox EXCEPT ![e] = Failed(@)]
        /\ IF inbox[e].attempts + 1 >= MaxDeliveries
           THEN Goto(i, "bury") /\ UNCHANGED stream
           ELSE Rest(i) /\ WithState(i, "ready")
     \/ /\ inbox[e].by # i
        /\ Rest(i) /\ UNCHANGED <<inbox, stream>>
  /\ UNCHANGED <<sessionVars, deployment, publisherVars, localVars, deadLetters, handlings, repeats, faults>>

PublishDeadLetter(i) ==
  /\ consumer[i].at = "bury"
  /\ deadLetters' = deadLetters \cup {Current(i)}
  /\ Goto(i, "ack")
  /\ UNCHANGED <<sessionVars, deployment, publisherVars, localVars, stream, inbox, handlings, repeats, faults>>

Ack(i) ==
  /\ consumer[i].at = "ack"
  /\ WithState(i, "settled")
  /\ Rest(i)
  /\ UNCHANGED <<sessionVars, deployment, publisherVars, localVars, inbox, deadLetters, handlings, repeats, faults>>

(* An instance crashes, or an error of the inbox or of JetStream ends its  *)
(* consumer; it is started again.                                          *)
StopConsumer(i) ==
  /\ consumer[i] # Resting
  /\ Fault
  /\ Rest(i)
  /\ UNCHANGED <<sessionVars, deployment, publisherVars, localVars, stream, inbox, deadLetters, handlings, repeats>>

(* processing_until passes.                                                *)
InboxClaimLapses(e) ==
  /\ inbox[e].live
  /\ IF \E i \in Instances : inbox[e].by = i /\ consumer[i] # Resting /\ Current(i) = e
     THEN Fault ELSE UNCHANGED faults
  /\ inbox' = [inbox EXCEPT ![e].live = FALSE]
  /\ repeats' = [repeats EXCEPT ![e].inbox = @ + 1]
  /\ UNCHANGED <<sessionVars, deployment, publisherVars, localVars, stream, consumer, deadLetters, handlings>>

ConsumerStep(i) ==
  \/ Deliver(i)
  \/ ClaimEvent(i)
  \/ Handle(i)
  \/ Complete(i)
  \/ Fail(i)
  \/ PublishDeadLetter(i)
  \/ Ack(i)
  \/ StopConsumer(i)

-----------------------------------------------------------------------------
(* In local mode the clients start from nothing.  In service mode they are *)
(* done with one session, whose last event waits in the outbox.            *)
History ==
  LET s == CHOOSE s \in Sessions : TRUE
      row == Archived(NewSession) IN
  /\ sessions = [x \in Sessions |-> IF x = s THEN row ELSE Absent]
  /\ outbox = <<Event(s, "created", NewSession), Event(s, "archived", row)>>
  /\ caller = [c \in Clients |-> Idle]
  /\ published = {1}
  /\ stream = <<[event |-> 1, deliveries |-> 1, state |-> "settled"]>>
  /\ inbox = [r \in AllRows |-> [Unseen EXCEPT !.consumed = (r = 1)]]

Init ==
  /\ deployment \in Deployments
  /\ \/ /\ deployment = "local" /\ SessionInit
        /\ published = {} /\ stream = <<>>
        /\ inbox = [r \in AllRows |-> Unseen]
     \/ deployment = "service" /\ History
  /\ batch = [i \in Instances |-> {}]
  /\ handed = {}
  /\ lease = [r \in AllRows |-> Free]
  /\ journal = <<>>
  /\ reader = [cursor |-> 0, acknowledged |-> 0, seen |-> {}]
  /\ consumer = [i \in Instances |-> Resting]
  /\ deadLetters = {}
  /\ handlings = [r \in AllRows |-> 0]
  /\ repeats = [r \in AllRows |-> [outbox |-> 0, inbox |-> 0]]
  /\ faults = 0

Command ==
  /\ SessionNext
  /\ Len(outbox') <= MaxRows
  /\ UNCHANGED <<deployment, publisherVars, localVars, stream, consumerVars, repeats, faults>>

Next ==
  \/ Command
  \/ \E i \in Instances : PublisherStep(i)
  \/ \E r \in AllRows : OutboxLeaseLapses(r)
  \/ ReadJournal
  \/ Reconnect
  \/ \E i \in Instances : ConsumerStep(i)
  \/ \E m \in DOMAIN stream : AckWaitExpires(m)
  \/ \E e \in AllRows : InboxClaimLapses(e)

Spec == Init /\ [][Next]_vars

(* The loops of publisher and consumer go on, clients poll, time passes.   *)
FairSpec ==
  /\ Spec
  /\ \A i \in Instances : WF_vars(PublisherStep(i))
  /\ \A i \in Instances : WF_vars(ConsumerStep(i))
  /\ WF_vars(\E r \in AllRows : OutboxLeaseLapses(r))
  /\ WF_vars(\E e \in AllRows : InboxClaimLapses(e))
  /\ WF_vars(\E m \in DOMAIN stream : AckWaitExpires(m))
  /\ WF_vars(ReadJournal)

-----------------------------------------------------------------------------
TypeOK ==
  /\ deployment \in {"local", "service"}
  /\ sessions \in [Sessions -> Rows]
  /\ \A r \in RowIds : outbox[r] \in [session : Sessions, type : EventTypes, version : Nat]
  /\ published \subseteq RowIds
  /\ batch \in [Instances -> SUBSET RowIds]
  /\ handed \subseteq {i \in Instances : batch[i] # {}}
  /\ lease \in [AllRows -> [by : Instances \cup {Nobody}, live : BOOLEAN]]
  /\ journal \in Seq(RowIds)
  /\ reader \in [cursor : 0..Len(journal), acknowledged : 0..Len(journal), seen : SUBSET RowIds]
  /\ stream \in Seq([event : RowIds, deliveries : 0..MaxDeliveries, state : {"ready", "held", "settled"}])
  /\ inbox \in [AllRows -> [by : Instances \cup {Nobody}, live : BOOLEAN, attempts : Nat, consumed : BOOLEAN]]
  /\ deadLetters \subseteq RowIds

(* However often a row is published, the journal holds it once, so a       *)
(* cursor names one event for ever (the unique event_id of the journal).   *)
JournalledOnce == \A m, n \in DOMAIN journal : journal[m] = journal[n] => m = n

(* A client that follows EventBatch.next has received every event up to    *)
(* its cursor, also after reconnecting with an older one, and whatever was *)
(* journalled between the two statements of list_after.                    *)
CursorMissesNothing == Range(SubSeq(journal, 1, reader.cursor)) \subseteq reader.seen

(* A row counts as published only when it is in the journal or the stream. *)
PublishedIsKept ==
  published \subseteq Range(journal) \cup {stream[m].event : m \in DOMAIN stream}

(* Publishers send a row twice only if a lease lapsed or an answer was     *)
(* lost in between (claim_outbox, mark_outbox_published).                  *)
RepeatsAreExcused ==
  \A r \in AllRows :
    Cardinality({m \in DOMAIN stream : stream[m].event = r}) <= 1 + repeats[r].outbox

(* A message is acknowledged only when its event was handled and recorded, *)
(* or put on the dead-letter subject (durable_consumer).                   *)
SettledIsKept ==
  \A m \in DOMAIN stream :
    stream[m].state = "settled" => inbox[stream[m].event].consumed \/ stream[m].event \in deadLetters

(* The handler succeeds twice for an event only if the processing time of  *)
(* a claim on it ran out: duplicates of the message, crashes and other     *)
(* consumers do not repeat it (EventInbox).                                *)
HandledOnce == \A e \in AllRows : handlings[e] <= 1 + repeats[e].inbox

(* The journal and its readers have every published event once.            *)
JournalIsComplete ==
  TypeOK /\ JournalledOnce /\ CursorMissesNothing /\ PublishedIsKept

(* Each hand-over, from outbox to stream and from stream to handler,       *)
(* happens once unless a lease lapsed, and none is skipped.                *)
HandOversAreExcused == RepeatsAreExcused /\ SettledIsKept /\ HandledOnce

(* Every event that was committed reaches the client of the journal; in    *)
(* service mode a consumer settles it, or JetStream has used up the        *)
(* deliveries of a message of it.  Again and again nothing is outstanding. *)
Reached(r) ==
  IF deployment = "local" THEN r \in reader.seen
  ELSE \E m \in DOMAIN stream :
         /\ stream[m].event = r
         /\ stream[m].state = "settled" \/ stream[m].deliveries = MaxDeliveries

EventsReachReaders == []<>(\A r \in RowIds : Reached(r))

(* "Poison events move to the configured dead-letter subject after the     *)
(* maximum delivery count": an event nobody is going to see again was      *)
(* consumed, or is a dead letter.                                          *)
PoisonIsDeadLettered ==
  \A m \in DOMAIN stream :
    stream[m].state = "ready" /\ stream[m].deliveries = MaxDeliveries =>
      \/ inbox[stream[m].event].consumed
      \/ stream[m].event \in deadLetters
      \/ Working(m)
=============================================================================
