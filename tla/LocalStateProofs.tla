-------------------------- MODULE LocalStateProofs -------------------------
(***************************************************************************)
(* Proofs about what one machine keeps for its agents: the leases in       *)
(* SQLite, the records of the agents, and the files of the launchers of    *)
(* Codex and Claude.  They share no state.                                 *)
(***************************************************************************)
EXTENDS LockLease, AgentRecords, NativeSessions, SequenceTheorems, TLAPS

\* Overlap and conflict do not care who came first.
LEMMA ConflictSymmetric ==
    \A x, y : ConflictsWith(x, y) => ConflictsWith(y, x)
  BY DEF ConflictsWith, Overlaps, ModesConflict

\* Conflict looks at resources and modes only.
LEMMA ConflictCongruent ==
    ASSUME NEW x, NEW y, NEW z, ConflictsWith(x, y),
           x.resource = z.resource, x.mode = z.mode
    PROVE  ConflictsWith(z, y)
  BY DEF ConflictsWith

\* Two prefixes of one path lie on it, so one is a prefix of the other; and a
\* resource below r is below whatever covers r.
LEMMA OverlapOfCovered ==
    ASSUME NEW c \in Seq(STRING), NEW r \in Seq(STRING), NEW s \in Seq(STRING),
           IsPrefixOf(c, r), Overlaps(s, r)
    PROVE  Overlaps(c, s)
  <1>1. CASE IsPrefixOf(s, r)
    <2>1. \A i : i \in 1 .. Len(c) /\ i \in 1 .. Len(s) => c[i] = s[i]
      BY <1>1 DEF IsPrefixOf
    <2>2. CASE Len(c) <= Len(s)
      BY <2>1, <2>2 DEF Overlaps, IsPrefixOf
    <2>3. CASE Len(s) <= Len(c)
      BY <2>1, <2>3 DEF Overlaps, IsPrefixOf
    <2>. QED BY <2>2, <2>3
  <1>2. CASE IsPrefixOf(r, s)
    BY <1>2 DEF Overlaps, IsPrefixOf
  <1>. QED BY <1>1, <1>2 DEF Overlaps

-----------------------------------------------------------------------------
(* The inductive invariant *)

\* lock_sequence counts the tokens issued; a token is granted once, and every
\* row stems from a grant and is the only one with its token.
TokensIssued ==
    /\ \A g \in granted : g.token <= sequence
    /\ \A g, h \in granted : g.token = h.token => g = h
    /\ \A l \in leases : \E g \in granted : g.token = l.token
    /\ \A l, k \in leases : l.token = k.token => l = k

IInv == /\ TypeOK
        /\ TokensIssued
        /\ TokensIdentifyLeases
        /\ NoConflictingLeases
        /\ OvertakenIsFenced

\* An empty table and no grants.
LEMMA InitIInv == Init => IInv
  BY DEF Init, IInv, TypeOK, TokensIssued, TokensIdentifyLeases,
         NoConflictingLeases, OvertakenIsFenced

\* acquire_lock adds a lease under a new token that conflicts with no row left.
LEMMA AcquireKeepsIInv ==
    ASSUME IInv, NEW q \in Requests, NEW ttl \in 1 .. MaxTtl, NEW t \in Readings,
           AcquireLock(q, ttl, t)
    PROVE  IInv'
  <1> DEFINE k == sequence + 1
             new == [owner |-> q.owner, resource |-> q.resource, mode |-> q.mode,
                     token |-> k, expires |-> t + ttl]
             grant == [owner |-> q.owner, resource |-> q.resource, mode |-> q.mode,
                       token |-> k]
  <1>1. /\ leases' = Unexpired(t) \cup {new} /\ granted' = granted \cup {grant}
        /\ sequence' = k /\ now' = now /\ freed' = now
        /\ \A l \in Unexpired(t) : ~ConflictsWith(l, q)
    BY DEF AcquireLock, Insert, NewGrant, LeaseOf
  <1>2. Unexpired(t) \subseteq leases
    BY DEF Unexpired
  <1>3. k \in Nat \ {0} /\ t + ttl \in Nat /\ now \in Nat
    BY LeaseAssumption DEF IInv, TypeOK, Readings
  <1>4. new \in Leases /\ grant \in Grants
    BY <1>3 DEF Leases, Grants, Requests
  <1>5. TypeOK'
    BY <1>1, <1>2, <1>3, <1>4 DEF IInv, TypeOK
  <1>6. /\ \A g \in granted : g.token <= sequence /\ g.token # k /\ g.token <= k
        /\ \A l \in leases : l.token # k
    <2>1. \A g \in granted : g.token \in Nat /\ sequence \in Nat /\ g.token <= sequence
      BY DEF IInv, TypeOK, TokensIssued, Grants
    <2>2. \A g \in granted : g.token <= sequence /\ g.token # k /\ g.token <= k
      BY <2>1
    <2>. QED BY <2>2 DEF IInv, TokensIssued
  <1>7. /\ new.token = k /\ new.resource = q.resource /\ new.mode = q.mode
        /\ new.owner = q.owner /\ grant.owner = q.owner
        /\ grant.token = k /\ grant.resource = q.resource /\ grant.mode = q.mode
    OBVIOUS
  <1> HIDE DEF new, grant
  <1>8. TokensIssued'
    <2>1. \A g \in granted' : g.token <= sequence'
      BY <1>1, <1>3, <1>6, <1>7
    <2> HIDE DEF k
    <2>2. /\ \A g, h \in granted' : g.token = h.token => g = h
          /\ \A l \in leases' : \E g \in granted' : g.token = l.token
          /\ \A l, m \in leases' : l.token = m.token => l = m
      BY <1>1, <1>2, <1>6, <1>7 DEF IInv, TokensIssued
    <2>. QED BY <2>1, <2>2 DEF TokensIssued
  <1> HIDE DEF k
  <1>9. TokensIdentifyLeases'
    BY <1>1, <1>2, <1>6, <1>7 DEF IInv, TokensIdentifyLeases
  <1>10. NoConflictingLeases'
    <2>1. \A l \in Unexpired(t) : ~ConflictsWith(l, new) /\ ~ConflictsWith(new, l)
      BY <1>1, <1>7, ConflictSymmetric, ConflictCongruent
    <2>. QED BY <2>1, <1>1, <1>2 DEF IInv, NoConflictingLeases
  <1>11. OvertakenIsFenced'
    <2> SUFFICES ASSUME NEW g \in granted', NEW h \in granted', NEW l \in leases',
                        g.token < h.token, ConflictsWith(g, h), l.token = g.token
                 PROVE  FALSE
      BY DEF OvertakenIsFenced
    <2>1. CASE g = grant
      <3>1. h # grant /\ h \in granted
        BY <2>1, <1>1, <1>3, <1>7
      <3>. QED BY <2>1, <3>1, <1>3, <1>6, <1>7 DEF IInv, TypeOK, Grants
    <2>2. CASE g # grant /\ h # grant
      BY <2>2, <1>1, <1>2, <1>6, <1>7 DEF IInv, OvertakenIsFenced
    <2>3. CASE g # grant /\ h = grant
      <3>1. l \in Unexpired(t) /\ g \in granted
        BY <2>3, <1>1, <1>6, <1>7
      <3>2. l.resource = g.resource /\ l.mode = g.mode
        BY <3>1, <1>2 DEF IInv, TokensIdentifyLeases
      <3>3. ConflictsWith(l, h)
        BY <3>2, ConflictCongruent
      <3>4. ConflictsWith(l, q)
        BY <3>3, <2>3, <1>7 DEF ConflictsWith
      <3>. QED BY <3>1, <3>4, <1>1
    <2>. QED BY <2>1, <2>2, <2>3
  <1>. QED BY <1>5, <1>8, <1>9, <1>10, <1>11 DEF IInv

\* heartbeat_lock changes nothing but the expiry of one row.
LEMMA HeartbeatKeepsIInv ==
    ASSUME IInv, NEW g \in granted, NEW ttl \in 1 .. MaxTtl, NEW t \in Readings,
           HeartbeatLock(g, ttl, t)
    PROVE  IInv'
  <1>1. PICK l \in Unexpired(t) :
            /\ leases' = (leases \ {l}) \cup {[l EXCEPT !.expires = t + ttl]}
            /\ freed' = now
            /\ UNCHANGED <<sequence, now, granted>>
    BY DEF HeartbeatLock
  <1> DEFINE new == [l EXCEPT !.expires = t + ttl]
  <1>2. l \in leases /\ l \in Leases
    BY DEF Unexpired, IInv, TypeOK
  <1>3. t + ttl \in Nat
    BY LeaseAssumption DEF IInv, TypeOK, Readings
  <1>4. /\ new \in Leases
        /\ new.owner = l.owner /\ new.resource = l.resource
        /\ new.mode = l.mode /\ new.token = l.token
    BY <1>2, <1>3 DEF Leases
  <1> HIDE DEF new
  <1>5. leases' = (leases \ {l}) \cup {new}
    BY <1>1 DEF new
  <1>6. TypeOK'
    BY <1>1, <1>4, <1>5 DEF IInv, TypeOK
  <1>7. TokensIssued' /\ TokensIdentifyLeases' /\ OvertakenIsFenced'
    BY <1>1, <1>2, <1>4, <1>5
       DEF IInv, TokensIssued, TokensIdentifyLeases, OvertakenIsFenced
  <1>8. NoConflictingLeases'
    <2> SUFFICES ASSUME NEW x \in leases', NEW y \in leases', x.token # y.token
                 PROVE  ~ConflictsWith(x, y)
      BY DEF NoConflictingLeases
    <2>1. CASE x = new
      BY <2>1, <1>2, <1>4, <1>5, ConflictCongruent DEF IInv, NoConflictingLeases
    <2>2. CASE y = new
      BY <2>2, <1>2, <1>4, <1>5, ConflictCongruent, ConflictSymmetric
         DEF IInv, NoConflictingLeases
    <2>3. CASE x # new /\ y # new
      BY <2>3, <1>5 DEF IInv, NoConflictingLeases
    <2>. QED BY <2>1, <2>2, <2>3
  <1>. QED BY <1>6, <1>7, <1>8 DEF IInv

\* Every step, and stuttering, keeps the invariant.
LEMMA NextIInv == IInv /\ [Next]_vars => IInv'
  <1> SUFFICES ASSUME IInv, [Next]_vars PROVE IInv'
    OBVIOUS
  <1> USE DEF TokensIssued, TokensIdentifyLeases, NoConflictingLeases, OvertakenIsFenced
  <1>1. CASE UNCHANGED vars
    BY <1>1 DEF vars, IInv, TypeOK
  <1>2. CASE Tick
    BY <1>2 DEF Tick, IInv, TypeOK
  <1>3. CASE \E g \in granted : ReleaseLock(g)
    BY <1>3 DEF ReleaseLock, IInv, TypeOK
  <1>4. CASE Next /\ ~Tick /\ ~\E g \in granted : ReleaseLock(g)
    BY <1>4, AcquireKeepsIInv, HeartbeatKeepsIInv DEF Next
  <1>. QED BY <1>1, <1>2, <1>3, <1>4

\* IInv is an invariant.
THEOREM Inductive == Spec => []IInv
  BY InitIInv, NextIInv, PTL DEF Spec

-----------------------------------------------------------------------------
(* The properties, one by one *)

\* Rows, grants and clocks stay in their types.
THEOREM TypeCorrect == Spec => []TypeOK
  BY Inductive, PTL DEF IInv

\* No two leases in the table conflict, over the whole resource hierarchy.
THEOREM MutualExclusion == Spec => []NoConflictingLeases
  BY Inductive, PTL DEF IInv

\* A token overtaken by a conflicting grant never returns to the table, so no
\* heartbeat, release or validation of it succeeds again.
THEOREM OvertakenStaysFenced == Spec => []OvertakenIsFenced
  BY Inductive, PTL DEF IInv

\* Rows keep the owner, resource and mode their token was granted with.
THEOREM TokensIdentify == Spec => []TokensIdentifyLeases
  BY Inductive, PTL DEF IInv

\* Validating the token of an exclusive lease for a resource the lease covers
\* leaves no other token that validates for it.
THEOREM CoveredFenceExclusive == Spec => []CoveringFenceIsExclusive
  <1>1. IInv => CoveringFenceIsExclusive
    <2> SUFFICES ASSUME IInv, NEW l \in Unexpired(now), NEW r \in Resources,
                        l.mode = "exclusive", IsPrefixOf(l.resource, r),
                        NEW k \in leases, k.token # l.token,
                        ValidFence(r, k.owner, k.token, now)
                 PROVE  FALSE
      BY DEF CoveringFenceIsExclusive
    <2>1. PICK m \in Unexpired(now) : m.token = k.token /\ Overlaps(m.resource, r)
      BY DEF ValidFence
    <2>2. l \in leases /\ m \in leases
      BY DEF Unexpired
    <2>3. /\ l.resource \in Seq(STRING) /\ m.resource \in Seq(STRING)
          /\ r \in Seq(STRING)
      BY <2>2, LeaseAssumption DEF IInv, TypeOK, Leases
    <2>4. Overlaps(l.resource, m.resource)
      BY <2>1, <2>3, OverlapOfCovered
    <2>5. ConflictsWith(l, m)
      BY <2>4 DEF ConflictsWith, ModesConflict
    <2>. QED BY <2>1, <2>2, <2>5 DEF IInv, NoConflictingLeases
  <1>. QED BY <1>1, Inductive, PTL

\* Leases exclude each other, and overtaken tokens are worth nothing.
THEOREM ExclusiveThroughout == Spec => []LeasesAreExclusive
  BY Inductive, CoveredFenceExclusive, PTL DEF IInv, LeasesAreExclusive

\* The clean-up in acquire_lock reads a clock that is at most now: a row that is
\* live now is live to it.
LEMMA StepHonoursLive ==
    ASSUME IInv, Next
    PROVE  HonoursLive
  <1> SUFFICES ASSUME NEW l \in leases, Live(l, now),
                      \A k \in leases' : k.token # l.token
               PROVE  \E g \in granted : g.token = l.token /\ ReleaseLock(g)
    BY DEF HonoursLive
  <1>1. l \notin leases'
    OBVIOUS
  <1>2. CASE Tick
    BY <1>1, <1>2 DEF Tick
  <1>3. ASSUME NEW q \in Requests, NEW ttl \in 1 .. MaxTtl, NEW t \in Readings,
               AcquireLock(q, ttl, t)
        PROVE  FALSE
    <2>1. t \in Nat /\ t <= now /\ now \in Nat /\ l.expires \in Nat
      BY DEF IInv, TypeOK, Readings, Leases
    <2>2. l \in Unexpired(t)
      BY <2>1 DEF Unexpired, Live
    <2>. QED BY <1>1, <1>3, <2>2 DEF AcquireLock, Insert
  <1>4. ASSUME NEW g \in granted, NEW ttl \in 1 .. MaxTtl, NEW t \in Readings,
               HeartbeatLock(g, ttl, t)
        PROVE  FALSE
    <2>1. PICK m \in Unexpired(t) :
              leases' = (leases \ {m}) \cup {[m EXCEPT !.expires = t + ttl]}
      BY <1>4 DEF HeartbeatLock
    <2>2. m \in Leases
      BY DEF Unexpired, IInv, TypeOK
    <2>3. [m EXCEPT !.expires = t + ttl].token = m.token
      BY <2>2 DEF Leases
    <2>. QED BY <1>1, <2>1, <2>3
  <1>5. ASSUME NEW g \in granted, ReleaseLock(g)
        PROVE  g.token = l.token
    BY <1>1, <1>5 DEF ReleaseLock
  <1>. QED BY <1>2, <1>3, <1>4, <1>5 DEF Next

\* Until it expires by the clock, a lease ends only by its holder's release.
THEOREM LeasesAreHonoured == Spec => LiveLeasesAreHonoured
  <1>1. IInv /\ [Next]_vars => [HonoursLive]_vars
    BY StepHonoursLive
  <1>. QED BY <1>1, Inductive, PTL DEF Spec, LiveLeasesAreHonoured

-----------------------------------------------------------------------------
(* Agent records                                                           *)

Rows == [version : Nat, status : AgentStatuses \cup {NobodyYet},
         task : TaskIds \cup {NoWork}, heartbeat : Nat]
EventTypes == {"registered", "started", "heartbeat", "stopped", "assigned", "released", "failed"}
EventRecords == [op : EventTypes, task : TaskIds \cup {NoWork}, time : Nat,
                 by : ApiCallers \cup {NobodyYet}]
HeldRecords == [at : {NobodyYet, "knows", "holds"}, id : AgentIds \cup {NobodyYet},
                expected : Nat, copy : Rows, op : EventTypes \cup {NobodyYet}]

\* What an event does to the row it finds, and what it asks of it.
Tells(old, event, new) ==
  \/ /\ event.op = "started" /\ old.status \in {"registered", "stopped"}
     /\ old.heartbeat <= event.time /\ new = StartedAgent(old, event.time)
  \/ /\ event.op = "heartbeat" /\ old.status = "running"
     /\ old.heartbeat <= event.time /\ new = Beaten(old, event.time)
  \/ /\ event.op = "stopped" /\ old.status = "running" /\ old.task = NoWork
     /\ new = StoppedAgent(old)
  \/ /\ event.op = "assigned" /\ old.status = "running" /\ old.task = NoWork
     /\ event.task \in TaskIds /\ new = Assigned(old, event.task)
  \/ /\ event.op = "released" /\ old.status = "running" /\ old.task # NoWork
     /\ new = Released(old)
  \/ /\ event.op = "failed" /\ old.status = "running" /\ old.task # NoWork
     /\ event.time > old.heartbeat + Timeout /\ new = FailedAgent(old)

\* An agent and its events.
Logged(row, log) ==
  IF log = <<>> THEN row = Unregistered
  ELSE /\ row.status # NobodyYet
       /\ Follows(row, log)
       /\ log[1].op = "registered"
       /\ \A i \in DOMAIN log :
            log[i].op \in {"registered", "started", "heartbeat"} => log[i].time <= row.heartbeat
       /\ \A i, j \in DOMAIN log :
            i < j /\ log[i].op \in {"started", "heartbeat"} /\ log[j].op = "failed"
              => log[j].time > log[i].time + Timeout

\* A caller's copy is fresh as long as nobody saved after its read.
HeldIsFresh(c) ==
  held[c].at # NobodyYet =>
    /\ held[c].id \in AgentIds /\ InScope(c, held[c].id)
    /\ data[held[c].id].status # NobodyYet
    /\ held[c].expected <= data[held[c].id].version
    /\ held[c].at = "holds" =>
         /\ held[c].copy.heartbeat <= seconds
         /\ held[c].op \in {"started", "heartbeat", "stopped"}
         /\ held[c].expected = data[held[c].id].version =>
              Tells(data[held[c].id], AgentEvent(held[c].op, NoWork, held[c].copy.heartbeat, c),
                    held[c].copy)

SaveIsLogged(save) ==
  /\ save[1] \in ApiCallers /\ save[2] \in AgentIds /\ save[3] \in Nat
  /\ InScope(save[1], save[2])
  /\ save[3] + 1 \in DOMAIN agentEvents[save[2]]
  /\ agentEvents[save[2]][save[3] + 1].op = save[4]
  /\ agentEvents[save[2]][save[3] + 1].by = save[1]

RecordsInv ==
  /\ seconds \in Nat
  /\ data \in [AgentIds -> Rows] /\ \A a \in AgentIds : data[a].heartbeat <= seconds
  /\ columns \in [AgentIds -> [version : Nat, status : AgentStatuses \cup {NobodyYet},
                               task : TaskIds \cup {NoWork}]]
  /\ agentEvents \in [AgentIds -> Seq(EventRecords)]
  /\ held \in [ApiCallers -> HeldRecords]
  /\ ColumnsFollowData
  /\ \A a \in AgentIds : Logged(data[a], agentEvents[a])
  /\ \A c \in ApiCallers : HeldIsFresh(c)
  /\ \A save \in acknowledged : SaveIsLogged(save)

\* The fields of the row after an event.
LEMMA EventEffects ==
  ASSUME NEW row \in Rows, NEW event \in EventRecords, NEW new, Tells(row, event, new)
  PROVE  /\ new \in Rows
         /\ new.version = row.version + 1
         /\ row.status # NobodyYet /\ new.status \in AgentStatuses
         /\ new.status = IF event.op = "started" THEN "running"
                         ELSE IF event.op \in {"stopped", "failed"} THEN event.op ELSE row.status
         /\ new.heartbeat = IF event.op \in {"started", "heartbeat"} THEN event.time ELSE row.heartbeat
         /\ new.task = IF event.op = "assigned" THEN event.task
                       ELSE IF event.op \in {"released", "failed"} THEN NoWork ELSE row.task
         /\ row.heartbeat <= new.heartbeat
         /\ event.op # "registered"
         /\ event.op = "failed" => event.time > row.heartbeat + Timeout
  <1>1. CASE event.op = "started" /\ new = StartedAgent(row, event.time)
             /\ row.status \in {"registered", "stopped"} /\ row.heartbeat <= event.time
    <2>1. new = [version |-> row.version + 1, status |-> "running", task |-> row.task, heartbeat |-> event.time]
      BY <1>1 DEF Rows, Advanced, StartedAgent
    <2> QED
      BY <1>1, <2>1 DEF Rows, EventRecords, AgentStatuses, NobodyYet
  <1>2. CASE event.op = "heartbeat" /\ new = Beaten(row, event.time)
             /\ row.status = "running" /\ row.heartbeat <= event.time
    <2>1. new = [version |-> row.version + 1, status |-> row.status, task |-> row.task, heartbeat |-> event.time]
      BY <1>2 DEF Rows, Advanced, Beaten
    <2> QED
      BY <1>2, <2>1 DEF Rows, EventRecords, AgentStatuses, NobodyYet
  <1>3. CASE event.op = "stopped" /\ new = StoppedAgent(row)
             /\ row.status = "running"
    <2>1. new = [version |-> row.version + 1, status |-> "stopped", task |-> row.task, heartbeat |-> row.heartbeat]
      BY <1>3 DEF Rows, Advanced, StoppedAgent
    <2> QED
      BY <1>3, <2>1 DEF Rows, EventRecords, AgentStatuses, NobodyYet
  <1>4. CASE event.op = "assigned" /\ new = Assigned(row, event.task)
             /\ row.status = "running" /\ event.task \in TaskIds
    <2>1. new = [version |-> row.version + 1, status |-> row.status, task |-> event.task, heartbeat |-> row.heartbeat]
      BY <1>4 DEF Rows, Advanced, Assigned
    <2> QED
      BY <1>4, <2>1 DEF Rows, EventRecords, AgentStatuses, NobodyYet
  <1>5. CASE event.op = "released" /\ new = Released(row)
             /\ row.status = "running"
    <2>1. new = [version |-> row.version + 1, status |-> row.status, task |-> NoWork, heartbeat |-> row.heartbeat]
      BY <1>5 DEF Rows, Advanced, Released
    <2> QED
      BY <1>5, <2>1 DEF Rows, EventRecords, AgentStatuses, NobodyYet
  <1>6. CASE event.op = "failed" /\ new = FailedAgent(row)
             /\ row.status = "running" /\ event.time > row.heartbeat + Timeout
    <2>1. new = [version |-> row.version + 1, status |-> "failed", task |-> NoWork, heartbeat |-> row.heartbeat]
      BY <1>6 DEF Rows, Advanced, FailedAgent
    <2> QED
      BY <1>6, <2>1 DEF Rows, EventRecords, AgentStatuses, NobodyYet
  <1> QED
    BY <1>1, <1>2, <1>3, <1>4, <1>5, <1>6 DEF Tells

\* What an event does to a row is what the row's events then say.
LEMMA RowFollowsItsEvents ==
  ASSUME NEW row \in Rows, NEW log \in Seq(EventRecords), NEW event \in EventRecords, NEW new,
         log # <<>>, Logged(row, log), Tells(row, event, new)
  PROVE  Logged(new, Append(log, event))
  <1> DEFINE longer == Append(log, event)
  <1>t. Timeout \in Nat
    BY AgentsAssumption
  <1>1. /\ Len(log) \in Nat \ {0} /\ DOMAIN log = 1 .. Len(log)
        /\ DOMAIN longer = 1 .. Len(log) + 1 /\ Len(longer) = Len(log) + 1
        /\ \A i \in 1 .. Len(log) : longer[i] = log[i] /\ log[i] \in EventRecords
        /\ longer[Len(log) + 1] = event /\ longer # <<>>
    <2>1. Len(log) \in Nat \ {0} /\ DOMAIN log = 1 .. Len(log)
      BY EmptySeq
    <2> QED
      BY <2>1, AppendProperties
  <1>2. /\ new \in Rows /\ new.version = row.version + 1
        /\ row.status # NobodyYet /\ new.status \in AgentStatuses
        /\ new.status = IF event.op = "started" THEN "running"
                        ELSE IF event.op \in {"stopped", "failed"} THEN event.op ELSE row.status
        /\ new.heartbeat = IF event.op \in {"started", "heartbeat"} THEN event.time ELSE row.heartbeat
        /\ new.task = IF event.op = "assigned" THEN event.task
                      ELSE IF event.op \in {"released", "failed"} THEN NoWork ELSE row.task
        /\ row.heartbeat <= new.heartbeat
        /\ event.op # "registered"
        /\ event.op = "failed" => event.time > row.heartbeat + Timeout
    BY EventEffects
  <1>3. row.status # NobodyYet /\ Follows(row, log)
    BY <1>1 DEF Logged
  <1>4. Follows(new, longer)
    <2>1. new.version = Len(longer) - 1
      BY <1>1, <1>2, <1>3 DEF Follows, Rows
    <2>2. ASSUME NEW types, NEW i \in LastOf(longer, types)
          PROVE  \/ i = Len(log) + 1 /\ event.op \in types
                 \/ i \in LastOf(log, types) /\ event.op \notin types /\ longer[i] = log[i]
      <3>1. /\ i \in 1 .. Len(log) + 1 /\ longer[i].op \in types
            /\ \A j \in 1 .. Len(log) + 1 : i < j => longer[j].op \notin types
        BY <1>1 DEF LastOf
      <3>2. CASE i = Len(log) + 1
        BY <1>1, <3>1, <3>2
      <3>3. CASE i \in 1 .. Len(log)
        <4>1. longer[i] = log[i] /\ \A j \in 1 .. Len(log) : longer[j] = log[j]
          BY <1>1, <3>3
        <4>2. log[i].op \in types /\ \A j \in 1 .. Len(log) : i < j => log[j].op \notin types
          BY <1>1, <3>1, <4>1
        <4>3. event.op \notin types
          BY <1>1, <3>1, <3>3
        <4> QED
          BY <1>1, <3>3, <4>1, <4>2, <4>3 DEF LastOf
      <3> QED
        BY <1>1, <3>1, <3>2, <3>3
    <2> HIDE DEF longer
    <2>3. \A i \in LastOf(longer, DOMAIN StatusTold) : new.status = StatusTold[longer[i].op]
      <3> SUFFICES ASSUME NEW i \in LastOf(longer, DOMAIN StatusTold) PROVE new.status = StatusTold[longer[i].op]
        OBVIOUS
      <3>1. CASE event.op \in DOMAIN StatusTold
        BY <2>2, <3>1, <1>1, <1>2 DEF StatusTold
      <3>2. CASE event.op \notin DOMAIN StatusTold
        <4>1. i \in LastOf(log, DOMAIN StatusTold) /\ longer[i] = log[i]
          BY <2>2, <3>2
        <4> QED
          BY <3>2, <4>1, <1>2, <1>3 DEF StatusTold, Follows
      <3> QED
        BY <3>1, <3>2
    <2>4. \A i \in LastOf(longer, {"registered", "started", "heartbeat"}) : new.heartbeat = longer[i].time
      <3> SUFFICES ASSUME NEW i \in LastOf(longer, {"registered", "started", "heartbeat"}) PROVE new.heartbeat = longer[i].time
        OBVIOUS
      <3>1. CASE event.op \in {"registered", "started", "heartbeat"}
        BY <2>2, <3>1, <1>1, <1>2
      <3>2. CASE event.op \notin {"registered", "started", "heartbeat"}
        <4>1. i \in LastOf(log, {"registered", "started", "heartbeat"}) /\ longer[i] = log[i]
          BY <2>2, <3>2
        <4> QED
          BY <3>2, <4>1, <1>2, <1>3 DEF Follows
      <3> QED
        BY <3>1, <3>2
    <2>5. \A i \in LastOf(longer, {"registered", "assigned", "released", "failed"}) : new.task = IF longer[i].op = "assigned" THEN longer[i].task ELSE NoWork
      <3> SUFFICES ASSUME NEW i \in LastOf(longer, {"registered", "assigned", "released", "failed"}) PROVE new.task = IF longer[i].op = "assigned" THEN longer[i].task ELSE NoWork
        OBVIOUS
      <3>1. CASE event.op \in {"registered", "assigned", "released", "failed"}
        BY <2>2, <3>1, <1>1, <1>2
      <3>2. CASE event.op \notin {"registered", "assigned", "released", "failed"}
        <4>1. i \in LastOf(log, {"registered", "assigned", "released", "failed"}) /\ longer[i] = log[i]
          BY <2>2, <3>2
        <4> QED
          BY <3>2, <4>1, <1>2, <1>3 DEF Follows
      <3> QED
        BY <3>1, <3>2
    <2> QED
      BY <2>1, <2>3, <2>4, <2>5 DEF Follows
  <1>5. event.op \in {"started", "heartbeat"} => event.time = new.heartbeat
    BY <1>2
  <1>6. \A i \in DOMAIN longer :
          longer[i].op \in {"registered", "started", "heartbeat"} => longer[i].time <= new.heartbeat
    <2>1. \A i \in 1 .. Len(log) :
            log[i].op \in {"registered", "started", "heartbeat"} => log[i].time <= row.heartbeat
      BY <1>1 DEF Logged
    <2>2. row.heartbeat \in Nat /\ new.heartbeat \in Nat /\ \A i \in 1 .. Len(log) : log[i].time \in Nat
      BY <1>1, <1>2 DEF Rows, EventRecords
    <2> QED
      BY <1>1, <1>2, <1>5, <2>1, <2>2
  <1>7. \A i, j \in DOMAIN longer :
          i < j /\ longer[i].op \in {"started", "heartbeat"} /\ longer[j].op = "failed"
            => longer[j].time > longer[i].time + Timeout
    <2>1. \A i, j \in 1 .. Len(log) :
            i < j /\ log[i].op \in {"started", "heartbeat"} /\ log[j].op = "failed"
              => log[j].time > log[i].time + Timeout
      BY <1>1 DEF Logged
    <2>2. \A i \in 1 .. Len(log) :
            log[i].op \in {"started", "heartbeat"} => log[i].time <= row.heartbeat
      BY <1>1 DEF Logged
    <2>3. /\ row.heartbeat \in Nat /\ event.time \in Nat
          /\ \A i \in 1 .. Len(log) : log[i].time \in Nat
      BY <1>1 DEF Rows, EventRecords
    <2> QED
      BY <1>1, <1>2, <1>5, <1>t, <2>1, <2>2, <2>3
  <1>8. longer[1].op = "registered"
    BY <1>1 DEF Logged
  <1> QED
    BY <1>1, <1>2, <1>4, <1>6, <1>7, <1>8 DEF Logged, AgentStatuses, NobodyYet

\* What a save changes: the agent's row, columns and events, and nothing else.
Saved(a, row, event) ==
  /\ data' = [data EXCEPT ![a] = row]
  /\ columns' = [columns EXCEPT ![a] = Columns(a, row)]
  /\ agentEvents' = [agentEvents EXCEPT ![a] = Append(agentEvents[a], event)]

\* A save that does what its event tells keeps the tables in agreement, and
\* makes every copy of the agent that was read before stale.
LEMMA SaveKeepsTables ==
  ASSUME RecordsInv, NEW a \in AgentIds, NEW row, NEW event \in EventRecords,
         Tells(data[a], event, row), row.heartbeat <= seconds, Saved(a, row, event)
  PROVE  /\ data' \in [AgentIds -> Rows] /\ \A b \in AgentIds : data'[b].heartbeat <= seconds
         /\ columns' \in [AgentIds -> [version : Nat, status : AgentStatuses \cup {NobodyYet},
                                       task : TaskIds \cup {NoWork}]]
         /\ agentEvents' \in [AgentIds -> Seq(EventRecords)]
         /\ ColumnsFollowData'
         /\ \A b \in AgentIds : Logged(data'[b], agentEvents'[b])
         /\ \A save : SaveIsLogged(save) => SaveIsLogged(save)'
         /\ data'[a] = row /\ row \in Rows /\ row.version = data[a].version + 1
         /\ row.status # NobodyYet
         /\ \A b \in AgentIds \ {a} : data'[b] = data[b]
         /\ Len(agentEvents'[a]) = row.version + 1
         /\ agentEvents'[a][row.version + 1] = event
  <1>1. /\ data \in [AgentIds -> Rows] /\ agentEvents \in [AgentIds -> Seq(EventRecords)]
        /\ columns \in [AgentIds -> [version : Nat, status : AgentStatuses \cup {NobodyYet},
                                     task : TaskIds \cup {NoWork}]]
        /\ data[a] \in Rows /\ agentEvents[a] \in Seq(EventRecords)
        /\ Logged(data[a], agentEvents[a])
    BY DEF RecordsInv
  <1>2. /\ row \in Rows /\ row.version = data[a].version + 1
        /\ row.status \in AgentStatuses /\ data[a].status # NobodyYet
    BY EventEffects, <1>1
  <1>3. agentEvents[a] # <<>>
    BY <1>1, <1>2 DEF Logged, Unregistered
  <1>4. Logged(row, Append(agentEvents[a], event))
    BY RowFollowsItsEvents, <1>1, <1>3
  <1>5. data' \in [AgentIds -> Rows] /\ data'[a] = row /\ \A b \in AgentIds \ {a} : data'[b] = data[b]
    BY <1>1, <1>2 DEF Saved
  <1>6. /\ agentEvents' \in [AgentIds -> Seq(EventRecords)]
        /\ agentEvents'[a] = Append(agentEvents[a], event)
        /\ \A b \in AgentIds \ {a} : agentEvents'[b] = agentEvents[b]
    <2>1. Append(agentEvents[a], event) \in Seq(EventRecords)
      BY <1>1, AppendProperties
    <2> QED
      BY <1>1, <2>1 DEF Saved
  <1>7. Columns(a, row) \in [version : Nat, status : AgentStatuses \cup {NobodyYet},
                             task : TaskIds \cup {NoWork}]
    BY <1>2 DEF Columns, SqliteColumns, PostgresColumns, Rows
  <1>8. /\ columns' \in [AgentIds -> [version : Nat, status : AgentStatuses \cup {NobodyYet},
                                      task : TaskIds \cup {NoWork}]]
        /\ columns'[a] = Columns(a, row)
        /\ \A b \in AgentIds \ {a} : columns'[b] = columns[b]
    BY <1>1, <1>7 DEF Saved
  <1>9. ColumnsFollowData'
    <2> SUFFICES ASSUME NEW b \in AgentIds PROVE columns'[b] = Columns(b, data'[b])
      BY DEF ColumnsFollowData, Columns, SqliteColumns, PostgresColumns
    <2>1. columns[b] = Columns(b, data[b])
      BY DEF RecordsInv, ColumnsFollowData
    <2> QED
      BY <1>5, <1>8, <2>1
  <1>10. \A b \in AgentIds : Logged(data'[b], agentEvents'[b])
    BY <1>4, <1>5, <1>6 DEF RecordsInv
  <1>11. \A b \in AgentIds : data'[b].heartbeat <= seconds
    BY <1>5 DEF RecordsInv
  <1>12. /\ Len(agentEvents[a]) = data[a].version + 1
         /\ Len(agentEvents'[a]) = row.version + 1 /\ agentEvents'[a][row.version + 1] = event
    <2>1. data[a].version = Len(agentEvents[a]) - 1 /\ Len(agentEvents[a]) \in Nat /\ data[a].version \in Nat
      BY <1>1, <1>3 DEF Logged, Follows, Rows
    <2> QED
      BY <1>1, <1>2, <1>6, <2>1, AppendProperties
  <1>13. \A save : SaveIsLogged(save) => SaveIsLogged(save)'
    <2> SUFFICES ASSUME NEW save, SaveIsLogged(save) PROVE SaveIsLogged(save)'
      OBVIOUS
    <2>1. save[2] \in AgentIds /\ save[3] + 1 \in DOMAIN agentEvents[save[2]] /\ save[3] \in Nat
      BY DEF SaveIsLogged
    <2>2. CASE save[2] = a
      <3>1. /\ save[3] + 1 \in DOMAIN agentEvents'[a]
            /\ agentEvents'[a][save[3] + 1] = agentEvents[a][save[3] + 1]
        BY <1>1, <1>6, <2>1, <2>2, AppendProperties
      <3> QED
        BY <2>2, <3>1 DEF SaveIsLogged, InScope
    <2>3. CASE save[2] # a
      BY <1>6, <2>1, <2>3 DEF SaveIsLogged, InScope
    <2> QED
      BY <2>2, <2>3
  <1> QED
    BY <1>2, <1>5, <1>6, <1>8, <1>9, <1>10, <1>11, <1>12, <1>13 DEF AgentStatuses, NobodyYet

\* A copy that was fresh stays so, or is stale for good.
LEMMA OthersStayFresh ==
  ASSUME RecordsInv, NEW a \in AgentIds, data' \in [AgentIds -> Rows],
         data'[a].version = data[a].version + 1, data'[a].status # NobodyYet,
         \A b \in AgentIds \ {a} : data'[b] = data[b], seconds' = seconds,
         NEW c \in ApiCallers, held'[c] = held[c]
  PROVE  HeldIsFresh(c)'
  <1>1. HeldIsFresh(c) /\ held[c] \in HeldRecords /\ data \in [AgentIds -> Rows]
    BY DEF RecordsInv
  <1>2. CASE held[c].id = a
    <2>1. data[a].version \in Nat /\ held[c].expected \in Nat
      BY <1>1 DEF Rows, HeldRecords
    <2>2. held[c].at # NobodyYet => /\ held[c].expected <= data'[a].version
                                   /\ held[c].expected # data'[a].version
      BY <1>1, <1>2, <2>1 DEF HeldIsFresh
    <2> QED
      BY <1>1, <1>2, <2>2 DEF HeldIsFresh, InScope
  <1>3. CASE held[c].id # a
    BY <1>1, <1>3 DEF HeldIsFresh, InScope, AgentEvent, Tells
  <1> QED
    BY <1>2, <1>3

\* What a caller gets that applies an operation to the row as it is.
MutatedCopy(c, op, copy) ==
  LET row == data[held[c].id] IN
  /\ held[c].at = "knows" /\ row.version = held[c].expected
  /\ op \in {"started", "heartbeat", "stopped"}
  /\ copy \in Rows /\ copy.heartbeat <= seconds
  /\ Tells(row, AgentEvent(op, NoWork, copy.heartbeat, c), copy)
  /\ held' = [held EXCEPT ![c].at = "holds", ![c].copy = copy, ![c].op = op]
  /\ UNCHANGED <<data, columns, agentEvents, acknowledged, seconds>>

LEMMA MutationKeeps ==
  ASSUME RecordsInv, NEW c \in ApiCallers, NEW op, NEW copy, MutatedCopy(c, op, copy)
  PROVE  RecordsInv'
  <1>1. held \in [ApiCallers -> HeldRecords] /\ held[c] \in HeldRecords /\ HeldIsFresh(c)
    BY DEF RecordsInv
  <1>2. held' = [held EXCEPT ![c] = [held[c] EXCEPT !.at = "holds", !.copy = copy, !.op = op]]
    BY Zenon, <1>1 DEF MutatedCopy, HeldRecords
  <1>3. op \in {"started", "heartbeat", "stopped"} /\ copy \in Rows /\ held[c].at = "knows"
    BY DEF MutatedCopy
  <1>4. PICK h : h = [held[c] EXCEPT !.at = "holds", !.copy = copy, !.op = op]
    OBVIOUS
  <1>5. h \in HeldRecords /\ h.at = "holds" /\ h.copy = copy /\ h.op = op
        /\ h.id = held[c].id /\ h.expected = held[c].expected
    <2>1. h = [at |-> "holds", id |-> held[c].id, expected |-> held[c].expected,
               copy |-> copy, op |-> op]
      BY <1>1, <1>4 DEF HeldRecords
    <2> QED
      BY <1>1, <1>3, <2>1 DEF HeldRecords, EventTypes
  <1>6. held' \in [ApiCallers -> HeldRecords] /\ held'[c] = h
        /\ \A d \in ApiCallers \ {c} : held'[d] = held[d]
    BY <1>1, <1>2, <1>4, <1>5
  <1>7. HeldIsFresh(c)'
    BY <1>1, <1>3, <1>5, <1>6 DEF HeldIsFresh, MutatedCopy, InScope, NobodyYet
  <1>8. \A d \in ApiCallers \ {c} : HeldIsFresh(d)'
    BY <1>6 DEF HeldIsFresh, RecordsInv, MutatedCopy, InScope
  <1> QED
    BY <1>6, <1>7, <1>8 DEF RecordsInv, MutatedCopy, ColumnsFollowData, SaveIsLogged

\* A transaction of the scheduler that does what its event tells.
LEMMA SchedulerSaveKeeps ==
  ASSUME RecordsInv, NEW a \in AgentIds, NEW row, NEW event \in EventRecords,
         Tells(data[a], event, row), row.heartbeat <= seconds, Saved(a, row, event),
         UNCHANGED <<held, acknowledged, seconds>>
  PROVE  RecordsInv'
  <1>1. \A c \in ApiCallers : HeldIsFresh(c)'
    BY SaveKeepsTables, OthersStayFresh
  <1> QED
    BY <1>1, SaveKeepsTables DEF RecordsInv

\* The save of a caller's copy, which is fresh if the version still is.
LEMMA SaveCopyKeeps ==
  ASSUME RecordsInv, NEW c \in ApiCallers, SaveCopy(c)
  PROVE  RecordsInv'
  <1> DEFINE a == held[c].id
             copy == held[c].copy
             event == AgentEvent(held[c].op, NoWork, copy.heartbeat, c)
  <1>1. /\ held \in [ApiCallers -> HeldRecords] /\ held[c] \in HeldRecords /\ HeldIsFresh(c)
        /\ held[c].at = "holds" /\ UNCHANGED seconds
        /\ data \in [AgentIds -> Rows] /\ ColumnsFollowData
    BY DEF RecordsInv, SaveCopy
  <1>2. a \in AgentIds /\ InScope(c, a) /\ copy \in Rows /\ copy.heartbeat <= seconds
        /\ held[c].op \in {"started", "heartbeat", "stopped"}
    BY <1>1 DEF HeldIsFresh, HeldRecords, NobodyYet
  <1>3. columns[a].version = held[c].expected /\ Saved(a, copy, event)
    BY <1>1, <1>2 DEF SaveCopy, Stored, SqliteSave, PostgresSave, Saved, InsertEvents, Columns
  <1>4. held[c].expected = data[a].version
    <2>1. columns[a] = Columns(a, data[a])
      BY <1>1, <1>2 DEF ColumnsFollowData
    <2>2. Columns(a, data[a]).version = data[a].version
      BY DEF Columns, SqliteColumns, PostgresColumns
    <2> QED
      BY <1>3, <2>1, <2>2
  <1>5. Tells(data[a], event, copy)
    BY <1>1, <1>2, <1>4 DEF HeldIsFresh, NobodyYet
  <1>6. event \in EventRecords
    BY <1>2 DEF AgentEvent, EventRecords, EventTypes, Rows
  <1>7. PICK h : h = [Nothing EXCEPT !.at = "knows", !.id = a, !.expected = copy.version]
    OBVIOUS
  <1>8. h \in HeldRecords /\ h.at = "knows" /\ h.id = a /\ h.expected = copy.version
    <2>1. h = [at |-> "knows", id |-> a, expected |-> copy.version, copy |-> Unregistered,
               op |-> NobodyYet]
      BY <1>7 DEF Nothing
    <2>2. Unregistered \in Rows
      BY DEF Unregistered, Rows
    <2> QED
      BY <1>2, <2>1, <2>2 DEF HeldRecords, Rows
  <1>9. held' \in [ApiCallers -> HeldRecords] /\ held'[c] = h
        /\ \A d \in ApiCallers \ {c} : held'[d] = held[d]
    BY <1>1, <1>7, <1>8 DEF SaveCopy
  <1>10. /\ data' \in [AgentIds -> Rows] /\ data'[a] = copy
         /\ copy.version = data[a].version + 1 /\ copy.status # NobodyYet
         /\ \A b \in AgentIds \ {a} : data'[b] = data[b]
    BY <1>2, <1>3, <1>5, <1>6, SaveKeepsTables
  <1>11. \A d \in ApiCallers \ {c} : HeldIsFresh(d)'
    BY <1>1, <1>2, <1>9, <1>10, OthersStayFresh
  <1>12. HeldIsFresh(c)'
    BY <1>2, <1>8, <1>9, <1>10 DEF HeldIsFresh, InScope, Rows
  <1>13. \A save \in acknowledged' : SaveIsLogged(save)'
    <2>1. \A save \in acknowledged : SaveIsLogged(save)'
      BY <1>2, <1>3, <1>5, <1>6, SaveKeepsTables DEF RecordsInv
    <2>2. /\ agentEvents' \in [AgentIds -> Seq(EventRecords)]
          /\ Len(agentEvents'[a]) = copy.version + 1
          /\ agentEvents'[a][copy.version + 1] = event
      BY <1>2, <1>3, <1>5, <1>6, SaveKeepsTables
    <2>3. copy.version + 1 \in DOMAIN agentEvents'[a]
      BY <1>2, <2>2 DEF Rows
    <2>4. PICK save : save = <<c, a, copy.version, held[c].op>>
      OBVIOUS
    <2>5. save[1] = c /\ save[2] = a /\ save[3] = copy.version /\ save[4] = held[c].op
      BY <2>4
    <2>6. event.op = held[c].op /\ event.by = c
      BY DEF AgentEvent
    <2>7. SaveIsLogged(save)'
      BY <1>2, <2>2, <2>3, <2>5, <2>6 DEF SaveIsLogged, InScope, Rows
    <2>8. acknowledged' = acknowledged \cup {save}
      BY <2>4 DEF SaveCopy
    <2> QED
      BY <2>1, <2>7, <2>8
  <1> QED
    BY <1>1, <1>2, <1>3, <1>5, <1>6, <1>9, <1>11, <1>12, <1>13, SaveKeepsTables DEF RecordsInv

LEMMA RecordsInvStep == RecordsInv /\ [RecordsNext]_recordVars => RecordsInv'
  <1> SUFFICES ASSUME RecordsInv, [RecordsNext]_recordVars PROVE RecordsInv'
    OBVIOUS
  <1>0. RecordsInv
    OBVIOUS
  <1>1. ASSUME NEW c \in ApiCallers, StartAgent(c) PROVE RecordsInv'
    <2> DEFINE row == data[held[c].id]
    <2>1. /\ held[c].at = "knows" /\ CanStart(row, held[c].expected)
          /\ held' = [held EXCEPT ![c].at = "holds", ![c].copy = StartedAgent(row, seconds), ![c].op = "started"]
          /\ UNCHANGED <<data, columns, agentEvents, acknowledged, seconds>>
      BY <1>1 DEF StartAgent, Mutate
    <2>2. held[c].id \in AgentIds /\ row \in Rows /\ row.heartbeat <= seconds
      BY <2>1 DEF RecordsInv, HeldIsFresh, NobodyYet
    <2>3. Tells(row, AgentEvent("started", NoWork, StartedAgent(row, seconds).heartbeat, c), StartedAgent(row, seconds))
          /\ StartedAgent(row, seconds) \in Rows /\ StartedAgent(row, seconds).heartbeat <= seconds
      <3>1. StartedAgent(row, seconds).heartbeat = seconds
        BY <2>2 DEF StartedAgent, Advanced, Rows
      <3>2. Tells(row, AgentEvent("started", NoWork, StartedAgent(row, seconds).heartbeat, c), StartedAgent(row, seconds))
        BY <2>1, <2>2, <3>1 DEF Tells, AgentEvent, CanStart, EnsureRunning
      <3>3. AgentEvent("started", NoWork, StartedAgent(row, seconds).heartbeat, c) \in EventRecords
        BY <2>2, <3>1 DEF AgentEvent, EventRecords, EventTypes, Rows, RecordsInv
      <3> QED
        BY <2>2, <3>1, <3>2, <3>3, EventEffects DEF RecordsInv, Rows
    <2>4. MutatedCopy(c, "started", StartedAgent(row, seconds))
      BY <2>1, <2>2, <2>3 DEF MutatedCopy, CanStart, EnsureRunning, EnsureVersion
    <2> QED
      BY <1>0, <1>1, <2>4, MutationKeeps
  <1>2. ASSUME NEW c \in ApiCallers, HeartbeatAgent(c) PROVE RecordsInv'
    <2> DEFINE row == data[held[c].id]
    <2>1. /\ held[c].at = "knows" /\ CanBeat(row, held[c].expected)
          /\ held' = [held EXCEPT ![c].at = "holds", ![c].copy = Beaten(row, seconds), ![c].op = "heartbeat"]
          /\ UNCHANGED <<data, columns, agentEvents, acknowledged, seconds>>
      BY <1>2 DEF HeartbeatAgent, Mutate
    <2>2. held[c].id \in AgentIds /\ row \in Rows /\ row.heartbeat <= seconds
      BY <2>1 DEF RecordsInv, HeldIsFresh, NobodyYet
    <2>3. Tells(row, AgentEvent("heartbeat", NoWork, Beaten(row, seconds).heartbeat, c), Beaten(row, seconds))
          /\ Beaten(row, seconds) \in Rows /\ Beaten(row, seconds).heartbeat <= seconds
      <3>1. Beaten(row, seconds).heartbeat = seconds
        BY <2>2 DEF Beaten, Advanced, Rows
      <3>2. Tells(row, AgentEvent("heartbeat", NoWork, Beaten(row, seconds).heartbeat, c), Beaten(row, seconds))
        BY <2>1, <2>2, <3>1 DEF Tells, AgentEvent, CanBeat, EnsureRunning
      <3>3. AgentEvent("heartbeat", NoWork, Beaten(row, seconds).heartbeat, c) \in EventRecords
        BY <2>2, <3>1 DEF AgentEvent, EventRecords, EventTypes, Rows, RecordsInv
      <3> QED
        BY <2>2, <3>1, <3>2, <3>3, EventEffects DEF RecordsInv, Rows
    <2>4. MutatedCopy(c, "heartbeat", Beaten(row, seconds))
      BY <2>1, <2>2, <2>3 DEF MutatedCopy, CanBeat, EnsureRunning, EnsureVersion
    <2> QED
      BY <1>0, <1>2, <2>4, MutationKeeps
  <1>3. ASSUME NEW c \in ApiCallers, StopAgent(c) PROVE RecordsInv'
    <2> DEFINE row == data[held[c].id]
    <2>1. /\ held[c].at = "knows" /\ CanStop(row, held[c].expected)
          /\ held' = [held EXCEPT ![c].at = "holds", ![c].copy = StoppedAgent(row), ![c].op = "stopped"]
          /\ UNCHANGED <<data, columns, agentEvents, acknowledged, seconds>>
      BY <1>3 DEF StopAgent, Mutate
    <2>2. held[c].id \in AgentIds /\ row \in Rows /\ row.heartbeat <= seconds
      BY <2>1 DEF RecordsInv, HeldIsFresh, NobodyYet
    <2>3. Tells(row, AgentEvent("stopped", NoWork, StoppedAgent(row).heartbeat, c), StoppedAgent(row))
          /\ StoppedAgent(row) \in Rows /\ StoppedAgent(row).heartbeat <= seconds
      <3>1. StoppedAgent(row).heartbeat = row.heartbeat
        BY <2>2 DEF StoppedAgent, Advanced, Rows
      <3>2. Tells(row, AgentEvent("stopped", NoWork, StoppedAgent(row).heartbeat, c), StoppedAgent(row))
        BY <2>1, <2>2, <3>1 DEF Tells, AgentEvent, CanStop, EnsureRunning
      <3>3. AgentEvent("stopped", NoWork, StoppedAgent(row).heartbeat, c) \in EventRecords
        BY <2>2, <3>1 DEF AgentEvent, EventRecords, EventTypes, Rows, RecordsInv
      <3> QED
        BY <2>2, <3>1, <3>2, <3>3, EventEffects DEF RecordsInv, Rows
    <2>4. MutatedCopy(c, "stopped", StoppedAgent(row))
      BY <2>1, <2>2, <2>3 DEF MutatedCopy, CanStop, EnsureRunning, EnsureVersion
    <2> QED
      BY <1>0, <1>3, <2>4, MutationKeeps
  <1>4. ASSUME NEW c \in ApiCallers, CallerGivesUp(c) PROVE RecordsInv'
    <2>1. Nothing \in HeldRecords /\ Nothing.at = NobodyYet
      BY DEF Nothing, HeldRecords, Unregistered, Rows
    <2>2. held' \in [ApiCallers -> HeldRecords] /\ held'[c] = Nothing
          /\ \A d \in ApiCallers \ {c} : held'[d] = held[d]
      BY <1>4, <2>1 DEF CallerGivesUp, RecordsInv
    <2>3. \A d \in ApiCallers : HeldIsFresh(d)'
      BY <1>4, <2>1, <2>2 DEF CallerGivesUp, RecordsInv, HeldIsFresh, InScope
    <2> QED
      BY <1>4, <2>2, <2>3 DEF CallerGivesUp, RecordsInv, ColumnsFollowData, SaveIsLogged
  <1>5. ASSUME NEW c \in ApiCallers, NEW a \in AgentIds, GetAgent(c, a) PROVE RecordsInv'
    <2>1. PICK h : h = [Nothing EXCEPT !.at = "knows", !.id = a, !.expected = data[a].version]
      OBVIOUS
    <2>2. data[a] \in Rows /\ Logged(data[a], agentEvents[a]) /\ data[a] # Unregistered
      BY <1>5 DEF GetAgent, RecordsInv
    <2>3. h \in HeldRecords /\ h.at = "knows" /\ h.id = a /\ h.expected = data[a].version
      <3>1. h = [at |-> "knows", id |-> a, expected |-> data[a].version, copy |-> Unregistered,
                 op |-> NobodyYet]
        BY <2>1 DEF Nothing
      <3>2. Unregistered \in Rows
        BY DEF Unregistered, Rows
      <3> QED
        BY <2>2, <3>1, <3>2 DEF HeldRecords, Rows
    <2>4. held' \in [ApiCallers -> HeldRecords] /\ held'[c] = h
          /\ \A d \in ApiCallers \ {c} : held'[d] = held[d]
      BY <1>5, <2>1, <2>3 DEF GetAgent, RecordsInv
    <2>5. HeldIsFresh(c)'
      BY <1>5, <2>2, <2>3, <2>4 DEF GetAgent, HeldIsFresh, InScope, Rows, Logged
    <2>6. \A d \in ApiCallers \ {c} : HeldIsFresh(d)'
      BY <1>5, <2>4 DEF GetAgent, RecordsInv, HeldIsFresh, InScope
    <2> QED
      BY <1>5, <2>4, <2>5, <2>6 DEF GetAgent, RecordsInv, ColumnsFollowData, SaveIsLogged
  <1>6. ASSUME NEW a \in AgentIds, RegisterAgent(a) PROVE RecordsInv'
    <2> DEFINE event == AgentEvent("registered", NoWork, seconds, NobodyYet)
    <2>1. /\ data[a] = Unregistered /\ Saved(a, NewAgent, event)
          /\ UNCHANGED <<held, acknowledged, seconds>>
      BY <1>6 DEF RegisterAgent, SqliteCreate, PostgresCreate, Saved, InsertEvents, Columns
    <2>2. agentEvents[a] = <<>>
      BY <2>1 DEF RecordsInv, Logged, Unregistered
    <2>3. PICK u \in Rows : u = Unregistered
      <3>1. Unregistered \in Rows
        BY DEF Unregistered, Rows
      <3> QED
        BY <3>1
    <2>4. /\ NewAgent \in Rows /\ NewAgent.version = 0 /\ NewAgent.status = "registered"
          /\ NewAgent.task = NoWork /\ NewAgent.heartbeat = seconds
          /\ event \in EventRecords /\ seconds \in Nat
      <3>1. u.version = 0 /\ u.task = NoWork
        BY <2>3 DEF Unregistered
      <3>2. NewAgent = [u EXCEPT !.status = "registered", !.heartbeat = seconds]
        BY <2>3 DEF NewAgent
      <3>3. NewAgent = [version |-> u.version, status |-> "registered", task |-> u.task,
                        heartbeat |-> seconds]
        BY <3>2 DEF Rows
      <3>4. seconds \in Nat
        BY DEF RecordsInv
      <3>5. event \in EventRecords
        BY <3>4 DEF AgentEvent, EventRecords, EventTypes
      <3> HIDE DEF event
      <3> QED
        BY <3>1, <3>3, <3>4, <3>5 DEF Rows, AgentStatuses
    <2>5. Logged(NewAgent, <<event>>)
      <3>1. /\ Len(<<event>>) = 1 /\ DOMAIN <<event>> = {1} /\ <<event>>[1] = event
            /\ <<event>> # <<>>
        OBVIOUS
      <3>2. event.op = "registered" /\ event.time = seconds
        BY DEF AgentEvent
      <3>3. Follows(NewAgent, <<event>>)
        BY <2>4, <3>1, <3>2 DEF Follows, LastOf, StatusTold
      <3> QED
        BY <2>4, <3>1, <3>2, <3>3 DEF Logged, NobodyYet
    <2>6. /\ data' \in [AgentIds -> Rows] /\ data'[a] = NewAgent
          /\ \A b \in AgentIds \ {a} : data'[b] = data[b]
      BY <2>1, <2>4 DEF Saved, RecordsInv
    <2>7. /\ agentEvents' \in [AgentIds -> Seq(EventRecords)] /\ agentEvents'[a] = <<event>>
          /\ \A b \in AgentIds \ {a} : agentEvents'[b] = agentEvents[b]
      <3>1. Append(agentEvents[a], event) = <<event>> /\ <<event>> \in Seq(EventRecords)
        BY <2>2, <2>4
      <3> QED
        BY <2>1, <3>1 DEF Saved, RecordsInv
    <2>8. /\ columns' \in [AgentIds -> [version : Nat, status : AgentStatuses \cup {NobodyYet},
                                        task : TaskIds \cup {NoWork}]]
          /\ columns'[a] = Columns(a, NewAgent)
          /\ \A b \in AgentIds \ {a} : columns'[b] = columns[b]
      <3>1. Columns(a, NewAgent) \in [version : Nat, status : AgentStatuses \cup {NobodyYet},
                                      task : TaskIds \cup {NoWork}]
        BY <2>4 DEF Columns, SqliteColumns, PostgresColumns, Rows
      <3> QED
        BY <2>1, <3>1 DEF Saved, RecordsInv
    <2>9. ColumnsFollowData'
      <3> SUFFICES ASSUME NEW b \in AgentIds PROVE columns'[b] = Columns(b, data'[b])
        BY DEF ColumnsFollowData, Columns, SqliteColumns, PostgresColumns
      <3> QED
        BY <2>6, <2>8 DEF RecordsInv, ColumnsFollowData
    <2>10. \A c \in ApiCallers : HeldIsFresh(c)'
      <3> SUFFICES ASSUME NEW c \in ApiCallers PROVE HeldIsFresh(c)'
        OBVIOUS
      <3>1. HeldIsFresh(c) /\ held'[c] = held[c] /\ seconds' = seconds
        BY <2>1 DEF RecordsInv
      <3>2. held[c].at # NobodyYet => held[c].id # a
        BY <2>1, <3>1 DEF HeldIsFresh, Unregistered, NobodyYet
      <3> QED
        BY <2>6, <3>1, <3>2 DEF HeldIsFresh, InScope, AgentEvent, Tells
    <2>11. \A save \in acknowledged' : SaveIsLogged(save)'
      <3> SUFFICES ASSUME NEW save \in acknowledged PROVE SaveIsLogged(save)'
        BY <2>1
      <3>1. SaveIsLogged(save)
        BY DEF RecordsInv
      <3>2. save[2] # a
        BY <2>2, <3>1 DEF SaveIsLogged
      <3> QED
        BY <2>7, <3>1, <3>2 DEF SaveIsLogged, InScope
    <2> QED
      <3>1. \A b \in AgentIds : Logged(data'[b], agentEvents'[b])
        BY <2>5, <2>6, <2>7 DEF RecordsInv
      <3>2. \A b \in AgentIds : data'[b].heartbeat <= seconds
        <4>1. \A b \in AgentIds : data[b].heartbeat <= seconds
          BY DEF RecordsInv
        <4>2. NewAgent.heartbeat <= seconds
          BY <2>4
        <4> QED
          BY <2>6, <4>1, <4>2
      <3>3. held' = held /\ seconds' = seconds
        BY <2>1
      <3> QED
        BY <2>6, <2>7, <2>8, <2>9, <2>10, <2>11, <3>1, <3>2, <3>3 DEF RecordsInv
  <1>7. ASSUME NEW a \in AgentIds, NEW t \in TaskIds, ClaimAssigns(a, t) PROVE RecordsInv'
    <2> DEFINE event == AgentEvent("assigned", t, seconds, NobodyYet)
    <2>1. Saved(a, Assigned(data[a], t), event) /\ UNCHANGED <<held, acknowledged, seconds>>
      BY <1>7 DEF ClaimAssigns, SaveAgent, SqliteSave, InsertEvents, Saved, LoadAgent, Columns
    <2>2. data[a] \in Rows /\ data[a].heartbeat <= seconds /\ seconds \in Nat
      BY DEF RecordsInv
    <2>3. Tells(data[a], event, Assigned(data[a], t))
      BY <1>7, <2>2 DEF ClaimAssigns, CanAssign, EnsureRunning, Tells, AgentEvent
    <2>4. event \in EventRecords
      BY <2>2 DEF AgentEvent, EventRecords, EventTypes, Rows
    <2>5. Assigned(data[a], t).heartbeat <= seconds
      BY <2>2, <2>3, <2>4, EventEffects DEF AgentEvent
    <2> QED
      BY <2>1, <2>3, <2>4, <2>5, SchedulerSaveKeeps
  <1>8. ASSUME NEW a \in AgentIds, FinishReleases(a) PROVE RecordsInv'
    <2> DEFINE event == AgentEvent("released", data[a].task, seconds, NobodyYet)
    <2>1. Saved(a, Released(data[a]), event) /\ UNCHANGED <<held, acknowledged, seconds>>
      BY <1>8 DEF FinishReleases, SaveAgent, SqliteSave, InsertEvents, Saved, LoadAgent, Columns
    <2>2. data[a] \in Rows /\ data[a].heartbeat <= seconds /\ seconds \in Nat
      BY DEF RecordsInv
    <2>3. Tells(data[a], event, Released(data[a]))
      BY <1>8, <2>2 DEF FinishReleases, CanRelease, EnsureRunning, Tells, AgentEvent
    <2>4. event \in EventRecords
      BY <2>2 DEF AgentEvent, EventRecords, EventTypes, Rows
    <2>5. Released(data[a]).heartbeat <= seconds
      BY <2>2, <2>3, <2>4, EventEffects DEF AgentEvent
    <2> QED
      BY <2>1, <2>3, <2>4, <2>5, SchedulerSaveKeeps
  <1>9. ASSUME NEW a \in AgentIds, RecoveryFails(a) PROVE RecordsInv'
    <2> DEFINE event == AgentEvent("failed", NoWork, seconds, NobodyYet)
    <2>1. Saved(a, FailedAgent(data[a]), event) /\ UNCHANGED <<held, acknowledged, seconds>>
      BY <1>9 DEF RecoveryFails, SaveAgent, SqliteSave, InsertEvents, Saved, LoadAgent, Columns
    <2>2. data[a] \in Rows /\ data[a].heartbeat <= seconds /\ seconds \in Nat
      BY DEF RecordsInv
    <2>3. Tells(data[a], event, FailedAgent(data[a]))
      BY <1>9, <2>2 DEF RecoveryFails, IsStaleAt, Tells, AgentEvent
    <2>4. event \in EventRecords
      BY <2>2 DEF AgentEvent, EventRecords, EventTypes, Rows
    <2>5. FailedAgent(data[a]).heartbeat <= seconds
      BY <2>2, <2>3, <2>4, EventEffects DEF AgentEvent
    <2> QED
      BY <2>1, <2>3, <2>4, <2>5, SchedulerSaveKeeps
  <1>10. CASE TimePasses
    <2>1. seconds' = seconds + 1 /\ seconds \in Nat /\ UNCHANGED <<data, columns, agentEvents, held, acknowledged>>
      BY <1>10 DEF TimePasses, RecordsInv
    <2>2. \A a \in AgentIds : data'[a].heartbeat <= seconds'
      BY <2>1 DEF RecordsInv, Rows
    <2>3. \A c \in ApiCallers : HeldIsFresh(c)'
      <3> SUFFICES ASSUME NEW c \in ApiCallers PROVE HeldIsFresh(c)'
        OBVIOUS
      <3>1. HeldIsFresh(c) /\ held[c] \in HeldRecords
        BY DEF RecordsInv
      <3>2. held[c].copy.heartbeat <= seconds => held[c].copy.heartbeat <= seconds'
        BY <2>1, <3>1 DEF HeldRecords, Rows
      <3> QED
        BY <2>1, <3>1, <3>2 DEF HeldIsFresh, InScope
    <2> QED
      BY <2>1, <2>2, <2>3 DEF RecordsInv, ColumnsFollowData, SaveIsLogged
  <1>11. CASE UNCHANGED recordVars
    BY <1>11 DEF recordVars, RecordsInv, ColumnsFollowData, SaveIsLogged, HeldIsFresh, InScope
  <1> QED
    BY <1>1, <1>2, <1>3, <1>4, <1>5, <1>6, <1>7, <1>8, <1>9, <1>10, <1>11, SaveCopyKeeps
    DEF RecordsNext, Operate

LEMMA RecordsInvInit == RecordsInit => RecordsInv
  <1> SUFFICES ASSUME RecordsInit PROVE RecordsInv
    OBVIOUS
  <1>1. Unregistered \in Rows
    BY DEF Unregistered, Rows
  <1>2. Nothing \in HeldRecords /\ Nothing.at = NobodyYet
    BY <1>1 DEF Nothing, HeldRecords
  <1>3. PostgresColumns(Unregistered) = SqliteColumns(Unregistered)
    BY DEF PostgresColumns, SqliteColumns, Unregistered
  <1>4. PostgresColumns(Unregistered) \in [version : Nat, status : AgentStatuses \cup {NobodyYet},
                                          task : TaskIds \cup {NoWork}]
    BY <1>1 DEF PostgresColumns, Rows
  <1>5. <<>> \in Seq(EventRecords)
    OBVIOUS
  <1>6. Unregistered.heartbeat = 0
    BY DEF Unregistered
  <1>7. ColumnsFollowData
    BY <1>3 DEF RecordsInit, ColumnsFollowData, Columns
  <1>8. \A c \in ApiCallers : HeldIsFresh(c)
    BY <1>2 DEF RecordsInit, HeldIsFresh
  <1>9. \A a \in AgentIds : Logged(data[a], agentEvents[a])
    BY DEF RecordsInit, Logged
  <1> QED
    BY <1>1, <1>2, <1>4, <1>5, <1>6, <1>7, <1>8, <1>9 DEF RecordsInit, RecordsInv

(***************************************************************************)
(* Whatever the scheduler and any number of HTTP callers save: each agent  *)
(* is what its events say, and a caller's copy is either made from the row *)
(* as it is or can no longer be saved (AgentService::mutate).              *)
(***************************************************************************)
THEOREM AgentRecordsInvariant == RecordsSpec => []RecordsInv
  <1>1. RecordsInit => RecordsInv
    BY RecordsInvInit
  <1>2. RecordsInv /\ [RecordsNext]_recordVars => RecordsInv'
    BY RecordsInvStep
  <1> QED
    BY <1>1, <1>2, PTL DEF RecordsSpec

(***************************************************************************)
(* For any agents, callers and clock, in either database: row, columns,    *)
(* events and acknowledged answers agree, and only silent agents fail.     *)
(***************************************************************************)
THEOREM AgentRowsKeepAgreeing == RecordsSpec => []AgentRowsAgree
  <1>1. RecordsInv => AgentRowsAgree
    <2> SUFFICES ASSUME RecordsInv PROVE AgentRowsAgree
      OBVIOUS
    <2>1. RecordsTypeOK
      <3>1. data \in [AgentIds -> [version : Nat, status : AgentStatuses \cup {NobodyYet},
                                   task : TaskIds \cup {NoWork}, heartbeat : 0 .. seconds]]
        <4> SUFFICES ASSUME NEW a \in AgentIds
                     PROVE  data[a] \in [version : Nat, status : AgentStatuses \cup {NobodyYet},
                                         task : TaskIds \cup {NoWork}, heartbeat : 0 .. seconds]
          BY DEF RecordsInv
        <4>1. data[a] \in Rows /\ data[a].heartbeat <= seconds /\ seconds \in Nat
          BY DEF RecordsInv
        <4>2. data[a].heartbeat \in 0 .. seconds
          BY <4>1 DEF Rows
        <4> QED
          BY <4>1, <4>2 DEF Rows
      <3>2. \A c \in ApiCallers : held[c].at \in {NobodyYet, "knows", "holds"}
        BY DEF RecordsInv, HeldRecords
      <3> QED
        BY <3>1, <3>2 DEF RecordsTypeOK
    <2>2. RecordFollowsEvents
      BY DEF RecordsInv, RecordFollowsEvents, Logged
    <2>3. FailedWereSilent
      <3> SUFFICES ASSUME NEW a \in AgentIds, agentEvents[a] # <<>>
                   PROVE  \A i, j \in DOMAIN agentEvents[a] :
                     i < j /\ agentEvents[a][i].op \in {"started", "heartbeat"}
                           /\ agentEvents[a][j].op = "failed"
                       => agentEvents[a][j].time > agentEvents[a][i].time + Timeout
        BY DEF FailedWereSilent
      <3> QED
        BY DEF RecordsInv, Logged
    <2>4. AcknowledgedIsLogged /\ CallersStayInScope
      BY DEF RecordsInv, SaveIsLogged, AcknowledgedIsLogged, CallersStayInScope
    <2>5. ColumnsFollowData
      BY DEF RecordsInv
    <2> QED
      BY <2>1, <2>2, <2>3, <2>4, <2>5 DEF AgentRowsAgree
  <1> QED
    BY <1>1, AgentRecordsInvariant, PTL

\* The agents as AgentLifecycle sees them.
Lives == [a \in AgentIds |-> [status |-> data[a].status, task |-> data[a].task]]

\* A save that does what its event tells is a transition of AgentLifecycle.
LEMMA SaveIsTransition ==
  ASSUME RecordsInv, NEW a \in AgentIds, NEW row, NEW event \in EventRecords,
         Tells(data[a], event, row), data' = [data EXCEPT ![a] = row]
  PROVE  Lifecycle!LifecycleNext \/ Lives' = Lives
  <1>1. data \in [AgentIds -> Rows] /\ data[a] \in Rows
    BY DEF RecordsInv
  <1>2. /\ row \in Rows
        /\ row.status = IF event.op = "started" THEN "running"
                        ELSE IF event.op \in {"stopped", "failed"} THEN event.op ELSE data[a].status
        /\ row.task = IF event.op = "assigned" THEN event.task
                      ELSE IF event.op \in {"released", "failed"} THEN NoWork ELSE data[a].task
    BY <1>1, EventEffects
  <1>3. Lives' = [Lives EXCEPT ![a] = [status |-> row.status, task |-> row.task]]
    BY <1>1 DEF Lives
  <1>4. Lives[a] = [status |-> data[a].status, task |-> data[a].task]
    BY DEF Lives
  <1>5. /\ [Lives[a] EXCEPT !.status = row.status] = [status |-> row.status, task |-> data[a].task]
        /\ [Lives[a] EXCEPT !.task = row.task] = [status |-> data[a].status, task |-> row.task]
    BY <1>4
  <1>6. CASE event.op = "started"
    <2>1. data[a].status \in {"registered", "stopped"} /\ row.status = "running" /\ row.task = data[a].task
      BY <1>2, <1>6 DEF Tells
    <2>2. Lives' = [Lives EXCEPT ![a] = [Lives[a] EXCEPT !.status = "running"]]
      BY <1>2, <1>3, <1>4, <1>5, <2>1, <1>6
    <2>3. Lifecycle!Start(a)
      BY <1>4, <2>1, <2>2 DEF Lifecycle!Start, Lives, Lifecycle!Idle, NoWork
    <2> QED
      BY <2>1, <2>3 DEF Lifecycle!LifecycleNext
  <1>7. CASE event.op = "heartbeat"
    BY <1>2, <1>3, <1>4, <1>7 DEF Lives
  <1>8. CASE event.op = "stopped"
    <2>1. /\ data[a].status = "running" /\ data[a].task = NoWork
          /\ row.status = "stopped" /\ row.task = data[a].task
      BY <1>2, <1>8 DEF Tells
    <2>2. Lives' = [Lives EXCEPT ![a] = [Lives[a] EXCEPT !.status = "stopped"]]
      BY <1>2, <1>3, <1>4, <1>5, <2>1, <1>8
    <2>3. Lifecycle!Stop(a)
      BY <1>4, <2>1, <2>2 DEF Lifecycle!Stop, Lives, Lifecycle!Idle, NoWork
    <2> QED
      BY <2>1, <2>3 DEF Lifecycle!LifecycleNext
  <1>9. CASE event.op = "assigned"
    <2>1. /\ data[a].status = "running" /\ data[a].task = NoWork /\ event.task \in TaskIds
          /\ row.status = data[a].status /\ row.task = event.task
      BY <1>2, <1>9 DEF Tells
    <2>2. Lives' = [Lives EXCEPT ![a] = [Lives[a] EXCEPT !.task = event.task]]
      BY <1>2, <1>3, <1>4, <1>5, <2>1, <1>9
    <2>3. Lifecycle!Assign(a, event.task)
      BY <1>4, <2>1, <2>2 DEF Lifecycle!Assign, Lives, Lifecycle!Idle, NoWork
    <2> QED
      BY <2>1, <2>3 DEF Lifecycle!LifecycleNext
  <1>10. CASE event.op = "released"
    <2>1. /\ data[a].status = "running" /\ data[a].task # NoWork
          /\ row.status = data[a].status /\ row.task = NoWork
      BY <1>2, <1>10 DEF Tells
    <2>2. Lives' = [Lives EXCEPT ![a] = [Lives[a] EXCEPT !.task = NoWork]]
      BY <1>2, <1>3, <1>4, <1>5, <2>1, <1>10
    <2>3. Lifecycle!Release(a)
      BY <1>4, <2>1, <2>2 DEF Lifecycle!Release, Lives, Lifecycle!Idle, NoWork
    <2> QED
      BY <2>1, <2>3 DEF Lifecycle!LifecycleNext
  <1>11. CASE event.op = "failed"
    <2>1. /\ data[a].task # NoWork /\ row.status = "failed" /\ row.task = NoWork
      BY <1>2, <1>11 DEF Tells
    <2>2. Lives' = [Lives EXCEPT ![a] = [status |-> "failed", task |-> NoWork]]
      BY <1>2, <1>3, <1>4, <1>5, <2>1, <1>11
    <2>3. Lifecycle!Fail(a) /\ Lives[a].task # Lifecycle!Idle
      BY <1>4, <2>1, <2>2 DEF Lifecycle!Fail, Lives, Lifecycle!Idle, NoWork
    <2> QED
      BY <2>1, <2>3 DEF Lifecycle!LifecycleNext, Lives
  <1> QED
    BY <1>6, <1>7, <1>8, <1>9, <1>10, <1>11 DEF Tells

LEMMA RecordsStepIsTransition ==
  ASSUME RecordsInv, [RecordsNext]_recordVars
  PROVE  Lifecycle!LifecycleNext \/ Lives' = Lives
  <1>1. ASSUME data' = data PROVE Lives' = Lives
    BY <1>1 DEF Lives
  <1>2. ASSUME NEW c \in ApiCallers, SaveCopy(c) PROVE Lifecycle!LifecycleNext \/ Lives' = Lives
    <2> DEFINE a == held[c].id
               copy == held[c].copy
               event == AgentEvent(held[c].op, NoWork, copy.heartbeat, c)
    <2>1. /\ held[c] \in HeldRecords /\ HeldIsFresh(c) /\ held[c].at = "holds"
          /\ ColumnsFollowData
      BY <1>2 DEF RecordsInv, SaveCopy
    <2>2. a \in AgentIds /\ copy \in Rows /\ held[c].op \in {"started", "heartbeat", "stopped"}
      BY <2>1 DEF HeldIsFresh, HeldRecords, NobodyYet
    <2>3. columns[a].version = held[c].expected /\ data' = [data EXCEPT ![a] = copy]
      BY <1>2, <2>2 DEF SaveCopy, Stored, SqliteSave, PostgresSave
    <2>4. held[c].expected = data[a].version
      <3>1. columns[a] = Columns(a, data[a])
        BY <2>1, <2>2 DEF ColumnsFollowData
      <3>2. Columns(a, data[a]).version = data[a].version
        BY DEF Columns, SqliteColumns, PostgresColumns
      <3> QED
        BY <2>3, <3>1, <3>2
    <2>5. Tells(data[a], event, copy)
      BY <2>1, <2>2, <2>4 DEF HeldIsFresh, NobodyYet
    <2>6. event \in EventRecords
      BY <2>2 DEF AgentEvent, EventRecords, EventTypes, Rows
    <2> QED
      BY <2>2, <2>3, <2>5, <2>6, SaveIsTransition
  <1>3. ASSUME NEW a \in AgentIds, RegisterAgent(a) PROVE Lifecycle!LifecycleNext \/ Lives' = Lives
    <2>1. data[a] = Unregistered /\ data' = [data EXCEPT ![a] = NewAgent] /\ data \in [AgentIds -> Rows]
      BY <1>3 DEF RegisterAgent, SqliteCreate, PostgresCreate, RecordsInv
    <2>2. Lives[a].status = NobodyYet /\ Lives[a].task = NoWork
      BY <2>1 DEF Lives, Unregistered
    <2>3. NewAgent.status = "registered" /\ NewAgent.task = NoWork
      BY DEF NewAgent, Unregistered
    <2>4. Lives' = [Lives EXCEPT ![a] = [status |-> NewAgent.status, task |-> NewAgent.task]]
      <3>1. PICK row : row = NewAgent
        OBVIOUS
      <3>2. data' = [data EXCEPT ![a] = row]
        BY <2>1, <3>1
      <3>3. Lives' = [Lives EXCEPT ![a] = [status |-> row.status, task |-> row.task]]
        BY <2>1, <3>2 DEF Lives
      <3> QED
        BY <3>1, <3>3
    <2>5. Lives[a] = [status |-> NobodyYet, task |-> NoWork]
      BY <2>2 DEF Lives
    <2>6. Lives' = [Lives EXCEPT ![a] = [Lives[a] EXCEPT !.status = "registered"]]
      <3>1. [Lives[a] EXCEPT !.status = "registered"] = [status |-> "registered", task |-> NoWork]
        BY <2>5
      <3> QED
        BY <2>3, <2>4, <3>1
    <2>7. Lifecycle!Register(a)
      BY <2>2, <2>6 DEF Lifecycle!Register, Lifecycle!Nobody, NobodyYet, Lives
    <2> QED
      BY <2>7 DEF Lifecycle!LifecycleNext
  <1>4. ASSUME NEW a \in AgentIds, NEW t \in TaskIds, ClaimAssigns(a, t) PROVE Lifecycle!LifecycleNext \/ Lives' = Lives
    <2> DEFINE event == AgentEvent("assigned", t, seconds, NobodyYet)
    <2>1. data' = [data EXCEPT ![a] = Assigned(data[a], t)]
      BY <1>4 DEF ClaimAssigns, SaveAgent, SqliteSave
    <2>2. data[a] \in Rows /\ seconds \in Nat
      BY DEF RecordsInv
    <2>3. Tells(data[a], event, Assigned(data[a], t))
      BY <1>4, <2>2 DEF ClaimAssigns, CanAssign, EnsureRunning, Tells, AgentEvent
    <2>4. event \in EventRecords
      BY <2>2 DEF AgentEvent, EventRecords, EventTypes, Rows
    <2> QED
      BY <2>1, <2>3, <2>4, SaveIsTransition
  <1>5. ASSUME NEW a \in AgentIds, FinishReleases(a) PROVE Lifecycle!LifecycleNext \/ Lives' = Lives
    <2> DEFINE event == AgentEvent("released", data[a].task, seconds, NobodyYet)
    <2>1. data' = [data EXCEPT ![a] = Released(data[a])]
      BY <1>5 DEF FinishReleases, SaveAgent, SqliteSave
    <2>2. data[a] \in Rows /\ seconds \in Nat
      BY DEF RecordsInv
    <2>3. Tells(data[a], event, Released(data[a]))
      BY <1>5, <2>2 DEF FinishReleases, CanRelease, EnsureRunning, Tells, AgentEvent
    <2>4. event \in EventRecords
      BY <2>2 DEF AgentEvent, EventRecords, EventTypes, Rows
    <2> QED
      BY <2>1, <2>3, <2>4, SaveIsTransition
  <1>6. ASSUME NEW a \in AgentIds, RecoveryFails(a) PROVE Lifecycle!LifecycleNext \/ Lives' = Lives
    <2> DEFINE event == AgentEvent("failed", NoWork, seconds, NobodyYet)
    <2>1. data' = [data EXCEPT ![a] = FailedAgent(data[a])]
      BY <1>6 DEF RecoveryFails, SaveAgent, SqliteSave
    <2>2. data[a] \in Rows /\ seconds \in Nat
      BY DEF RecordsInv
    <2>3. Tells(data[a], event, FailedAgent(data[a]))
      BY <1>6, <2>2 DEF RecoveryFails, IsStaleAt, Tells, AgentEvent
    <2>4. event \in EventRecords
      BY <2>2 DEF AgentEvent, EventRecords, EventTypes, Rows
    <2> QED
      BY <2>1, <2>3, <2>4, SaveIsTransition
  <1>7. CASE UNCHANGED recordVars \/ TimePasses
    BY <1>1, <1>7 DEF recordVars, TimePasses
  <1>8. ASSUME NEW c \in ApiCallers, Operate(c) \/ CallerGivesUp(c) \/ \E a \in AgentIds : GetAgent(c, a)
        PROVE  Lives' = Lives
    BY <1>1, <1>8 DEF Operate, StartAgent, HeartbeatAgent, StopAgent, Mutate, CallerGivesUp, GetAgent
  <1> QED
    BY <1>2, <1>3, <1>4, <1>5, <1>6, <1>7, <1>8 DEF RecordsNext

(***************************************************************************)
(* Read, apply and save of any number of callers, mixed with the           *)
(* transactions of the scheduler, are the atomic transitions of            *)
(* AgentLifecycle: an agent has one task at a time, takes it while it runs *)
(* and is not stopped with it (AgentRecord).                               *)
(***************************************************************************)
THEOREM AgentsKeepLifecycle == RecordsSpec => LifecycleIsKept
  <1>1. RecordsInit => Lifecycle!LifecycleInit
    BY DEF RecordsInit, Unregistered, Lifecycle!LifecycleInit, Lifecycle!Nobody, Lifecycle!Idle,
           NobodyYet, NoWork
  <1>2. RecordsInv /\ [RecordsNext]_recordVars => Lifecycle!LifecycleNext \/ Lives' = Lives
    BY RecordsStepIsTransition
  <1>3. RecordsInv /\ [RecordsNext]_recordVars => [Lifecycle!LifecycleNext]_Lives
    BY <1>2
  <1> QED
    BY <1>1, <1>3, AgentRecordsInvariant, PTL
    DEF RecordsSpec, LifecycleIsKept, Lifecycle!LifecycleSpec, Lives

-----------------------------------------------------------------------------
(* Native sessions                                                         *)

CodexNames == Nat \cup {Unknown}
Handoffs == [from : CodexNames, turns : Nat]
Rollouts == [turns : Nat, time : Nat, of : SUBSET WeftSessions]
Disturbers == {"sw-codex", "codex"}
CodexStages == {"new", "loaded", "linked", "running", "exited", "found", "orphaned", "done"}
CodexRuns ==
  [at : CodexStages, copy : [WeftSessions -> CodexNames], before : Seq(Rollouts), native : Nat]
ClaudeStates == [native : Nat, imported : Handoffs]
Transcripts == [imported : Handoffs, of : WeftSessions]
ClaudeStages ==
  {"new", "refreshed", "read", "importing", "written", "ready", "running", "done"}
ClaudeRuns == [at : ClaudeStages, handoff : Handoffs, state : ClaudeStates]

CodexTyped ==
  /\ bindings \in [WeftSessions -> CodexNames] /\ lastBound \in [WeftSessions -> CodexNames]
  /\ rollouts \in Seq(Rollouts) /\ turned \in Nat /\ disturbedBy \subseteq Disturbers
  /\ handoffs \in [WeftSessions -> Handoffs]
  /\ codex \in [CodexLaunches -> CodexRuns]

\* Whatever names a Codex session names one that exists, or none known here.
NamesExist ==
  /\ \A s \in WeftSessions :
       bindings[s] <= Len(rollouts) /\ lastBound[s] <= Len(rollouts)
       /\ handoffs[s].from <= Len(rollouts)
  /\ \A p \in CodexLaunches :
       /\ codex[p].native <= Len(rollouts)
       /\ \A s \in WeftSessions : codex[p].copy[s] <= Len(rollouts)

ClaudeTyped ==
  /\ claudeState \in [WeftSessions -> ClaudeStates]
  /\ transcripts \in Seq(Transcripts)
  /\ claude \in [ClaudeLaunches -> ClaudeRuns]

\* A state of Claude's, on disk or in a launcher, and the transcript it names.
StateIsTrue(state, s) ==
  state.native # 0 =>
    /\ state.native <= Len(transcripts)
    /\ transcripts[state.native] = [imported |-> state.imported, of |-> s]

\* What a run would discover was used for its Session.
OwnChanges(p) == \A n \in ChangedSince(p) : Session(p) \in rollouts[n].of

RunIsApart(p) ==
  Active(p) =>
    /\ codex[p].copy = bindings
    /\ Watching(p) => OwnChanges(p)
    /\ codex[p].at = "found" =>
         codex[p].native \in DOMAIN rollouts /\ Session(p) \in rollouts[codex[p].native].of

Apart ==
  disturbedBy = {} =>
    /\ ConversationsApart
    /\ \A p \in CodexLaunches : RunIsApart(p)
    /\ \A p, q \in CodexLaunches : Active(p) /\ Active(q) => p = q

NativeInv ==
  /\ CodexTyped /\ NamesExist /\ ClaudeTyped
  /\ \A s \in WeftSessions : StateIsTrue(claudeState[s], s)
  /\ \A q \in ClaudeLaunches : StateIsTrue(claude[q].state, Session(q))
  /\ Apart

LEMMA NamesAreIntegers == \A n \in CodexNames : n \in Int
  BY DEF CodexNames, Unknown

\* A run of sw-codex moves, and with it the files.
LEMMA CodexMoves ==
  ASSUME NativeInv, NEW p \in CodexLaunches, NEW run \in CodexRuns,
         codex' = [codex EXCEPT ![p] = run],
         bindings' \in [WeftSessions -> CodexNames], lastBound' \in [WeftSessions -> CodexNames],
         rollouts' \in Seq(Rollouts), turned' \in Nat, disturbedBy' \subseteq Disturbers,
         handoffs' \in [WeftSessions -> Handoffs],
         UNCHANGED <<claudeFiles, claude>>,
         Len(rollouts) = Len(rollouts'), run.native <= Len(rollouts'),
         \A s \in WeftSessions :
           /\ run.copy[s] <= Len(rollouts') /\ bindings'[s] <= Len(rollouts')
           /\ lastBound'[s] <= Len(rollouts') /\ handoffs'[s].from <= Len(rollouts'),
         disturbedBy' = {} =>
           /\ ConversationsApart' /\ RunIsApart(p)'
           /\ \A q \in CodexLaunches \ {p} : ~Active(q)
  PROVE  NativeInv'
  <1>1. codex' \in [CodexLaunches -> CodexRuns] /\ codex'[p] = run
        /\ \A q \in CodexLaunches \ {p} : codex'[q] = codex[q]
    BY DEF NativeInv, CodexTyped
  <1>2. CodexTyped'
    BY <1>1 DEF CodexTyped
  <1>3. NamesExist'
    <2>1. ASSUME NEW q \in CodexLaunches
          PROVE  /\ codex'[q].native <= Len(rollouts')
                 /\ \A s \in WeftSessions : codex'[q].copy[s] <= Len(rollouts')
      <3>1. CASE q = p
        BY <1>1, <3>1
      <3>2. CASE q # p
        BY <1>1, <3>2 DEF NativeInv, NamesExist
      <3> QED
        BY <3>1, <3>2
    <2> QED
      BY <2>1 DEF NamesExist
  <1>4. Apart'
    <2> SUFFICES ASSUME disturbedBy' = {} PROVE Apart'
      BY DEF Apart
    <2>1. \A q \in CodexLaunches \ {p} : ~Active(q)' /\ RunIsApart(q)'
      BY <1>1 DEF Active, RunIsApart
    <2> QED
      BY <2>1 DEF Apart
  <1>5. claudeState' = claudeState /\ transcripts' = transcripts /\ claude' = claude
    BY DEF claudeFiles
  <1> QED
    BY <1>2, <1>3, <1>4, <1>5 DEF NativeInv, ClaudeTyped, StateIsTrue, Session

\* What is known of a run, its copy and its files.
LEMMA CodexFacts ==
  ASSUME NativeInv, NEW p \in CodexLaunches
  PROVE  /\ codex[p] \in CodexRuns /\ Session(p) \in WeftSessions
         /\ codex[p].copy \in [WeftSessions -> CodexNames] /\ codex[p].before \in Seq(Rollouts)
         /\ bindings \in [WeftSessions -> CodexNames] /\ lastBound \in [WeftSessions -> CodexNames]
         /\ rollouts \in Seq(Rollouts) /\ turned \in Nat /\ disturbedBy \subseteq Disturbers
         /\ handoffs \in [WeftSessions -> Handoffs]
  <1>1. codex[p] \in CodexRuns /\ Session(p) \in WeftSessions
    BY LaunchAssumption DEF NativeInv, CodexTyped, Session
  <1>2. codex[p].copy \in [WeftSessions -> CodexNames] /\ codex[p].before \in Seq(Rollouts)
    BY <1>1 DEF CodexRuns
  <1> QED
    BY <1>1, <1>2 DEF NativeInv, CodexTyped

\* A step of one active run in peace: it is the only one.
LEMMA AloneWhileActive ==
  ASSUME NativeInv, NEW p \in CodexLaunches, Active(p), disturbedBy = {}
  PROVE  /\ ConversationsApart /\ RunIsApart(p) /\ codex[p].copy = bindings
         /\ \A q \in CodexLaunches \ {p} : ~Active(q)
  BY DEF NativeInv, Apart, RunIsApart

\* What names a Codex session, read as the run does.
LEMMA NamesWithin ==
  ASSUME NativeInv
  PROVE  /\ Len(rollouts) \in Nat /\ DOMAIN rollouts = 1 .. Len(rollouts)
         /\ \A n \in DOMAIN rollouts : n \in Nat /\ n <= Len(rollouts) /\ rollouts[n] \in Rollouts
         /\ \A s \in WeftSessions :
              /\ bindings[s] <= Len(rollouts) /\ lastBound[s] <= Len(rollouts)
              /\ handoffs[s].from <= Len(rollouts)
         /\ \A p \in CodexLaunches :
              /\ codex[p].native <= Len(rollouts)
              /\ \A s \in WeftSessions : codex[p].copy[s] <= Len(rollouts)
  <1>1. Len(rollouts) \in Nat /\ DOMAIN rollouts = 1 .. Len(rollouts)
        /\ \A n \in DOMAIN rollouts : n \in Nat /\ n <= Len(rollouts) /\ rollouts[n] \in Rollouts
    BY DEF NativeInv, CodexTyped
  <1> QED
    BY <1>1 DEF NativeInv, NamesExist

LEMMA LoadBindingsKeeps ==
  ASSUME NativeInv, NEW p \in CodexLaunches, LoadBindings(p) PROVE NativeInv'
  <1>1. /\ codex' = [codex EXCEPT ![p].at = "loaded", ![p].copy = bindings]
        /\ disturbedBy' = IF \E r \in CodexLaunches : Active(r) THEN disturbedBy \cup {"sw-codex"}
                          ELSE disturbedBy
    BY DEF LoadBindings
  <1>2. UNCHANGED <<bindings, rollouts, turned, lastBound, handoffs, claudeFiles, claude>>
    BY DEF LoadBindings
  <1>3. PICK was \in CodexRuns : was = codex[p]
    BY CodexFacts
  <1>4. PICK run : run = [was EXCEPT !.at = "loaded", !.copy = bindings]
    OBVIOUS
  <1>5. codex' = [codex EXCEPT ![p] = run]
    BY Zenon, <1>1, <1>3, <1>4
  <1>6. run = [at |-> "loaded", copy |-> bindings, before |-> was.before, native |-> was.native]
    BY <1>4 DEF CodexRuns
  <1>7. run \in CodexRuns /\ run.at = "loaded" /\ run.copy = bindings /\ run.native = codex[p].native
    BY <1>3, <1>6, CodexFacts DEF CodexRuns, CodexStages
  <1>8. codex'[p] = run
    BY <1>5 DEF NativeInv, CodexTyped
  <1>9. ASSUME disturbedBy' = {}
        PROVE  ConversationsApart' /\ RunIsApart(p)' /\ \A q \in CodexLaunches \ {p} : ~Active(q)
    <2>1. disturbedBy = {} /\ \A q \in CodexLaunches : ~Active(q)
      BY <1>1, <1>9
    <2>2. ConversationsApart'
      BY <1>2, <2>1 DEF NativeInv, Apart, ConversationsApart
    <2>3. RunIsApart(p)'
      BY <1>2, <1>7, <1>8 DEF RunIsApart, Watching
    <2> QED
      BY <2>1, <2>2, <2>3
  <1>10. disturbedBy' \subseteq Disturbers
    BY <1>1, CodexFacts DEF Disturbers
  <1>11. Len(rollouts) = Len(rollouts') /\ run.native <= Len(rollouts')
         /\ \A s \in WeftSessions :
              /\ run.copy[s] <= Len(rollouts') /\ bindings'[s] <= Len(rollouts')
              /\ lastBound'[s] <= Len(rollouts') /\ handoffs'[s].from <= Len(rollouts')
    BY <1>2, <1>7, NamesWithin
  <1>12. /\ bindings' \in [WeftSessions -> CodexNames] /\ lastBound' \in [WeftSessions -> CodexNames]
         /\ rollouts' \in Seq(Rollouts) /\ turned' \in Nat /\ handoffs' \in [WeftSessions -> Handoffs]
    BY <1>2, CodexFacts
  <1> QED
    BY <1>2, <1>5, <1>7, <1>9, <1>10, <1>11, <1>12, CodexMoves

\* A run that goes on without touching a file.
LEMMA RunGoesOn ==
  ASSUME NativeInv, NEW p \in CodexLaunches, NEW run \in CodexRuns,
         codex' = [codex EXCEPT ![p] = run],
         UNCHANGED <<codexFiles, handoffs, claudeFiles, claude>>,
         run.copy = codex[p].copy, run.native <= Len(rollouts),
         run.at \notin {"new", "done", "orphaned"} => Active(p),
         disturbedBy = {} /\ RunIsApart(p) => RunIsApart(p)'
  PROVE  NativeInv'
  <1>1. UNCHANGED <<bindings, rollouts, turned, lastBound, handoffs, disturbedBy>>
        /\ claudeState' = claudeState /\ transcripts' = transcripts /\ claude' = claude
    BY DEF codexFiles, claudeFiles
  <1>2. codex' \in [CodexLaunches -> CodexRuns] /\ codex'[p] = run
        /\ \A q \in CodexLaunches \ {p} : codex'[q] = codex[q]
    BY DEF NativeInv, CodexTyped
  <1>3. CodexTyped'
    BY <1>1, <1>2 DEF NativeInv, CodexTyped
  <1>4. NamesExist'
    <2>1. ASSUME NEW q \in CodexLaunches
          PROVE  /\ codex'[q].native <= Len(rollouts)
                 /\ \A s \in WeftSessions : codex'[q].copy[s] <= Len(rollouts)
      <3>1. CASE q = p
        BY <1>2, <3>1, NamesWithin
      <3>2. CASE q # p
        BY <1>2, <3>2, NamesWithin
      <3> QED
        BY <3>1, <3>2
    <2> QED
      BY <1>1, <2>1 DEF NativeInv, NamesExist
  <1>5. ASSUME disturbedBy = {} PROVE Apart'
    <2>1. ConversationsApart'
      BY <1>1, <1>5 DEF NativeInv, Apart, ConversationsApart
    <2>2. ASSUME NEW q \in CodexLaunches PROVE (Active(q)' => Active(q)) /\ RunIsApart(q)'
      <3>1. CASE q = p
        BY <1>2, <1>5, <3>1 DEF NativeInv, Apart, Active
      <3>2. CASE q # p
        BY <1>1, <1>2, <1>5, <3>2
        DEF NativeInv, Apart, RunIsApart, Active, Watching, OwnChanges, ChangedSince, Session
      <3> QED
        BY <3>1, <3>2
    <2>3. \A q, r \in CodexLaunches : Active(q) /\ Active(r) => q = r
      BY <1>5 DEF NativeInv, Apart
    <2> QED
      BY <2>1, <2>2, <2>3 DEF Apart
  <1>6. Apart'
    BY <1>1, <1>5 DEF Apart
  <1> QED
    BY <1>1, <1>3, <1>4, <1>6 DEF NativeInv, ClaudeTyped, StateIsTrue, Session

LEMMA StartCodexKeeps ==
  ASSUME NativeInv, NEW p \in CodexLaunches, StartCodex(p) PROVE NativeInv'
  <1>1. /\ codex[p].at \in {"loaded", "linked"}
        /\ codex' = [codex EXCEPT ![p].at = "running", ![p].before = rollouts]
        /\ UNCHANGED <<codexFiles, handoffs, claudeFiles, claude>>
    BY DEF StartCodex
  <1>2. PICK was \in CodexRuns : was = codex[p]
    BY CodexFacts
  <1>3. PICK run : run = [was EXCEPT !.at = "running", !.before = rollouts]
    OBVIOUS
  <1>4. codex' = [codex EXCEPT ![p] = run]
    BY Zenon, <1>1, <1>2, <1>3
  <1>5. run = [at |-> "running", copy |-> was.copy, before |-> rollouts, native |-> was.native]
    BY <1>3 DEF CodexRuns
  <1>6. /\ run \in CodexRuns /\ run.at = "running" /\ run.copy = codex[p].copy
        /\ run.before = rollouts /\ run.native <= Len(rollouts)
    BY <1>2, <1>5, CodexFacts, NamesWithin DEF CodexRuns, CodexStages
  <1>7. codex'[p] = run
    BY <1>4 DEF NativeInv, CodexTyped
  <1>8. Active(p) /\ rollouts' = rollouts /\ bindings' = bindings
    BY <1>1 DEF Active, codexFiles
  <1>9. ChangedSince(p)' = {}
    <2>1. \A n \in DOMAIN rollouts : rollouts[n].time \in Nat
      BY NamesWithin DEF Rollouts
    <2> QED
      BY <1>6, <1>7, <1>8, <2>1 DEF ChangedSince
  <1>10. RunIsApart(p) => RunIsApart(p)'
    BY <1>6, <1>7, <1>8, <1>9 DEF RunIsApart, OwnChanges
  <1> QED
    BY <1>1, <1>4, <1>6, <1>8, <1>10, RunGoesOn

\* A run whose Codex has exited, or that has ended or left Codex behind.
LEMMA RunLeaves ==
  ASSUME NativeInv, NEW p \in CodexLaunches, NEW at \in {"exited", "orphaned", "done"},
         codex' = [codex EXCEPT ![p].at = at],
         UNCHANGED <<codexFiles, handoffs, claudeFiles, claude>>,
         at = "exited" => codex[p].at = "running"
  PROVE  NativeInv'
  <1>1. PICK was \in CodexRuns : was = codex[p]
    BY CodexFacts
  <1>2. PICK run : run = [was EXCEPT !.at = at]
    OBVIOUS
  <1>3. codex' = [codex EXCEPT ![p] = run]
    BY Zenon, <1>1, <1>2
  <1>4. run = [at |-> at, copy |-> was.copy, before |-> was.before, native |-> was.native]
    BY <1>2 DEF CodexRuns
  <1>5. /\ run \in CodexRuns /\ run.at = at /\ run.copy = codex[p].copy
        /\ run.before = codex[p].before /\ run.native <= Len(rollouts)
    BY <1>1, <1>4, NamesWithin DEF CodexRuns, CodexStages
  <1>6. codex'[p] = run
    BY <1>3 DEF NativeInv, CodexTyped
  <1>7. run.at \notin {"new", "done", "orphaned"} => Active(p)
    BY <1>5 DEF Active
  <1>8. rollouts' = rollouts /\ bindings' = bindings
    BY DEF codexFiles
  <1>9. RunIsApart(p) => RunIsApart(p)'
    <2>1. CASE at = "exited"
      BY <1>5, <1>6, <1>8, <2>1 DEF RunIsApart, Active, Watching, OwnChanges, ChangedSince, Session
    <2>2. CASE at # "exited"
      BY <1>5, <1>6, <2>2 DEF RunIsApart, Active
    <2> QED
      BY <2>1, <2>2
  <1> QED
    BY <1>3, <1>5, <1>7, <1>9, RunGoesOn

LEMMA CodexExitsKeeps ==
  ASSUME NativeInv, NEW p \in CodexLaunches, CodexExits(p) PROVE NativeInv'
  <1>1. PICK at \in {"exited", "orphaned", "done"} :
          /\ at = IF codex[p].at = "running" THEN "exited" ELSE "done"
          /\ at = "exited" => codex[p].at = "running"
    OBVIOUS
  <1>2. codex' = [codex EXCEPT ![p].at = at] /\ UNCHANGED <<codexFiles, handoffs, claudeFiles, claude>>
    BY <1>1 DEF CodexExits
  <1> QED
    BY <1>1, <1>2, RunLeaves

LEMMA CodexKilledKeeps ==
  ASSUME NativeInv, NEW p \in CodexLaunches, CodexKilled(p) PROVE NativeInv'
  <1>1. PICK at \in {"exited", "orphaned", "done"} :
          /\ at = IF codex[p].at = "running" THEN "orphaned" ELSE "done"
          /\ at = "exited" => codex[p].at = "running"
    OBVIOUS
  <1>2. codex' = [codex EXCEPT ![p].at = at] /\ UNCHANGED <<codexFiles, handoffs, claudeFiles, claude>>
    BY <1>1 DEF CodexKilled
  <1> QED
    BY <1>1, <1>2, RunLeaves

\* A turn adds to one conversation and takes nothing from any.
LEMMA TurnAdds ==
  ASSUME NativeInv, NEW n \in 1 .. Len(rollouts) + 1, NEW users \in SUBSET WeftSessions, Turn(n, users)
  PROVE  /\ rollouts' \in Seq(Rollouts) /\ turned' \in Nat /\ Len(rollouts) <= Len(rollouts')
         /\ \A m \in DOMAIN rollouts : m \in DOMAIN rollouts' /\ rollouts[m].of \subseteq rollouts'[m].of
         /\ \A m \in DOMAIN rollouts' : m # n => m \in DOMAIN rollouts /\ rollouts'[m] = rollouts[m]
         /\ n \in DOMAIN rollouts' /\ users \subseteq rollouts'[n].of
  <1>1. PICK files \in Seq(Rollouts) : files = rollouts
    BY DEF NativeInv, CodexTyped
  <1>2. turned' \in Nat
    BY DEF Turn, NativeInv, CodexTyped
  <1>3. PICK moment \in Nat : moment = turned'
    BY <1>2
  <1>4. CASE n \in DOMAIN rollouts
    <2>1. PICK old \in Rollouts : old = files[n]
      BY <1>1, <1>4
    <2>2. PICK new : new = [turns |-> old.turns + 1, time |-> moment, of |-> old.of \cup users]
      OBVIOUS
    <2>3. new \in Rollouts /\ new.of = old.of \cup users
      BY <2>2 DEF Rollouts
    <2>4. PICK changed : changed = [files EXCEPT ![n] = new]
      OBVIOUS
    <2>5. rollouts' = changed
      BY <1>1, <1>3, <1>4, <2>1, <2>2, <2>4 DEF Turn
    <2>6. /\ changed \in Seq(Rollouts) /\ Len(changed) = Len(files)
          /\ DOMAIN changed = DOMAIN files /\ changed[n] = new
          /\ \A m \in DOMAIN files \ {n} : changed[m] = files[m]
          /\ Len(files) \in Nat
      BY <1>1, <1>4, <2>3, <2>4
    <2> QED
      BY <1>1, <1>2, <1>4, <2>1, <2>3, <2>5, <2>6
  <1>5. CASE n \notin DOMAIN rollouts
    <2>1. PICK new : new = [turns |-> 1, time |-> moment, of |-> users]
      OBVIOUS
    <2>2. new \in Rollouts /\ new.of = users
      BY <2>1 DEF Rollouts
    <2>3. rollouts' = Append(files, new)
      BY <1>1, <1>3, <1>5, <2>1 DEF Turn
    <2>4. /\ Append(files, new) \in Seq(Rollouts) /\ Len(Append(files, new)) = Len(files) + 1
          /\ Len(files) \in Nat /\ DOMAIN files = 1 .. Len(files)
          /\ DOMAIN Append(files, new) = 1 .. Len(files) + 1
          /\ \A m \in 1 .. Len(files) : Append(files, new)[m] = files[m]
          /\ Append(files, new)[Len(files) + 1] = new
      BY <2>2
    <2>5. n = Len(files) + 1
      BY <1>1, <1>5, <2>4
    <2> QED
      BY <1>1, <1>2, <2>2, <2>3, <2>4, <2>5
  <1> QED
    BY <1>4, <1>5

\* A turn in peace is of a Session for which Codex was started, if a run will
\* look for it.
LEMMA TurnKeeps ==
  ASSUME NativeInv, NEW n \in 1 .. Len(rollouts) + 1, NEW users \in SUBSET WeftSessions, Turn(n, users),
         disturbedBy' \subseteq Disturbers,
         disturbedBy' = {} =>
           /\ disturbedBy = {}
           /\ \A r \in CodexLaunches : Watching(r) => Session(r) \in users
  PROVE  NativeInv'
  <1>1. /\ UNCHANGED <<bindings, lastBound, handoffs>> /\ codex' = codex /\ claude' = claude
        /\ claudeState' = claudeState /\ transcripts' = transcripts
    BY DEF Turn, claudeFiles
  <1>2. /\ rollouts' \in Seq(Rollouts) /\ turned' \in Nat /\ Len(rollouts) <= Len(rollouts')
        /\ \A m \in DOMAIN rollouts : m \in DOMAIN rollouts' /\ rollouts[m].of \subseteq rollouts'[m].of
        /\ \A m \in DOMAIN rollouts' : m # n => m \in DOMAIN rollouts /\ rollouts'[m] = rollouts[m]
        /\ n \in DOMAIN rollouts' /\ users \subseteq rollouts'[n].of
    BY TurnAdds
  <1>3. CodexTyped'
    BY <1>1, <1>2 DEF NativeInv, CodexTyped
  <1>4. \A m \in CodexNames : m <= Len(rollouts) =>
          /\ m <= Len(rollouts')
          /\ m \in DOMAIN rollouts' => m \in DOMAIN rollouts
    <2>1. /\ Len(rollouts) \in Nat /\ Len(rollouts') \in Nat
          /\ DOMAIN rollouts = 1 .. Len(rollouts) /\ DOMAIN rollouts' = 1 .. Len(rollouts')
      BY <1>2 DEF NativeInv, CodexTyped
    <2> QED
      BY <1>2, <2>1, NamesAreIntegers
  <1>5. \A s \in WeftSessions :
          /\ bindings[s] \in CodexNames /\ lastBound[s] \in CodexNames /\ handoffs[s].from \in CodexNames
    BY DEF NativeInv, CodexTyped, Handoffs
  <1>6. \A p \in CodexLaunches :
          /\ codex[p].native \in CodexNames
          /\ \A s \in WeftSessions : codex[p].copy[s] \in CodexNames
    BY DEF NativeInv, CodexTyped, CodexRuns, CodexNames
  <1>7. NamesExist'
    BY <1>1, <1>4, <1>5, <1>6 DEF NativeInv, NamesExist
  <1>8. ASSUME disturbedBy' = {} PROVE Apart'
    <2>1. /\ ConversationsApart /\ \A p \in CodexLaunches : RunIsApart(p)
          /\ \A p, q \in CodexLaunches : Active(p) /\ Active(q) => p = q
      BY <1>8 DEF NativeInv, Apart
    <2>2. ConversationsApart'
      <3>1. bindings' = lastBound'
        BY <1>1, <2>1 DEF ConversationsApart
      <3>2. ASSUME NEW s \in WeftSessions
            PROVE  /\ bindings'[s] \in DOMAIN rollouts' => s \in rollouts'[bindings'[s]].of
                   /\ handoffs'[s].from \in DOMAIN rollouts' => s \in rollouts'[handoffs'[s].from].of
        <4>1. /\ bindings[s] \in DOMAIN rollouts' => bindings[s] \in DOMAIN rollouts
              /\ handoffs[s].from \in DOMAIN rollouts' => handoffs[s].from \in DOMAIN rollouts
          BY <1>4, <1>5, NamesWithin
        <4> QED
          BY <1>1, <1>2, <2>1, <4>1 DEF ConversationsApart
      <3> QED
        BY <3>1, <3>2 DEF ConversationsApart
    <2>3. ASSUME NEW p \in CodexLaunches, Active(p)
          PROVE  /\ codex[p].copy = bindings
                 /\ Watching(p) => OwnChanges(p)'
                 /\ codex[p].at = "found" =>
                      codex[p].native \in DOMAIN rollouts' /\ Session(p) \in rollouts'[codex[p].native].of
      <3>1. RunIsApart(p)
        BY <2>1
      <3>2. ASSUME Watching(p), NEW m \in ChangedSince(p)' PROVE Session(p) \in rollouts'[m].of
        <4>1. m \in DOMAIN rollouts' /\ (m \in DOMAIN codex[p].before => rollouts'[m].time > codex[p].before[m].time)
          BY <1>1, <3>2 DEF ChangedSince
        <4>2. CASE m = n
          BY <1>2, <1>8, <3>2, <4>2
        <4>3. CASE m # n
          <5>1. m \in ChangedSince(p)
            BY <1>2, <4>1, <4>3 DEF ChangedSince
          <5> QED
            BY <1>2, <2>3, <3>1, <3>2, <4>1, <4>3, <5>1 DEF RunIsApart, OwnChanges
        <4> QED
          BY <4>2, <4>3
      <3> QED
        BY <1>2, <2>3, <3>1, <3>2 DEF RunIsApart, OwnChanges, Session
    <2>4. \A p \in CodexLaunches : RunIsApart(p)' /\ (Active(p)' <=> Active(p))
      BY <1>1, <2>3 DEF RunIsApart, Active, Watching, Session
    <2> QED
      BY <2>1, <2>2, <2>4 DEF Apart
  <1>9. Apart'
    BY <1>8 DEF Apart
  <1> QED
    BY <1>1, <1>3, <1>7, <1>9 DEF NativeInv, ClaudeTyped, StateIsTrue, Session

LEMMA CodexTurnKeeps ==
  ASSUME NativeInv, NEW p \in CodexLaunches, NEW n \in 1 .. Len(rollouts) + 1, CodexTurn(p, n)
  PROVE  NativeInv'
  <1>1. PICK users \in SUBSET WeftSessions : users = {Session(p)}
    BY CodexFacts
  <1>2. Turn(n, users) /\ disturbedBy' = disturbedBy /\ Active(p)
    BY <1>1 DEF CodexTurn, Active
  <1>3. ASSUME disturbedBy' = {}, NEW r \in CodexLaunches, Watching(r) PROVE Session(r) \in users
    <2>1. Active(r)
      BY <1>3 DEF Watching, Active
    <2>2. r = p
      BY <1>2, <1>3, <2>1, AloneWhileActive
    <2> QED
      BY <1>1, <2>2
  <1>4. disturbedBy' \subseteq Disturbers
    BY <1>2, CodexFacts
  <1> QED
    BY <1>2, <1>3, <1>4, TurnKeeps

LEMMA StrayTurnKeeps ==
  ASSUME NativeInv, NEW n \in 1 .. Len(rollouts) + 1, NEW users \in StrayUsers, StrayTurn(n, users)
  PROVE  NativeInv'
  <1>1. users \in SUBSET WeftSessions
    BY LaunchAssumption DEF StrayUsers, Session
  <1>2. Turn(n, users)
        /\ disturbedBy' = IF \E r \in CodexLaunches : Watching(r) THEN disturbedBy \cup {"codex"}
                          ELSE disturbedBy
    BY DEF StrayTurn
  <1>3. disturbedBy' \subseteq Disturbers
    BY <1>2 DEF Disturbers, NativeInv, CodexTyped
  <1>4. disturbedBy' = {} => disturbedBy = {} /\ \A r \in CodexLaunches : ~Watching(r)
    BY <1>2
  <1> QED
    BY <1>1, <1>2, <1>3, <1>4, TurnKeeps

\* upsert writes the copy back with one binding of the run's own Session.
LEMMA UpsertKeeps ==
  ASSUME NativeInv, NEW p \in CodexLaunches, Active(p), NEW n \in CodexNames, n <= Len(rollouts),
         Upsert(p, n),
         rollouts' \in Seq(Rollouts), Len(rollouts') = Len(rollouts),
         DOMAIN rollouts' = DOMAIN rollouts,
         \A m \in DOMAIN rollouts : rollouts[m].of \subseteq rollouts'[m].of,
         disturbedBy = {} /\ n \in DOMAIN rollouts => Session(p) \in rollouts'[n].of,
         UNCHANGED <<turned, disturbedBy, handoffs, claudeFiles, claude>>
  PROVE  NativeInv'
  <1>1. PICK was \in CodexRuns : was = codex[p]
    BY CodexFacts
  <1>2. PICK copy \in [WeftSessions -> CodexNames] : copy = [was.copy EXCEPT ![Session(p)] = n]
    BY DEF CodexRuns
  <1>3. PICK at \in {"linked", "done"} : at = IF codex[p].at = "loaded" THEN "linked" ELSE "done"
    OBVIOUS
  <1>4. codex' = [codex EXCEPT ![p].copy = copy, ![p].at = at]
    BY Zenon, <1>1, <1>2, <1>3 DEF Upsert, Put
  <1>5. PICK run : run = [was EXCEPT !.copy = copy, !.at = at]
    OBVIOUS
  <1>6. codex' = [codex EXCEPT ![p] = run]
    BY Zenon, <1>1, <1>4, <1>5
  <1>7. run = [at |-> at, copy |-> copy, before |-> was.before, native |-> was.native]
    BY <1>5 DEF CodexRuns
  <1>8. run \in CodexRuns /\ run.at = at /\ run.copy = copy /\ run.native = codex[p].native
    BY <1>1, <1>7 DEF CodexRuns, CodexStages
  <1>9. codex'[p] = run
    BY <1>6 DEF NativeInv, CodexTyped
  <1>10. bindings' = copy /\ lastBound' = [lastBound EXCEPT ![Session(p)] = n]
    BY <1>8, <1>9 DEF Upsert, Put
  <1>11. lastBound \in [WeftSessions -> CodexNames] /\ Session(p) \in WeftSessions
         /\ turned \in Nat /\ disturbedBy \subseteq Disturbers /\ handoffs \in [WeftSessions -> Handoffs]
    BY CodexFacts
  <1>12. \A s \in WeftSessions :
           /\ copy[s] = IF s = Session(p) THEN n ELSE was.copy[s]
           /\ lastBound'[s] = IF s = Session(p) THEN n ELSE lastBound[s]
    BY <1>2, <1>10, <1>11 DEF CodexRuns
  <1>13. ASSUME disturbedBy' = {}
         PROVE  ConversationsApart' /\ RunIsApart(p)' /\ \A q \in CodexLaunches \ {p} : ~Active(q)
    <2>1. ConversationsApart /\ was.copy = bindings /\ \A q \in CodexLaunches \ {p} : ~Active(q)
      BY <1>1, <1>13, AloneWhileActive
    <2>2. bindings' = lastBound'
      BY <1>1, <1>2, <1>10, <2>1 DEF ConversationsApart
    <2>3. ASSUME NEW s \in WeftSessions
          PROVE  /\ bindings'[s] \in DOMAIN rollouts' => s \in rollouts'[bindings'[s]].of
                 /\ handoffs'[s].from \in DOMAIN rollouts' => s \in rollouts'[handoffs'[s].from].of
      <3>1. bindings'[s] = IF s = Session(p) THEN n ELSE bindings[s]
        BY <1>10, <1>12, <2>1
      <3>2. CASE s = Session(p)
        BY <1>13, <2>1, <3>1, <3>2 DEF ConversationsApart
      <3>3. CASE s # Session(p)
        BY <2>1, <3>1, <3>3 DEF ConversationsApart
      <3> QED
        BY <3>2, <3>3
    <2>4. ConversationsApart'
      BY <2>2, <2>3 DEF ConversationsApart
    <2>5. RunIsApart(p)'
      BY <1>8, <1>9, <1>10 DEF RunIsApart, Watching
    <2> QED
      BY <2>1, <2>4, <2>5
  <1>14. Len(rollouts) = Len(rollouts') /\ run.native <= Len(rollouts')
         /\ \A s \in WeftSessions :
              /\ run.copy[s] <= Len(rollouts') /\ bindings'[s] <= Len(rollouts')
              /\ lastBound'[s] <= Len(rollouts') /\ handoffs'[s].from <= Len(rollouts')
    <2>1. \A s \in WeftSessions : was.copy[s] <= Len(rollouts)
      BY <1>1, NamesWithin
    <2>2. \A s \in WeftSessions : copy[s] <= Len(rollouts') /\ lastBound'[s] <= Len(rollouts')
      BY <1>12, <2>1, NamesWithin
    <2> QED
      BY <1>8, <1>10, <2>2, NamesWithin
  <1>15. /\ bindings' \in [WeftSessions -> CodexNames] /\ lastBound' \in [WeftSessions -> CodexNames]
         /\ turned' \in Nat /\ disturbedBy' \subseteq Disturbers /\ handoffs' \in [WeftSessions -> Handoffs]
    BY <1>10, <1>11
  <1>16. UNCHANGED <<claudeFiles, claude>>
    OBVIOUS
  <1> QED
    BY <1>6, <1>8, <1>13, <1>14, <1>15, <1>16, CodexMoves

LEMMA LinkNativeKeeps ==
  ASSUME NativeInv, NEW p \in CodexLaunches, NEW n \in DOMAIN rollouts \cup {Unknown}, LinkNative(p, n)
  PROVE  NativeInv'
  <1>1. /\ codex[p].at = "loaded" /\ Upsert(p, n)
        /\ rollouts' = IF n = Unknown THEN rollouts
                       ELSE [rollouts EXCEPT ![n].of = @ \cup {Session(p)}]
        /\ UNCHANGED <<turned, disturbedBy, handoffs, claudeFiles, claude>>
    BY DEF LinkNative
  <1>2. PICK files \in Seq(Rollouts) : files = rollouts
    BY DEF NativeInv, CodexTyped
  <1>3. Active(p) /\ Unknown \notin DOMAIN rollouts
    BY <1>1, NamesWithin DEF Active, Unknown
  <1>4. n \in CodexNames /\ n <= Len(rollouts)
    BY NamesWithin DEF CodexNames, Unknown
  <1>5. CASE n = Unknown
    <2>1. rollouts' = files
      BY <1>1, <1>2, <1>5
    <2>2. /\ rollouts' \in Seq(Rollouts) /\ Len(rollouts') = Len(rollouts)
          /\ DOMAIN rollouts' = DOMAIN rollouts
          /\ \A m \in DOMAIN rollouts : rollouts[m].of \subseteq rollouts'[m].of
      BY <1>2, <2>1
    <2> QED
      BY <1>1, <1>3, <1>4, <1>5, <2>2, UpsertKeeps
  <1>6. CASE n # Unknown
    <2>1. n \in DOMAIN files
      BY <1>2, <1>6
    <2>2. PICK old \in Rollouts : old = files[n]
      BY <2>1
    <2>3. PICK new : new = [old EXCEPT !.of = @ \cup {Session(p)}]
      OBVIOUS
    <2>4. new = [turns |-> old.turns, time |-> old.time, of |-> old.of \cup {Session(p)}]
      BY <2>3 DEF Rollouts
    <2>5. new \in Rollouts /\ new.of = old.of \cup {Session(p)}
      BY <2>4, CodexFacts DEF Rollouts
    <2>6. PICK changed : changed = [files EXCEPT ![n] = new]
      OBVIOUS
    <2>7. rollouts' = changed
      BY Zenon, <1>1, <1>2, <1>6, <2>2, <2>3, <2>6
    <2>8. /\ changed \in Seq(Rollouts) /\ Len(changed) = Len(files)
          /\ DOMAIN changed = DOMAIN files /\ changed[n] = new
          /\ \A m \in DOMAIN files \ {n} : changed[m] = files[m]
      BY <2>1, <2>5, <2>6
    <2>9. /\ rollouts' \in Seq(Rollouts) /\ Len(rollouts') = Len(rollouts)
          /\ DOMAIN rollouts' = DOMAIN rollouts
          /\ \A m \in DOMAIN rollouts : rollouts[m].of \subseteq rollouts'[m].of
          /\ Session(p) \in rollouts'[n].of
      BY <1>2, <2>2, <2>5, <2>7, <2>8
    <2> QED
      BY <1>1, <1>3, <1>4, <2>9, UpsertKeeps
  <1> QED
    BY <1>5, <1>6

LEMMA BindCodexKeeps ==
  ASSUME NativeInv, NEW p \in CodexLaunches, BindCodex(p) PROVE NativeInv'
  <1>1. /\ codex[p].at = "found" /\ Upsert(p, codex[p].native)
        /\ UNCHANGED <<rollouts, turned, disturbedBy, handoffs, claudeFiles, claude>>
    BY DEF BindCodex
  <1>2. codex[p].native \in CodexNames
    BY DEF NativeInv, CodexTyped, CodexRuns, CodexNames
  <1>3. PICK n \in CodexNames : n = codex[p].native
    BY <1>2
  <1>4. n <= Len(rollouts) /\ Upsert(p, n)
    BY <1>1, <1>3, NamesWithin
  <1>5. Active(p)
    BY <1>1 DEF Active
  <1>6. disturbedBy = {} => Session(p) \in rollouts'[n].of
    BY <1>1, <1>3, <1>5, AloneWhileActive DEF RunIsApart
  <1>7. /\ rollouts' \in Seq(Rollouts) /\ Len(rollouts') = Len(rollouts)
        /\ DOMAIN rollouts' = DOMAIN rollouts
        /\ \A m \in DOMAIN rollouts : rollouts[m].of \subseteq rollouts'[m].of
    BY <1>1 DEF NativeInv, CodexTyped
  <1>8. UNCHANGED <<turned, disturbedBy, handoffs, claudeFiles, claude>>
    BY <1>1
  <1> QED
    BY <1>4, <1>5, <1>6, <1>7, <1>8, UpsertKeeps

\* What a run finds exists; in peace, it is of the run's Session.
LEMMA FoundIsOwn ==
  ASSUME NativeInv, NEW p \in CodexLaunches, codex[p].at = "exited", NEW n \in Found(p)
  PROVE  /\ n \in DOMAIN rollouts
         /\ disturbedBy = {} => Session(p) \in rollouts[n].of
  <1>1. Active(p) /\ Watching(p) /\ Session(p) \in WeftSessions
    BY CodexFacts DEF Active, Watching
  <1>2. CASE codex[p].copy[Session(p)] \in DOMAIN rollouts
    <2>1. n = codex[p].copy[Session(p)]
      BY <1>2 DEF Found
    <2> QED
      BY <1>1, <1>2, <2>1, AloneWhileActive DEF ConversationsApart
  <1>3. CASE codex[p].copy[Session(p)] \notin DOMAIN rollouts
    <2>1. n \in ChangedSince(p)
      BY <1>3 DEF Found
    <2>2. n \in DOMAIN rollouts
      BY <2>1 DEF ChangedSince
    <2> QED
      BY <1>1, <2>1, <2>2, AloneWhileActive DEF RunIsApart, OwnChanges
  <1> QED
    BY <1>2, <1>3

\* The handoff of a Codex session, known here or not.
LEMMA HandoffIsTyped ==
  ASSUME NativeInv, NEW n \in CodexNames
  PROVE  HandoffOf(n) \in Handoffs /\ HandoffOf(n).from = n
  <1>1. \A m \in DOMAIN rollouts : rollouts[m].turns \in Nat
    BY NamesWithin DEF Rollouts
  <1> QED
    BY <1>1 DEF HandoffOf, Handoffs

LEMMA HandOffCodexKeeps ==
  ASSUME NativeInv, NEW p \in CodexLaunches, HandOffCodex(p) PROVE NativeInv'
  <1>1. codex[p].at = "exited" /\ UNCHANGED <<codexFiles, claudeFiles, claude>>
    BY DEF HandOffCodex
  <1>2. Active(p)
    BY <1>1 DEF Active
  <1>3. CASE codex' = [codex EXCEPT ![p].at = "done"] /\ UNCHANGED handoffs
    BY <1>1, <1>3, RunLeaves
  <1>4. ASSUME NEW n \in Found(p),
               codex' = [codex EXCEPT ![p].at = "found", ![p].native = n],
               handoffs' \in {handoffs, Put(handoffs, Session(p), HandoffOf(n))}
        PROVE  NativeInv'
    <2>1. n \in DOMAIN rollouts /\ (disturbedBy = {} => Session(p) \in rollouts[n].of)
      BY <1>1, FoundIsOwn
    <2>2. n \in Nat /\ n <= Len(rollouts) /\ n \in CodexNames
      BY <2>1, NamesWithin DEF CodexNames
    <2>3. PICK was \in CodexRuns : was = codex[p]
      BY CodexFacts
    <2>4. PICK run : run = [was EXCEPT !.at = "found", !.native = n]
      OBVIOUS
    <2>5. codex' = [codex EXCEPT ![p] = run]
      BY Zenon, <1>4, <2>3, <2>4
    <2>6. run = [at |-> "found", copy |-> was.copy, before |-> was.before, native |-> n]
      BY <2>4 DEF CodexRuns
    <2>7. run \in CodexRuns /\ run.at = "found" /\ run.copy = was.copy /\ run.native = n
      BY <2>2, <2>6 DEF CodexRuns, CodexStages
    <2>8. codex'[p] = run
      BY <2>5 DEF NativeInv, CodexTyped
    <2>9. UNCHANGED <<bindings, rollouts, turned, lastBound, disturbedBy>>
      BY <1>1 DEF codexFiles
    <2>10. handoffs \in [WeftSessions -> Handoffs] /\ Session(p) \in WeftSessions
      BY CodexFacts
    <2>11. PICK handoff \in Handoffs : handoff = HandoffOf(n) /\ handoff.from = n
      <3>1. HandoffOf(n) \in Handoffs /\ HandoffOf(n).from = n
        BY <2>2, HandoffIsTyped
      <3> QED
        BY <3>1
    <2>12. handoffs' \in [WeftSessions -> Handoffs]
           /\ \A s \in WeftSessions : handoffs'[s] = handoffs[s] \/ (s = Session(p) /\ handoffs'[s].from = n)
      <3>1. CASE handoffs' = handoffs
        BY <2>10, <3>1
      <3>2. CASE handoffs' = [handoffs EXCEPT ![Session(p)] = handoff]
        BY <2>10, <2>11, <3>2
      <3> QED
        BY <1>4, <2>11, <3>1, <3>2 DEF Put
    <2>13. ASSUME disturbedBy' = {}
           PROVE  ConversationsApart' /\ RunIsApart(p)' /\ \A q \in CodexLaunches \ {p} : ~Active(q)
      <3>1. /\ disturbedBy = {} /\ ConversationsApart /\ was.copy = bindings
            /\ \A q \in CodexLaunches \ {p} : ~Active(q)
        BY <1>2, <2>3, <2>9, <2>13, AloneWhileActive
      <3>2. ConversationsApart'
        BY <2>1, <2>9, <2>12, <3>1 DEF ConversationsApart
      <3>3. RunIsApart(p)'
        BY <2>1, <2>7, <2>8, <2>9, <3>1 DEF RunIsApart, Watching, Session
      <3> QED
        BY <3>1, <3>2, <3>3
    <2>14. Len(rollouts) = Len(rollouts') /\ run.native <= Len(rollouts')
           /\ \A s \in WeftSessions :
                /\ run.copy[s] <= Len(rollouts') /\ bindings'[s] <= Len(rollouts')
                /\ lastBound'[s] <= Len(rollouts') /\ handoffs'[s].from <= Len(rollouts')
      BY <2>2, <2>3, <2>7, <2>9, <2>12, NamesWithin
    <2>15. /\ bindings' \in [WeftSessions -> CodexNames] /\ lastBound' \in [WeftSessions -> CodexNames]
           /\ rollouts' \in Seq(Rollouts) /\ turned' \in Nat /\ disturbedBy' \subseteq Disturbers
      BY <2>9 DEF NativeInv, CodexTyped
    <2> QED
      BY <1>1, <2>5, <2>7, <2>12, <2>13, <2>14, <2>15, CodexMoves
  <1> QED
    BY <1>3, <1>4 DEF HandOffCodex

-----------------------------------------------------------------------------
\* A run of sw-claude moves, and with it what it has written.
LEMMA ClaudeMoves ==
  ASSUME NativeInv, NEW q \in ClaudeLaunches, NEW run \in ClaudeRuns,
         claude' = [claude EXCEPT ![q] = run], UNCHANGED <<codexFiles, codex>>,
         handoffs' \in [WeftSessions -> Handoffs],
         claudeState' \in [WeftSessions -> ClaudeStates],
         transcripts' \in Seq(Transcripts), Len(transcripts) <= Len(transcripts'),
         \A i \in DOMAIN transcripts : transcripts'[i] = transcripts[i],
         StateIsTrue(run.state, Session(q))',
         \A s \in WeftSessions :
           /\ claudeState'[s] = claudeState[s] \/ StateIsTrue(claudeState[s], s)'
           /\ \/ handoffs'[s] = handoffs[s]
              \/ /\ handoffs'[s].from <= Len(rollouts)
                 /\ disturbedBy = {} /\ handoffs'[s].from \in DOMAIN rollouts =>
                       s \in rollouts[handoffs'[s].from].of
  PROVE  NativeInv'
  <1>1. claude' \in [ClaudeLaunches -> ClaudeRuns] /\ claude'[q] = run
        /\ \A r \in ClaudeLaunches \ {q} : claude'[r] = claude[r]
    BY DEF NativeInv, ClaudeTyped
  <1>2. UNCHANGED <<bindings, rollouts, turned, lastBound, disturbedBy>> /\ codex' = codex
    BY DEF codexFiles
  <1>3. CodexTyped' /\ ClaudeTyped'
    BY <1>1, <1>2 DEF NativeInv, CodexTyped, ClaudeTyped
  <1>4. NamesExist'
    BY <1>2 DEF NativeInv, NamesExist
  <1>5. ASSUME NEW state \in ClaudeStates, NEW s \in WeftSessions, StateIsTrue(state, s)
        PROVE  StateIsTrue(state, s)'
    <2>1. state.native \in Nat /\ Len(transcripts) \in Nat /\ Len(transcripts') \in Nat
          /\ DOMAIN transcripts = 1 .. Len(transcripts)
      BY DEF ClaudeStates, NativeInv, ClaudeTyped
    <2>2. ASSUME state.native # 0
          PROVE  state.native <= Len(transcripts')
                 /\ transcripts'[state.native] = [imported |-> state.imported, of |-> s]
      <3>1. state.native <= Len(transcripts)
            /\ transcripts[state.native] = [imported |-> state.imported, of |-> s]
        BY <1>5, <2>2 DEF StateIsTrue
      <3>2. state.native \in DOMAIN transcripts /\ state.native <= Len(transcripts')
        BY <2>1, <2>2, <3>1
      <3> QED
        BY <3>1, <3>2
    <2> QED
      BY <2>2 DEF StateIsTrue
  <1>6. ASSUME NEW s \in WeftSessions PROVE StateIsTrue(claudeState[s], s)'
    <2>1. PICK state \in ClaudeStates : state = claudeState[s]
      BY DEF NativeInv, ClaudeTyped
    <2>2. StateIsTrue(state, s)'
      BY <1>5, <2>1 DEF NativeInv
    <2>3. CASE claudeState'[s] = claudeState[s]
      BY <2>1, <2>2, <2>3 DEF StateIsTrue
    <2> QED
      BY <2>3
  <1>7. ASSUME NEW r \in ClaudeLaunches PROVE StateIsTrue(claude[r].state, Session(r))'
    <2>1. CASE r = q
      BY <1>1, <2>1 DEF StateIsTrue, Session
    <2>2. CASE r # q
      <3>1. PICK state \in ClaudeStates : state = claude[r].state
        BY DEF NativeInv, ClaudeTyped, ClaudeRuns
      <3>2. PICK s \in WeftSessions : s = Session(r)
        BY LaunchAssumption DEF Session
      <3>3. StateIsTrue(state, s)'
        BY <1>5, <3>1, <3>2 DEF NativeInv
      <3> QED
        BY <1>1, <2>2, <3>1, <3>2, <3>3 DEF StateIsTrue, Session
    <2> QED
      BY <2>1, <2>2
  <1>8. Apart'
    <2> SUFFICES ASSUME disturbedBy' = {} PROVE Apart'
      BY DEF Apart
    <2>1. /\ disturbedBy = {} /\ ConversationsApart /\ \A p \in CodexLaunches : RunIsApart(p)
          /\ \A p, r \in CodexLaunches : Active(p) /\ Active(r) => p = r
      BY <1>2 DEF NativeInv, Apart
    <2>2. ConversationsApart'
      BY <1>2, <2>1 DEF ConversationsApart
    <2>3. \A p \in CodexLaunches : RunIsApart(p)'
      BY <1>2, <2>1 DEF RunIsApart, OwnChanges, ChangedSince, Active, Watching, Session
    <2>4. \A p, r \in CodexLaunches : Active(p)' /\ Active(r)' => p = r
      BY <1>2, <2>1 DEF Active
    <2> QED
      BY <2>2, <2>3, <2>4 DEF Apart
  <1> QED
    BY <1>3, <1>4, <1>6, <1>7, <1>8 DEF NativeInv

\* What is known of a run of sw-claude.
LEMMA ClaudeFacts ==
  ASSUME NativeInv, NEW q \in ClaudeLaunches
  PROVE  \E was \in ClaudeRuns :
           /\ was = claude[q] /\ Session(q) \in WeftSessions
           /\ was = [at |-> was.at, handoff |-> was.handoff, state |-> was.state]
           /\ was.handoff \in Handoffs /\ was.state \in ClaudeStates
           /\ StateIsTrue(was.state, Session(q))
  <1>1. PICK was \in ClaudeRuns : was = claude[q]
    BY DEF NativeInv, ClaudeTyped
  <1>2. Session(q) \in WeftSessions
    BY LaunchAssumption DEF Session
  <1>3. /\ was = [at |-> was.at, handoff |-> was.handoff, state |-> was.state]
        /\ was.handoff \in Handoffs /\ was.state \in ClaudeStates
    BY DEF ClaudeRuns
  <1>4. StateIsTrue(was.state, Session(q))
    BY <1>1 DEF NativeInv
  <1> QED
    BY <1>1, <1>2, <1>3, <1>4

\* A run of sw-claude goes on and writes nothing of Claude's.
LEMMA ClaudeGoesOn ==
  ASSUME NativeInv, NEW q \in ClaudeLaunches, NEW run \in ClaudeRuns,
         claude' = [claude EXCEPT ![q] = run], UNCHANGED <<codexFiles, claudeFiles, codex>>,
         StateIsTrue(run.state, Session(q)),
         handoffs' \in [WeftSessions -> Handoffs],
         \A s \in WeftSessions :
           \/ handoffs'[s] = handoffs[s]
           \/ /\ handoffs'[s].from <= Len(rollouts)
              /\ disturbedBy = {} /\ handoffs'[s].from \in DOMAIN rollouts =>
                       s \in rollouts[handoffs'[s].from].of
  PROVE  NativeInv'
  <1>1. claudeState' = claudeState /\ transcripts' = transcripts
    BY DEF claudeFiles
  <1>2. /\ claudeState' \in [WeftSessions -> ClaudeStates] /\ transcripts' \in Seq(Transcripts)
        /\ Len(transcripts) <= Len(transcripts')
        /\ \A i \in DOMAIN transcripts : transcripts'[i] = transcripts[i]
    BY <1>1 DEF NativeInv, ClaudeTyped
  <1>3. StateIsTrue(run.state, Session(q))'
    BY <1>1 DEF StateIsTrue, Session
  <1>4. UNCHANGED <<codexFiles, codex>>
    OBVIOUS
  <1> QED
    BY <1>1, <1>2, <1>3, <1>4, ClaudeMoves

LEMMA RefreshHandoffKeeps ==
  ASSUME NativeInv, NEW q \in ClaudeLaunches, RefreshHandoff(q) PROVE NativeInv'
  <1>1. /\ claude' = [claude EXCEPT ![q].at = "refreshed"]
        /\ UNCHANGED <<codexFiles, claudeFiles, codex>>
        /\ handoffs' \in {handoffs} \cup
             IF bindings[Session(q)] = 0 THEN {}
             ELSE {Put(handoffs, Session(q), HandoffOf(bindings[Session(q)]))}
    BY DEF RefreshHandoff, ClaudeGoesTo
  <1>2. PICK was \in ClaudeRuns :
          /\ was = claude[q] /\ Session(q) \in WeftSessions
          /\ was = [at |-> was.at, handoff |-> was.handoff, state |-> was.state]
          /\ was.handoff \in Handoffs /\ was.state \in ClaudeStates
          /\ StateIsTrue(was.state, Session(q))
    BY ClaudeFacts
  <1>3. PICK run : run = [was EXCEPT !.at = "refreshed"]
    OBVIOUS
  <1>4. claude' = [claude EXCEPT ![q] = run]
    BY Zenon, <1>1, <1>2, <1>3
  <1>5. run = [at |-> "refreshed", handoff |-> was.handoff, state |-> was.state]
    BY <1>2, <1>3
  <1>6. run \in ClaudeRuns /\ run.state = was.state
    BY <1>2, <1>5 DEF ClaudeRuns, ClaudeStages
  <1>7. handoffs \in [WeftSessions -> Handoffs]
    BY DEF NativeInv, CodexTyped
  <1>8. /\ handoffs' \in [WeftSessions -> Handoffs]
        /\ \A s \in WeftSessions :
             \/ handoffs'[s] = handoffs[s]
             \/ /\ handoffs'[s].from <= Len(rollouts)
                /\ disturbedBy = {} /\ handoffs'[s].from \in DOMAIN rollouts =>
                       s \in rollouts[handoffs'[s].from].of
    <2>1. CASE handoffs' = handoffs
      BY <1>7, <2>1
    <2>2. CASE handoffs' # handoffs
      <3>1. /\ bindings[Session(q)] # 0
            /\ handoffs' = Put(handoffs, Session(q), HandoffOf(bindings[Session(q)]))
        BY <1>1, <2>2
      <3>2. PICK bound \in CodexNames : bound = bindings[Session(q)] /\ bound <= Len(rollouts)
        <4>1. bindings[Session(q)] \in CodexNames /\ bindings[Session(q)] <= Len(rollouts)
          BY <1>2, NamesWithin DEF NativeInv, CodexTyped
        <4> QED
          BY <4>1
      <3>3. PICK handoff \in Handoffs : handoff = HandoffOf(bound) /\ handoff.from = bound
        <4>1. HandoffOf(bound) \in Handoffs /\ HandoffOf(bound).from = bound
          BY HandoffIsTyped
        <4> QED
          BY <4>1
      <3>4. handoffs' = [handoffs EXCEPT ![Session(q)] = handoff]
        BY <3>1, <3>2, <3>3 DEF Put
      <3>5. /\ handoffs' \in [WeftSessions -> Handoffs] /\ handoffs'[Session(q)] = handoff
            /\ \A s \in WeftSessions \ {Session(q)} : handoffs'[s] = handoffs[s]
        BY <1>2, <1>7, <3>4
      <3>6. disturbedBy = {} /\ bound \in DOMAIN rollouts => Session(q) \in rollouts[bound].of
        BY <1>2, <3>2 DEF NativeInv, Apart, ConversationsApart
      <3> QED
        BY <1>2, <3>2, <3>3, <3>5, <3>6
    <2> QED
      BY <2>1, <2>2
  <1>9. UNCHANGED <<codexFiles, claudeFiles, codex>>
    BY <1>1
  <1> QED
    BY <1>2, <1>4, <1>6, <1>8, <1>9, ClaudeGoesOn

LEMMA LoadHandoffKeeps ==
  ASSUME NativeInv, NEW q \in ClaudeLaunches, LoadHandoff(q) PROVE NativeInv'
  <1>1. /\ claude' = [claude EXCEPT ![q].handoff = handoffs[Session(q)],
                        ![q].at = IF handoffs[Session(q)] = NoHandoff THEN "done" ELSE "read"]
        /\ UNCHANGED <<codexFiles, handoffs, claudeFiles, codex>>
    BY DEF LoadHandoff
  <1>2. PICK was \in ClaudeRuns :
          /\ was = claude[q] /\ Session(q) \in WeftSessions
          /\ was = [at |-> was.at, handoff |-> was.handoff, state |-> was.state]
          /\ was.handoff \in Handoffs /\ was.state \in ClaudeStates
          /\ StateIsTrue(was.state, Session(q))
    BY ClaudeFacts
  <1>3. PICK handoff \in Handoffs : handoff = handoffs[Session(q)]
    BY <1>2 DEF NativeInv, CodexTyped
  <1>4. PICK at \in {"done", "read"} : at = IF handoffs[Session(q)] = NoHandoff THEN "done" ELSE "read"
    OBVIOUS
  <1>5. PICK run : run = [was EXCEPT !.handoff = handoff, !.at = at]
    OBVIOUS
  <1>6. claude' = [claude EXCEPT ![q] = run]
    BY Zenon, <1>1, <1>2, <1>3, <1>4, <1>5
  <1>7. run = [at |-> at, handoff |-> handoff, state |-> was.state]
    BY <1>2, <1>5
  <1>8. run \in ClaudeRuns /\ run.state = was.state
    BY <1>2, <1>7 DEF ClaudeRuns, ClaudeStages
  <1>9. handoffs' \in [WeftSessions -> Handoffs] /\ \A s \in WeftSessions : handoffs'[s] = handoffs[s]
    BY <1>1 DEF NativeInv, CodexTyped
  <1>10. UNCHANGED <<codexFiles, claudeFiles, codex>>
    BY <1>1
  <1> QED
    BY <1>2, <1>6, <1>8, <1>9, <1>10, ClaudeGoesOn

LEMMA LoadStateKeeps ==
  ASSUME NativeInv, NEW q \in ClaudeLaunches, LoadState(q) PROVE NativeInv'
  <1>1. PICK was \in ClaudeRuns :
          /\ was = claude[q] /\ Session(q) \in WeftSessions
          /\ was = [at |-> was.at, handoff |-> was.handoff, state |-> was.state]
          /\ was.handoff \in Handoffs /\ was.state \in ClaudeStates
          /\ StateIsTrue(was.state, Session(q))
    BY ClaudeFacts
  <1>2. PICK state \in ClaudeStates : state = claudeState[Session(q)]
    BY <1>1 DEF NativeInv, ClaudeTyped
  <1>3. PICK at \in {"importing", "ready"} : at = IF NeedsImport(q, state) THEN "importing" ELSE "ready"
    OBVIOUS
  <1>4. /\ claude' = [claude EXCEPT ![q].state = state, ![q].at = at]
        /\ UNCHANGED <<codexFiles, handoffs, claudeFiles, codex>>
    BY Zenon, <1>2, <1>3 DEF LoadState
  <1>5. PICK run : run = [was EXCEPT !.state = state, !.at = at]
    OBVIOUS
  <1>6. claude' = [claude EXCEPT ![q] = run]
    BY Zenon, <1>1, <1>4, <1>5
  <1>7. run = [at |-> at, handoff |-> was.handoff, state |-> state]
    BY <1>1, <1>5
  <1>8. run \in ClaudeRuns /\ run.state = state
    BY <1>1, <1>7 DEF ClaudeRuns, ClaudeStages
  <1>9. StateIsTrue(run.state, Session(q))
    BY <1>1, <1>2, <1>8 DEF NativeInv
  <1>10. handoffs' \in [WeftSessions -> Handoffs] /\ \A s \in WeftSessions : handoffs'[s] = handoffs[s]
    BY <1>4 DEF NativeInv, CodexTyped
  <1>11. UNCHANGED <<codexFiles, claudeFiles, codex>>
    BY <1>4
  <1> QED
    BY <1>6, <1>8, <1>9, <1>10, <1>11, ClaudeGoesOn

LEMMA ClaudeKilledKeeps ==
  ASSUME NativeInv, NEW q \in ClaudeLaunches, ClaudeKilled(q) PROVE NativeInv'
  <1>1. /\ claude' = [claude EXCEPT ![q].at = "done"]
        /\ UNCHANGED <<codexFiles, handoffs, claudeFiles, codex>>
    BY DEF ClaudeKilled, ClaudeGoesTo
  <1>2. PICK was \in ClaudeRuns :
          /\ was = claude[q] /\ Session(q) \in WeftSessions
          /\ was = [at |-> was.at, handoff |-> was.handoff, state |-> was.state]
          /\ was.handoff \in Handoffs /\ was.state \in ClaudeStates
          /\ StateIsTrue(was.state, Session(q))
    BY ClaudeFacts
  <1>3. PICK run : run = [was EXCEPT !.at = "done"]
    OBVIOUS
  <1>4. claude' = [claude EXCEPT ![q] = run]
    BY Zenon, <1>1, <1>2, <1>3
  <1>5. run = [at |-> "done", handoff |-> was.handoff, state |-> was.state]
    BY <1>2, <1>3
  <1>6. run \in ClaudeRuns /\ run.state = was.state
    BY <1>2, <1>5 DEF ClaudeRuns, ClaudeStages
  <1>7. handoffs' \in [WeftSessions -> Handoffs] /\ \A s \in WeftSessions : handoffs'[s] = handoffs[s]
    BY <1>1 DEF NativeInv, CodexTyped
  <1>8. UNCHANGED <<codexFiles, claudeFiles, codex>>
    BY <1>1
  <1> QED
    BY <1>2, <1>4, <1>6, <1>7, <1>8, ClaudeGoesOn

\* The transcript is there before any state names it.
LEMMA ImportTranscriptKeeps ==
  ASSUME NativeInv, NEW q \in ClaudeLaunches, ImportTranscript(q) PROVE NativeInv'
  <1>1. PICK was \in ClaudeRuns :
          /\ was = claude[q] /\ Session(q) \in WeftSessions
          /\ was = [at |-> was.at, handoff |-> was.handoff, state |-> was.state]
          /\ was.handoff \in Handoffs /\ was.state \in ClaudeStates
          /\ StateIsTrue(was.state, Session(q))
    BY ClaudeFacts
  <1>2. PICK files \in Seq(Transcripts) : files = transcripts
    BY DEF NativeInv, ClaudeTyped
  <1>3. PICK new \in Transcripts : new = [imported |-> was.handoff, of |-> Session(q)]
    BY <1>1 DEF Transcripts
  <1>4. PICK state \in ClaudeStates : state = [native |-> Len(files) + 1, imported |-> was.handoff]
    <2>1. PICK k \in Nat : k = Len(files) + 1
      <3>1. Len(files) + 1 \in Nat
        OBVIOUS
      <3> QED
        BY <3>1
    <2>2. [native |-> k, imported |-> was.handoff] \in ClaudeStates
      BY <1>1 DEF ClaudeStates
    <2> QED
      BY <2>1, <2>2
  <1>5. /\ transcripts' = Append(files, new)
        /\ claude' = [claude EXCEPT ![q].at = "written", ![q].state = state]
        /\ UNCHANGED <<codexFiles, handoffs, claudeState, codex>>
    BY <1>1, <1>2, <1>3, <1>4 DEF ImportTranscript
  <1>6. PICK run : run = [was EXCEPT !.at = "written", !.state = state]
    OBVIOUS
  <1>7. claude' = [claude EXCEPT ![q] = run]
    BY Zenon, <1>1, <1>5, <1>6
  <1>8. run = [at |-> "written", handoff |-> was.handoff, state |-> state]
    BY <1>1, <1>6
  <1>9. run \in ClaudeRuns /\ run.state = state
    BY <1>1, <1>8 DEF ClaudeRuns, ClaudeStages
  <1>10. /\ Append(files, new) \in Seq(Transcripts) /\ Len(Append(files, new)) = Len(files) + 1
         /\ Len(files) \in Nat
         /\ \A i \in DOMAIN files : Append(files, new)[i] = files[i]
         /\ Append(files, new)[Len(files) + 1] = new
    BY <1>2
  <1>11. /\ transcripts' \in Seq(Transcripts) /\ Len(transcripts) <= Len(transcripts')
         /\ \A i \in DOMAIN transcripts : transcripts'[i] = transcripts[i]
    BY <1>2, <1>5, <1>10
  <1>12. StateIsTrue(run.state, Session(q))'
    <2>1. state.native = Len(files) + 1 /\ state.imported = was.handoff
      BY <1>4
    <2>2. state.native <= Len(transcripts')
          /\ transcripts'[state.native] = [imported |-> state.imported, of |-> Session(q)]
      BY <1>3, <1>5, <1>10, <2>1
    <2> QED
      BY <1>9, <2>2 DEF StateIsTrue, Session
  <1>13. /\ handoffs' \in [WeftSessions -> Handoffs]
         /\ claudeState' \in [WeftSessions -> ClaudeStates]
         /\ \A s \in WeftSessions : handoffs'[s] = handoffs[s] /\ claudeState'[s] = claudeState[s]
    BY <1>5 DEF NativeInv, CodexTyped, ClaudeTyped
  <1>14. UNCHANGED <<codexFiles, codex>>
    BY <1>5
  <1> QED
    BY <1>7, <1>9, <1>11, <1>12, <1>13, <1>14, ClaudeMoves

LEMMA SaveClaudeStateKeeps ==
  ASSUME NativeInv, NEW q \in ClaudeLaunches, SaveClaudeState(q) PROVE NativeInv'
  <1>1. PICK was \in ClaudeRuns :
          /\ was = claude[q] /\ Session(q) \in WeftSessions
          /\ was = [at |-> was.at, handoff |-> was.handoff, state |-> was.state]
          /\ was.handoff \in Handoffs /\ was.state \in ClaudeStates
          /\ StateIsTrue(was.state, Session(q))
    BY ClaudeFacts
  <1>2. PICK at \in {"ready", "running", "done"} : claude' = [claude EXCEPT ![q].at = at]
    <2>1. claude[q].at \in {"written", "ready", "running"}
      BY DEF SaveClaudeState
    <2>2. CASE claude[q].at = "written"
      BY <2>2 DEF SaveClaudeState, ClaudeGoesTo
    <2>3. CASE claude[q].at = "ready"
      BY <2>3 DEF SaveClaudeState, ClaudeGoesTo
    <2>4. CASE claude[q].at = "running"
      BY <2>4 DEF SaveClaudeState, ClaudeGoesTo
    <2> QED
      BY <2>1, <2>2, <2>3, <2>4
  <1>3. PICK run : run = [was EXCEPT !.at = at]
    OBVIOUS
  <1>4. claude' = [claude EXCEPT ![q] = run]
    BY Zenon, <1>1, <1>2, <1>3
  <1>5. run = [at |-> at, handoff |-> was.handoff, state |-> was.state]
    BY <1>1, <1>3
  <1>6. run \in ClaudeRuns /\ run.state = was.state
    BY <1>1, <1>5 DEF ClaudeRuns, ClaudeStages
  <1>7. claude'[q] = run
    BY <1>4 DEF NativeInv, ClaudeTyped
  <1>8. claudeState' = [claudeState EXCEPT ![Session(q)] = was.state]
    BY <1>6, <1>7 DEF SaveClaudeState, SaveState, Put
  <1>9. UNCHANGED <<codexFiles, codex>> /\ handoffs' = handoffs /\ transcripts' = transcripts
    BY DEF SaveClaudeState
  <1>10. claudeState \in [WeftSessions -> ClaudeStates]
    BY DEF NativeInv, ClaudeTyped
  <1>11. /\ claudeState' \in [WeftSessions -> ClaudeStates]
         /\ claudeState'[Session(q)] = was.state
         /\ \A s \in WeftSessions \ {Session(q)} : claudeState'[s] = claudeState[s]
    BY <1>1, <1>8, <1>10
  <1>12. StateIsTrue(run.state, Session(q))'
    BY <1>1, <1>6, <1>9 DEF StateIsTrue, Session
  <1>13. StateIsTrue(claudeState[Session(q)], Session(q))'
    BY <1>6, <1>11, <1>12 DEF StateIsTrue, Session
  <1>14. \A s \in WeftSessions : claudeState'[s] = claudeState[s] \/ StateIsTrue(claudeState[s], s)'
    BY <1>11, <1>13 DEF Session
  <1>15. /\ handoffs' \in [WeftSessions -> Handoffs] /\ transcripts' \in Seq(Transcripts)
         /\ Len(transcripts) <= Len(transcripts')
         /\ \A i \in DOMAIN transcripts : transcripts'[i] = transcripts[i]
         /\ \A s \in WeftSessions : handoffs'[s] = handoffs[s]
    BY <1>9 DEF NativeInv, CodexTyped, ClaudeTyped
  <1>16. UNCHANGED <<codexFiles, codex>>
    BY <1>9
  <1> QED
    BY <1>4, <1>6, <1>11, <1>12, <1>14, <1>15, <1>16, ClaudeMoves

LEMMA NativeInvInit == NativeInit => NativeInv
  <1> SUFFICES ASSUME NativeInit PROVE NativeInv
    OBVIOUS
  <1>1. PICK start \in CodexRuns :
          /\ start = [at |-> "new", copy |-> [s \in WeftSessions |-> 0], before |-> <<>>, native |-> 0]
          /\ start.at = "new" /\ start.native = 0 /\ start.copy = [s \in WeftSessions |-> 0]
    <2>1. <<>> \in Seq(Rollouts) /\ [s \in WeftSessions |-> 0] \in [WeftSessions -> CodexNames]
      BY DEF CodexNames
    <2>2. [at |-> "new", copy |-> [s \in WeftSessions |-> 0], before |-> <<>>, native |-> 0] \in CodexRuns
      BY <2>1 DEF CodexRuns, CodexStages
    <2> QED
      BY <2>2
  <1>2. NoHandoff \in Handoffs /\ NoHandoff.from = 0
    BY DEF NoHandoff, Handoffs, CodexNames
  <1>3. NoState \in ClaudeStates /\ NoState.native = 0
    BY <1>2 DEF NoState, ClaudeStates
  <1>4. PICK idle \in ClaudeRuns :
          idle = [at |-> "new", handoff |-> NoHandoff, state |-> NoState] /\ idle.state = NoState
    <2>1. [at |-> "new", handoff |-> NoHandoff, state |-> NoState] \in ClaudeRuns
      BY <1>2, <1>3 DEF ClaudeRuns, ClaudeStages
    <2> QED
      BY <2>1
  <1>5. codex = [p \in CodexLaunches |-> start] /\ claude = [q \in ClaudeLaunches |-> idle]
    BY <1>1, <1>4 DEF NativeInit
  <1>6. /\ bindings = [s \in WeftSessions |-> 0] /\ lastBound = bindings /\ disturbedBy = {}
        /\ rollouts = <<>> /\ turned = 0 /\ transcripts = <<>>
        /\ handoffs = [s \in WeftSessions |-> NoHandoff]
        /\ claudeState = [s \in WeftSessions |-> NoState]
    BY DEF NativeInit
  <1>7. <<>> \in Seq(Rollouts) /\ <<>> \in Seq(Transcripts) /\ Len(rollouts) = 0
    BY <1>6
  <1>8. CodexTyped /\ ClaudeTyped
    <2>1. [s \in WeftSessions |-> 0] \in [WeftSessions -> CodexNames]
      BY DEF CodexNames
    <2> QED
      BY <1>2, <1>3, <1>5, <1>6, <1>7, <2>1 DEF CodexTyped, ClaudeTyped
  <1>9. NamesExist
    BY <1>1, <1>2, <1>5, <1>6, <1>7 DEF NamesExist
  <1>10. /\ \A s \in WeftSessions : StateIsTrue(claudeState[s], s)
         /\ \A q \in ClaudeLaunches : StateIsTrue(claude[q].state, Session(q))
    BY <1>3, <1>4, <1>5, <1>6 DEF StateIsTrue
  <1>11. Apart
    BY <1>1, <1>2, <1>5, <1>6 DEF Apart, ConversationsApart, RunIsApart, Active
  <1> QED
    BY <1>8, <1>9, <1>10, <1>11 DEF NativeInv

LEMMA NativeInvStep == NativeInv /\ [NativeNext]_nativeVars => NativeInv'
  <1> SUFFICES ASSUME NativeInv, [NativeNext]_nativeVars PROVE NativeInv'
    OBVIOUS
  <1>1. ASSUME NEW p \in CodexLaunches,
               \/ LoadBindings(p) \/ StartCodex(p) \/ CodexExits(p)
               \/ HandOffCodex(p) \/ BindCodex(p) \/ CodexKilled(p)
               \/ \E n \in DOMAIN rollouts \cup {Unknown} : LinkNative(p, n)
               \/ \E n \in 1 .. Len(rollouts) + 1 : CodexTurn(p, n)
        PROVE  NativeInv'
    BY <1>1, LoadBindingsKeeps, StartCodexKeeps, CodexTurnKeeps, CodexExitsKeeps,
       HandOffCodexKeeps, BindCodexKeeps, CodexKilledKeeps, LinkNativeKeeps
  <1>2. ASSUME NEW q \in ClaudeLaunches,
               \/ RefreshHandoff(q) \/ LoadHandoff(q) \/ LoadState(q) \/ ImportTranscript(q)
               \/ SaveClaudeState(q) \/ ClaudeKilled(q)
        PROVE  NativeInv'
    BY <1>2, RefreshHandoffKeeps, LoadHandoffKeeps, LoadStateKeeps, ImportTranscriptKeeps,
       SaveClaudeStateKeeps, ClaudeKilledKeeps
  <1>3. CASE UNCHANGED nativeVars
    <2>1. /\ UNCHANGED <<bindings, rollouts, turned, lastBound, disturbedBy, handoffs>>
          /\ codex' = codex /\ claude' = claude /\ claudeState' = claudeState
          /\ transcripts' = transcripts
      BY <1>3 DEF nativeVars, codexFiles, claudeFiles
    <2>2. CodexTyped' /\ NamesExist' /\ ClaudeTyped'
      BY <2>1 DEF NativeInv, CodexTyped, NamesExist, ClaudeTyped
    <2>3. /\ \A s \in WeftSessions : StateIsTrue(claudeState[s], s)'
          /\ \A q \in ClaudeLaunches : StateIsTrue(claude[q].state, Session(q))'
      BY <2>1 DEF NativeInv, StateIsTrue, Session
    <2>4. Apart'
      BY <2>1 DEF NativeInv, Apart, ConversationsApart, RunIsApart, OwnChanges, ChangedSince, Active,
                  Watching, Session
    <2> QED
      BY <2>2, <2>3, <2>4 DEF NativeInv
  <1> QED
    BY <1>1, <1>2, <1>3, StrayTurnKeeps DEF NativeNext

\* The launchers' copies, the files they write back whole and the sessions of
\* Codex and Claude stay in the order NativeInv describes, whatever Codex a
\* killed launcher left behind or the user runs beside them.
THEOREM NativeInvariant == NativeSpec => []NativeInv
  BY NativeInvInit, NativeInvStep, PTL DEF NativeSpec

\* A Session resumes its own conversations and only those, as far as
\* SessionsResumeTheirOwn says: its Claude state leads to its transcript
\* whatever launchers run, are killed or write old copies back; its binding and
\* handoff are its own unless another run or another Codex came between.
THEOREM SessionsKeepTheirOwn == NativeSpec => []SessionsResumeTheirOwn
  <1>1. NativeInv => SessionsResumeTheirOwn
    <2> SUFFICES ASSUME NativeInv PROVE SessionsResumeTheirOwn
      OBVIOUS
    <2>1. Len(rollouts) \in Nat /\ Len(transcripts) \in Nat
      BY DEF NativeInv, CodexTyped, ClaudeTyped
    <2>2. {bindings, lastBound} \subseteq [WeftSessions -> Unknown .. Len(rollouts)]
      <3>1. \A s \in WeftSessions :
              bindings[s] \in Unknown .. Len(rollouts) /\ lastBound[s] \in Unknown .. Len(rollouts)
        BY <2>1 DEF NativeInv, CodexTyped, NamesExist, CodexNames, Unknown
      <3> QED
        BY <3>1 DEF NativeInv, CodexTyped
    <2>3. ASSUME NEW s \in WeftSessions
          PROVE  /\ handoffs[s].from \in Unknown .. Len(rollouts)
                 /\ claudeState[s].native \in 0 .. Len(transcripts)
      <3>1. handoffs[s] \in Handoffs /\ claudeState[s] \in ClaudeStates
        BY DEF NativeInv, CodexTyped, ClaudeTyped
      <3>2. handoffs[s].from \in CodexNames /\ claudeState[s].native \in Nat
        BY <3>1 DEF Handoffs, ClaudeStates
      <3>3. handoffs[s].from <= Len(rollouts)
        BY DEF NativeInv, NamesExist
      <3>4. claudeState[s].native # 0 => claudeState[s].native <= Len(transcripts)
        BY DEF NativeInv, StateIsTrue
      <3> QED
        BY <2>1, <3>2, <3>3, <3>4 DEF CodexNames, Unknown
    <2>4. /\ \A p \in CodexLaunches : codex[p].at \in CodexStages
          /\ \A q \in ClaudeLaunches : claude[q].at \in ClaudeStages
      BY DEF NativeInv, CodexTyped, ClaudeTyped, CodexRuns, ClaudeRuns
    <2>5. NativeTypeOK
      BY <2>2, <2>3, <2>4 DEF NativeTypeOK, CodexStages, ClaudeStages, NativeInv, CodexTyped, Disturbers
    <2>6. StateHasTranscript
      BY DEF NativeInv, StateHasTranscript, StateIsTrue
    <2>7. ConversationsStayApart
      BY DEF NativeInv, Apart, ConversationsStayApart
    <2> QED
      BY <2>5, <2>6, <2>7 DEF SessionsResumeTheirOwn
  <1> QED
    BY <1>1, NativeInvariant, PTL

=============================================================================
