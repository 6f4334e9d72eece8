--------------------------- MODULE MergeQueueProofs --------------------------
(***************************************************************************)
(* Proofs about MergeQueue.  For any number of merge workers: the target   *)
(* branch only points to gated or pushed commits and keeps what others     *)
(* pushed, at most one entry is active, and a ready worktree is on disk.   *)
(* For one worker, and merges that overlap no commit of their worktree:    *)
(* the tables of the queue and of the worktrees agree with the repository. *)
(***************************************************************************)
EXTENDS MergeQueue, FiniteSetTheorems, SequenceTheorems, TLAPS

-----------------------------------------------------------------------------
(* Shapes *)

JobSteps == {"idle", "creating", "created", "refused", "removed"} \cup CommitSteps
JobRecords == [pc : JobSteps, head : 0 .. MaxCommits, commit : 0 .. MaxCommits]

\* Steps of a worker whose merge has begun, and those that know the target.
MergeSteps == {"inspecting", "rebasing", "rebase", "rebased", "conflict", "forwarding",
               "moved", "applied", "marking", "undoing", "recovering"}
TargetSteps == MergeSteps \ {"inspecting", "recovering"}
WorkerSteps == {"idle", "scanning", "claimed", "beginning", "failing"} \cup MergeSteps
WorkerRecords == [pc : WorkerSteps, mode : {"execute", "recover"},
                  on : Worktrees \cup {NoWorktree}, list : Seq(Worktrees),
                  base : 0 .. MaxCommits, head : 0 .. MaxCommits, target : 0 .. MaxCommits]

Checks == {"none", "absent", "present"}
FileStates == {"clean", "edited", "staged"}

Shapes ==
    /\ worktree \in [Worktrees -> WorktreeRecords] /\ entry \in [Worktrees -> EntryRecords]
    /\ job \in [Worktrees -> JobRecords] /\ worker \in [Workers -> WorkerRecords]
    /\ checking \in [Worktrees -> Checks] /\ files \in [Worktrees -> FileStates]
    /\ branch \in [Worktrees -> 0 .. MaxCommits] /\ rebasing \in [Worktrees -> 0 .. MaxCommits]
    /\ fenced \subseteq Worktrees /\ interrupted \subseteq Worktrees
    /\ conflicts \subseteq Worktrees /\ working \subseteq Worktrees
    /\ faults \in 0 .. MaxFaults

\* Commits are numbered in the order they were made; the ancestors of an
\* ancestor are ancestors.
GraphOK ==
    /\ history \in Seq(SUBSET Nat)
    /\ Len(history) \in 1 .. MaxCommits
    /\ \A c \in Known :
          /\ c \in history[c] /\ history[c] \subseteq Known
          /\ \A d \in history[c] : history[d] \subseteq history[c]

\* Commits are added, and what they descend from never changes.
Grows == /\ GraphOK'
         /\ Known \subseteq Known'
         /\ \A c \in Known : history'[c] = history[c]

-----------------------------------------------------------------------------
(* The commit graph *)

\* Known commits are the numbers within the bound, without zero.
LEMMA KnownCommits ==
    ASSUME GraphOK
    PROVE  /\ Known \subseteq 1 .. MaxCommits /\ Known \subseteq 0 .. MaxCommits
           /\ NoCommit \notin Known /\ NoCommit \in 0 .. MaxCommits
  BY WorktreeAssumption DEF GraphOK, Known, NoCommit

\* A step that makes no commit.
LEMMA GrowsNot ==
    ASSUME GraphOK, history' = history
    PROVE  Grows
  BY DEF GraphOK, Grows, Known

\* One commit on top of another.
LEMMA GrowsByOne ==
    ASSUME GraphOK, NEW parent \in Known, CanCommit, history' = Extended(parent)
    PROVE  /\ Grows
           /\ NewCommit \in Known' /\ NewCommit \notin Known
           /\ history'[NewCommit] = history[parent] \cup {NewCommit}
  <1>1. /\ history \in Seq(SUBSET Nat) /\ Len(history) \in Nat /\ MaxCommits \in Nat
        /\ Len(history) < MaxCommits /\ Len(history) >= 1
        /\ NewCommit = Len(history) + 1
    BY WorktreeAssumption DEF GraphOK, CanCommit, NewCommit
  <1>2. history[parent] \subseteq Known /\ history[parent] \cup {NewCommit} \in SUBSET Nat
    BY <1>1 DEF GraphOK, Known
  <1>3. /\ history' \in Seq(SUBSET Nat) /\ Len(history') = NewCommit
        /\ history'[NewCommit] = history[parent] \cup {NewCommit}
        /\ \A c \in 1 .. Len(history) : history'[c] = history[c]
    BY <1>1, <1>2 DEF Extended
  <1>4. /\ Known' = Known \cup {NewCommit} /\ NewCommit \notin Known
        /\ \A c \in Known : history'[c] = history[c]
    BY <1>1, <1>3 DEF Known
  <1>5. ASSUME NEW c \in Known'
        PROVE  /\ c \in history'[c] /\ history'[c] \subseteq Known'
               /\ \A d \in history'[c] : history'[d] \subseteq history'[c]
    <2>1. CASE c \in Known
      BY <2>1, <1>4 DEF GraphOK
    <2>2. CASE c = NewCommit
      BY <2>2, <1>2, <1>3, <1>4 DEF GraphOK
    <2>. QED BY <2>1, <2>2, <1>4
  <1>6. GraphOK'
    BY <1>1, <1>3, <1>5 DEF GraphOK
  <1>. QED BY <1>3, <1>4, <1>6 DEF Grows

-----------------------------------------------------------------------------
(* What the operators write *)

\* A status is written into a record, and nothing else of it or of another.
LEMMA StatusWritten ==
    ASSUME worktree \in [Worktrees -> WorktreeRecords], NEW w \in Worktrees,
           NEW s \in Statuses, worktree' = WithStatus(w, s)
    PROVE  /\ worktree' \in [Worktrees -> WorktreeRecords]
           /\ worktree'[w].status = s /\ worktree'[w].base = worktree[w].base
           /\ worktree'[w].head = worktree[w].head
           /\ \A v \in Worktrees \ {w} : worktree'[v] = worktree[v]
  <1>1. \A r \in WorktreeRecords : LET t == [r EXCEPT !.status = s] IN
            t \in WorktreeRecords /\ t.status = s /\ t.base = r.base /\ t.head = r.head
    BY DEF WorktreeRecords
  <1>2. worktree' = [worktree EXCEPT ![w] = [worktree[w] EXCEPT !.status = s]]
    BY DEF WithStatus
  <1>. QED BY <1>1, <1>2

\* A record becomes ready at a commit.
LEMMA ReadyWritten ==
    ASSUME worktree \in [Worktrees -> WorktreeRecords], NEW w \in Worktrees,
           NEW h \in 0 .. MaxCommits, worktree' = Ready(w, h)
    PROVE  /\ worktree' \in [Worktrees -> WorktreeRecords]
           /\ worktree'[w].status = "ready" /\ worktree'[w].base = worktree[w].base
           /\ worktree'[w].head = h
           /\ \A v \in Worktrees \ {w} : worktree'[v] = worktree[v]
  <1> DEFINE r == [worktree[w] EXCEPT !.status = "ready", !.head = h]
  <1>1. /\ r \in WorktreeRecords
        /\ r.status = "ready" /\ r.base = worktree[w].base /\ r.head = h
    BY DEF WorktreeRecords, Statuses
  <1>2. worktree' = [worktree EXCEPT ![w] = r]
    BY Zenon DEF Ready
  <1> HIDE DEF r
  <1>. QED BY <1>1, <1>2

\* Only the head of a record is written.
LEMMA HeadWritten ==
    ASSUME worktree \in [Worktrees -> WorktreeRecords], NEW w \in Worktrees,
           NEW h \in 0 .. MaxCommits, worktree' = [worktree EXCEPT ![w].head = h]
    PROVE  /\ worktree' \in [Worktrees -> WorktreeRecords]
           /\ worktree'[w].status = worktree[w].status /\ worktree'[w].base = worktree[w].base
           /\ worktree'[w].head = h
           /\ \A v \in Worktrees \ {w} : worktree'[v] = worktree[v]
  <1> DEFINE r == [worktree[w] EXCEPT !.head = h]
  <1>1. /\ r \in WorktreeRecords
        /\ r.status = worktree[w].status /\ r.base = worktree[w].base /\ r.head = h
    BY DEF WorktreeRecords
  <1>2. worktree' = [worktree EXCEPT ![w] = r]
    BY Zenon
  <1> HIDE DEF r
  <1>. QED BY <1>1, <1>2

\* A call takes its next step, and knows what it knew.
LEMMA JobStepped ==
    ASSUME job \in [Worktrees -> JobRecords], NEW w \in Worktrees,
           NEW s \in JobSteps, Step(w, s)
    PROVE  /\ job' \in [Worktrees -> JobRecords]
           /\ job'[w].pc = s /\ job'[w].head = job[w].head /\ job'[w].commit = job[w].commit
           /\ \A v \in Worktrees \ {w} : job'[v] = job[v]
  <1> DEFINE r == [job[w] EXCEPT !.pc = s]
  <1>1. /\ r \in JobRecords
        /\ r.pc = s /\ r.head = job[w].head /\ r.commit = job[w].commit
    BY DEF JobRecords
  <1>2. job' = [job EXCEPT ![w] = r]
    BY Zenon DEF Step
  <1> HIDE DEF r
  <1>. QED BY <1>1, <1>2

\* A call ends.
LEMMA JobEnded ==
    ASSUME job \in [Worktrees -> JobRecords], NEW w \in Worktrees, Done(w)
    PROVE  /\ job' \in [Worktrees -> JobRecords]
           /\ job'[w] = Idle /\ job'[w].pc = "idle"
           /\ \A v \in Worktrees \ {w} : job'[v] = job[v]
  <1>1. Idle \in JobRecords /\ Idle.pc = "idle"
    BY WorktreeAssumption DEF Idle, JobRecords, JobSteps, NoCommit
  <1>. QED BY <1>1 DEF Done

\* Only the status of an entry is written.
LEMMA EntryStatusWritten ==
    ASSUME entry \in [Worktrees -> EntryRecords], NEW w \in Worktrees,
           NEW s \in EntryStatuses, entry' = SetStatus(w, s)
    PROVE  /\ entry' \in [Worktrees -> EntryRecords]
           /\ entry'[w].status = s /\ entry'[w].base = entry[w].base
           /\ entry'[w].head = entry[w].head
           /\ GatesPassed(entry'[w]) <=> GatesPassed(entry[w])
           /\ \A v \in Worktrees \ {w} : entry'[v] = entry[v]
  <1> DEFINE r == [entry[w] EXCEPT !.status = s]
  <1>1. /\ r \in EntryRecords
        /\ r.status = s /\ r.base = entry[w].base /\ r.head = entry[w].head
        /\ GatesPassed(r) <=> GatesPassed(entry[w])
    BY DEF EntryRecords, GatesPassed
  <1>2. entry' = [entry EXCEPT ![w] = r]
    BY Zenon DEF SetStatus
  <1> HIDE DEF r
  <1>. QED BY <1>1, <1>2

\* A requeued entry has its new head, and both gates are open again.
LEMMA EntryRequeued ==
    ASSUME entry \in [Worktrees -> EntryRecords], NEW w \in Worktrees,
           NEW b \in 0 .. MaxCommits, NEW h \in 0 .. MaxCommits, Requeued(w, b, h)
    PROVE  /\ entry' \in [Worktrees -> EntryRecords]
           /\ entry'[w].status = "queued" /\ entry'[w].head = h
           /\ ~GatesPassed(entry'[w])
           /\ \A v \in Worktrees \ {w} : entry'[v] = entry[v]
  <1> DEFINE r == [entry[w] EXCEPT !.status = "queued", !.base = b, !.head = h,
                                   !.review = "pending", !.tests = "pending"]
  <1>1. /\ r \in EntryRecords
        /\ r.status = "queued" /\ r.head = h /\ ~GatesPassed(r)
    BY DEF EntryRecords, EntryStatuses, Gates, GatesPassed
  <1>2. entry' = [entry EXCEPT ![w] = r]
    BY Zenon DEF Requeued
  <1> HIDE DEF r
  <1>. QED BY <1>1, <1>2

\* A worker takes its next step, and knows what it knew.
LEMMA WorkerStepped ==
    ASSUME worker \in [Workers -> WorkerRecords], NEW k \in Workers,
           NEW s \in WorkerSteps, Goto(k, s)
    PROVE  /\ worker' \in [Workers -> WorkerRecords]
           /\ worker'[k].pc = s /\ worker'[k].mode = worker[k].mode
           /\ worker'[k].on = worker[k].on /\ worker'[k].list = worker[k].list
           /\ worker'[k].base = worker[k].base /\ worker'[k].head = worker[k].head
           /\ worker'[k].target = worker[k].target
           /\ \A j \in Workers \ {k} : worker'[j] = worker[j]
  <1> DEFINE r == [worker[k] EXCEPT !.pc = s]
  <1>1. /\ r \in WorkerRecords
        /\ r.pc = s /\ r.mode = worker[k].mode /\ r.on = worker[k].on
        /\ r.list = worker[k].list /\ r.base = worker[k].base
        /\ r.head = worker[k].head /\ r.target = worker[k].target
    BY DEF WorkerRecords
  <1>2. worker' = [worker EXCEPT ![k] = r]
    BY Zenon DEF Goto
  <1> HIDE DEF r
  <1>. QED BY <1>1, <1>2

\* The state of an idle worker.
LEMMA WaitingTyped ==
    /\ Waiting \in WorkerRecords
    /\ Waiting.pc = "idle" /\ Waiting.mode = "execute" /\ Waiting.on = NoWorktree
  BY WorktreeAssumption DEF Waiting, WorkerRecords, WorkerSteps, NoCommit

\* A worker rests.
LEMMA WorkerRested ==
    ASSUME worker \in [Workers -> WorkerRecords], NEW k \in Workers, Rest(k)
    PROVE  /\ worker' \in [Workers -> WorkerRecords]
           /\ worker'[k] = Waiting /\ worker'[k].pc = "idle" /\ worker'[k].mode = "execute"
           /\ worker'[k].on = NoWorktree
           /\ \A j \in Workers \ {k} : worker'[j] = worker[j]
  <1>. QED BY WaitingTyped DEF Rest

\* A worker takes up a worktree whose merge began.
Takes(k, w, b, h) ==
    worker' = [worker EXCEPT ![k] = [Waiting EXCEPT
        !.pc = "recovering", !.mode = "recover", !.on = w, !.base = b, !.head = h]]

\* What it is to know then.
LEMMA WorkerTook ==
    ASSUME worker \in [Workers -> WorkerRecords], NEW k \in Workers,
           NEW w \in Worktrees, NEW b \in 0 .. MaxCommits, NEW h \in 0 .. MaxCommits,
           Takes(k, w, b, h)
    PROVE  /\ worker' \in [Workers -> WorkerRecords]
           /\ worker'[k].pc = "recovering"
           /\ worker'[k].mode = "recover"
           /\ worker'[k].on = w
           /\ worker'[k].head = h
           /\ \A j \in Workers \ {k} : worker'[j] = worker[j]
  <1> DEFINE r == [Waiting EXCEPT !.pc = "recovering", !.mode = "recover", !.on = w,
                               !.base = b, !.head = h]
  <1>1. Waiting \in WorkerRecords /\ Waiting.mode = "execute" /\ "recovering" \in WorkerSteps
    BY WaitingTyped DEF WorkerSteps, MergeSteps
  <1>2. r \in WorkerRecords
    BY <1>1, Zenon DEF WorkerRecords
  <1>3. /\ r.pc = "recovering"
        /\ r.mode = "recover"
        /\ r.on = w
        /\ r.head = h
    BY <1>1, Zenon DEF WorkerRecords
  <1>4. worker' = [worker EXCEPT ![k] = r]
    BY Zenon DEF Takes
  <1> HIDE DEF r
  <1>. QED BY <1>2, <1>3, <1>4

\* A worker claims the entry of a worktree.
LEMMA WorkerClaimed ==
    ASSUME worker \in [Workers -> WorkerRecords], NEW k \in Workers,
           NEW w \in Worktrees,
           worker' = [worker EXCEPT ![k] = [Waiting EXCEPT !.pc = "claimed", !.on = w]]
    PROVE  /\ worker' \in [Workers -> WorkerRecords]
           /\ worker'[k].pc = "claimed"
           /\ worker'[k].mode = "execute"
           /\ worker'[k].on = w
           /\ \A j \in Workers \ {k} : worker'[j] = worker[j]
  <1> DEFINE r == [Waiting EXCEPT !.pc = "claimed", !.on = w]
  <1>1. Waiting \in WorkerRecords /\ Waiting.mode = "execute" /\ "claimed" \in WorkerSteps
    BY WaitingTyped DEF WorkerSteps, MergeSteps
  <1>2. r \in WorkerRecords
    BY <1>1, Zenon DEF WorkerRecords
  <1>3. /\ r.pc = "claimed"
        /\ r.mode = "execute"
        /\ r.on = w
    BY <1>1, Zenon DEF WorkerRecords
  <1>4. worker' = [worker EXCEPT ![k] = r]
    BY Zenon
  <1> HIDE DEF r
  <1>. QED BY <1>2, <1>3, <1>4

\* A merge begins with what its entry says; an inspection reads the target;
\* recovery finds a merge that was done, or a rebase that was.
Begins(k, b, h) ==
    worker' = [worker EXCEPT ![k].pc = "inspecting", ![k].base = b, ![k].head = h]
Reads(k, s, t) == worker' = [worker EXCEPT ![k].target = t, ![k].pc = s]
Finds(k, s, h, t) == worker' = [worker EXCEPT ![k].pc = s, ![k].head = h, ![k].target = t]

\* A merge begins with what its entry says.
LEMMA WorkerBegan ==
    ASSUME worker \in [Workers -> WorkerRecords], NEW k \in Workers,
           NEW b \in 0 .. MaxCommits, NEW h \in 0 .. MaxCommits,
           Begins(k, b, h)
    PROVE  /\ worker' \in [Workers -> WorkerRecords]
           /\ worker'[k].pc = "inspecting"
           /\ worker'[k].mode = worker[k].mode
           /\ worker'[k].on = worker[k].on
           /\ worker'[k].head = h
           /\ \A j \in Workers \ {k} : worker'[j] = worker[j]
  <1> DEFINE r == [worker[k] EXCEPT !.pc = "inspecting", !.base = b, !.head = h]
  <1>1. worker[k] \in WorkerRecords /\ "inspecting" \in WorkerSteps
    BY DEF WorkerSteps, MergeSteps
  <1>2. r \in WorkerRecords
    BY <1>1, Zenon DEF WorkerRecords
  <1>3. /\ r.pc = "inspecting"
        /\ r.mode = worker[k].mode
        /\ r.on = worker[k].on
        /\ r.head = h
    BY <1>1, Zenon DEF WorkerRecords
  <1>4. worker' = [worker EXCEPT ![k] = r]
    BY Zenon DEF Begins
  <1> HIDE DEF r
  <1>. QED BY <1>2, <1>3, <1>4

\* An inspection reads the target.
LEMMA WorkerInspected ==
    ASSUME worker \in [Workers -> WorkerRecords], NEW k \in Workers,
           NEW s \in WorkerSteps, NEW t \in 0 .. MaxCommits,
           Reads(k, s, t)
    PROVE  /\ worker' \in [Workers -> WorkerRecords]
           /\ worker'[k].pc = s
           /\ worker'[k].mode = worker[k].mode
           /\ worker'[k].on = worker[k].on
           /\ worker'[k].head = worker[k].head
           /\ worker'[k].target = t
           /\ \A j \in Workers \ {k} : worker'[j] = worker[j]
  <1> DEFINE r == [worker[k] EXCEPT !.target = t, !.pc = s]
  <1>1. worker[k] \in WorkerRecords
    OBVIOUS
  <1>2. r \in WorkerRecords
    BY <1>1, Zenon DEF WorkerRecords
  <1>3. /\ r.pc = s
        /\ r.mode = worker[k].mode
        /\ r.on = worker[k].on
        /\ r.head = worker[k].head
        /\ r.target = t
    BY <1>1, Zenon DEF WorkerRecords
  <1>4. worker' = [worker EXCEPT ![k] = r]
    BY Zenon DEF Reads
  <1> HIDE DEF r
  <1>. QED BY <1>2, <1>3, <1>4

\* A rebase ends with a new head.
LEMMA WorkerRebased ==
    ASSUME worker \in [Workers -> WorkerRecords], NEW k \in Workers,
           NEW h \in 0 .. MaxCommits, RebasedTo(k, h)
    PROVE  /\ worker' \in [Workers -> WorkerRecords]
           /\ worker'[k].pc = "rebased"
           /\ worker'[k].mode = worker[k].mode
           /\ worker'[k].on = worker[k].on
           /\ worker'[k].target = worker[k].target
           /\ worker'[k].head = h
           /\ \A j \in Workers \ {k} : worker'[j] = worker[j]
  <1> DEFINE r == [worker[k] EXCEPT !.pc = "rebased", !.head = h]
  <1>1. worker[k] \in WorkerRecords /\ "rebased" \in WorkerSteps
    BY DEF WorkerSteps, MergeSteps
  <1>2. r \in WorkerRecords
    BY <1>1, Zenon DEF WorkerRecords
  <1>3. /\ r.pc = "rebased"
        /\ r.mode = worker[k].mode
        /\ r.on = worker[k].on
        /\ r.target = worker[k].target
        /\ r.head = h
    BY <1>1, Zenon DEF WorkerRecords
  <1>4. worker' = [worker EXCEPT ![k] = r]
    BY Zenon DEF RebasedTo
  <1> HIDE DEF r
  <1>. QED BY <1>2, <1>3, <1>4

\* Recovery finds a merge that was done, or a rebase that was.
LEMMA WorkerFound ==
    ASSUME worker \in [Workers -> WorkerRecords], NEW k \in Workers,
           NEW s \in WorkerSteps, NEW h \in 0 .. MaxCommits, NEW t \in 0 .. MaxCommits,
           Finds(k, s, h, t)
    PROVE  /\ worker' \in [Workers -> WorkerRecords]
           /\ worker'[k].pc = s
           /\ worker'[k].mode = worker[k].mode
           /\ worker'[k].on = worker[k].on
           /\ worker'[k].head = h
           /\ worker'[k].target = t
           /\ \A j \in Workers \ {k} : worker'[j] = worker[j]
  <1> DEFINE r == [worker[k] EXCEPT !.pc = s, !.head = h, !.target = t]
  <1>1. worker[k] \in WorkerRecords
    OBVIOUS
  <1>2. r \in WorkerRecords
    BY <1>1, Zenon DEF WorkerRecords
  <1>3. /\ r.pc = s
        /\ r.mode = worker[k].mode
        /\ r.on = worker[k].on
        /\ r.head = h
        /\ r.target = t
    BY <1>1, Zenon DEF WorkerRecords
  <1>4. worker' = [worker EXCEPT ![k] = r]
    BY Zenon DEF Finds
  <1> HIDE DEF r
  <1>5. worker'[k] = r
    BY <1>4, Zenon
  <1>6. worker' \in [Workers -> WorkerRecords] /\ \A j \in Workers \ {k} : worker'[j] = worker[j]
    BY <1>2, <1>4, Zenon
  <1>. QED BY <1>3, <1>5, <1>6, Zenon

\* A worker reads the list of candidates.
LEMMA WorkerLists ==
    ASSUME worker \in [Workers -> WorkerRecords], NEW k \in Workers,
           NEW l \in Seq(Worktrees),
           worker' = [worker EXCEPT ![k].pc = "scanning", ![k].list = l]
    PROVE  /\ worker' \in [Workers -> WorkerRecords]
           /\ worker'[k].pc = "scanning"
           /\ worker'[k].mode = worker[k].mode
           /\ worker'[k].on = worker[k].on
           /\ worker'[k].list = l
           /\ \A j \in Workers \ {k} : worker'[j] = worker[j]
  <1> DEFINE r == [worker[k] EXCEPT !.pc = "scanning", !.list = l]
  <1>1. worker[k] \in WorkerRecords /\ "scanning" \in WorkerSteps
    BY DEF WorkerSteps, MergeSteps
  <1>2. r \in WorkerRecords
    BY <1>1, Zenon DEF WorkerRecords
  <1>3. /\ r.pc = "scanning"
        /\ r.mode = worker[k].mode
        /\ r.on = worker[k].on
        /\ r.list = l
    BY <1>1, Zenon DEF WorkerRecords
  <1>4. worker' = [worker EXCEPT ![k] = r]
    BY Zenon
  <1> HIDE DEF r
  <1>. QED BY <1>2, <1>3, <1>4

\* A worker goes on in its list.
LEMMA WorkerSkips ==
    ASSUME worker \in [Workers -> WorkerRecords], NEW k \in Workers,
           NEW l \in Seq(Worktrees),
           worker' = [worker EXCEPT ![k].list = l]
    PROVE  /\ worker' \in [Workers -> WorkerRecords]
           /\ worker'[k].pc = worker[k].pc
           /\ worker'[k].mode = worker[k].mode
           /\ worker'[k].on = worker[k].on
           /\ worker'[k].list = l
           /\ \A j \in Workers \ {k} : worker'[j] = worker[j]
  <1> DEFINE r == [worker[k] EXCEPT !.list = l]
  <1>1. worker[k] \in WorkerRecords
    OBVIOUS
  <1>2. r \in WorkerRecords
    BY <1>1, Zenon DEF WorkerRecords
  <1>3. /\ r.pc = worker[k].pc
        /\ r.mode = worker[k].mode
        /\ r.on = worker[k].on
        /\ r.list = l
    BY <1>1, Zenon DEF WorkerRecords
  <1>4. worker' = [worker EXCEPT ![k] = r]
    BY Zenon
  <1> HIDE DEF r
  <1>. QED BY <1>2, <1>3, <1>4

-----------------------------------------------------------------------------
(* The invariant for any number of workers *)

\* A record and the worktree it stands for.
RecordOK(w) ==
    /\ branch[w] \in {NoCommit} \cup Known /\ rebasing[w] \in {NoCommit} \cup Known
    /\ rebasing[w] # NoCommit => branch[w] # NoCommit /\ entry[w].status # "none"
    /\ worktree[w].status = "none" => branch[w] = NoCommit /\ job[w] = Idle
    /\ worktree[w].status # "none" => worktree[w].base \in Known
    /\ worktree[w].status = "ready" => worktree[w].head \in Known /\ branch[w] # NoCommit
    /\ worktree[w].status = "provisioning" =>
          /\ branch[w] \in {NoCommit, worktree[w].base}
          /\ job[w].pc \in {"idle", "creating", "created", "refused"}
          /\ checking[w] = "present" => branch[w] # NoCommit
          /\ job[w].pc = "created" => branch[w] # NoCommit /\ job[w].head = worktree[w].base
    /\ checking[w] # "none" => worktree[w].status # "none"
    /\ job[w].pc = "removed" => worktree[w].status \in {"abandoned", "failed", "cleaned"}
    /\ job[w].pc \in CommitSteps => job[w].head \in Known
    /\ job[w].pc \in {"recording", "undoing"} => job[w].commit \in Known

\* An entry: enqueued once its worktree was ready, active only when gated.
EntryOK(w) ==
    /\ entry[w].status # "none" => entry[w].head \in Known
    /\ entry[w].status # "none" => worktree[w].status \notin {"none", "provisioning"}
    /\ GatesPassed(entry[w]) => entry[w].head \in gated
    /\ Active(entry[w]) => GatesPassed(entry[w])

\* A worker between a fast-forward and its rollback: if nobody pushed on top of
\* the merged head, nobody pushed on top of the target before it.
CanGoBack(k) ==
    pushed \subseteq history[worker[k].head] => pushed \subseteq history[worker[k].target]

WorkerOK(k) ==
    /\ worker[k].pc \in {"idle", "scanning"} => worker[k].on = NoWorktree
    /\ worker[k].pc = "scanning" => worker[k].list # <<>>
    /\ worker[k].pc \notin {"idle", "scanning"} =>
          worker[k].on \in Worktrees /\ entry[worker[k].on].status # "none"
    /\ worker[k].pc \in MergeSteps => worker[k].head \in Known
    /\ worker[k].pc \in TargetSteps => worker[k].target \in Known
    /\ worker[k].pc \in {"inspecting", "forwarding"} => worker[k].head \in gated
    /\ worker[k].pc \in {"forwarding", "applied", "marking", "undoing"} =>
          worker[k].target \in gated \cup pushed
    /\ worker[k].pc \in {"applied", "marking", "undoing"} => CanGoBack(k)

\* The target branch.
TargetOK ==
    /\ target \in Known /\ pushed \subseteq Known /\ gated \subseteq Known
    /\ TargetIsGated /\ ForeignPushesKept

OneActive == \A v, w \in Worktrees : Active(entry[v]) /\ Active(entry[w]) => v = w

GInv == /\ Shapes /\ GraphOK /\ TargetOK /\ OneActive
        /\ \A w \in Worktrees : RecordOK(w) /\ EntryOK(w)
        /\ \A k \in Workers : WorkerOK(k)

\* What is left of a record that a step does not touch.
SameRecord(v) ==
    /\ worktree'[v] = worktree[v] /\ job'[v] = job[v] /\ checking'[v] = checking[v]
    /\ branch'[v] = branch[v] /\ rebasing'[v] = rebasing[v]

\* Records and entries nobody touches stay in order as the graph grows.
LEMMA RecordKept ==
    ASSUME NEW v, RecordOK(v), Grows, SameRecord(v),
           entry[v].status # "none" => entry'[v].status # "none"
    PROVE  RecordOK(v)'
  <1>1. Known \subseteq Known'
    BY DEF Grows
  <1>. QED BY <1>1 DEF RecordOK, SameRecord

\* An entry nobody touches stays in order while its record has begun to exist.
LEMMA EntryKept ==
    ASSUME NEW v, EntryOK(v), Grows, entry'[v] = entry[v], gated \subseteq gated',
           worktree[v].status \notin {"none", "provisioning"} =>
                worktree'[v].status \notin {"none", "provisioning"}
    PROVE  EntryOK(v)'
  <1>1. Known \subseteq Known'
    BY DEF Grows
  <1>. QED BY <1>1 DEF EntryOK

\* So does a worker that does not move, whatever the others push or pass.
LEMMA WorkerKept ==
    ASSUME NEW k, WorkerOK(k), GraphOK, Grows, worker'[k] = worker[k], gated \subseteq gated',
           \/ pushed' = pushed
           \/ \E c : pushed' = pushed \cup {c} /\ c \notin Known,
           \A v \in Worktrees : entry[v].status # "none" => entry'[v].status # "none"
    PROVE  WorkerOK(k)'
  <1>1. Known \subseteq Known' /\ \A c \in Known : history'[c] = history[c]
    BY DEF Grows
  <1>2. \A c \in Known : history[c] \subseteq Known
    BY DEF GraphOK
  <1>3. worker[k].pc \in {"applied", "marking", "undoing"} => CanGoBack(k)'
    <2>1. HAVE worker[k].pc \in {"applied", "marking", "undoing"}
    <2>2. worker[k].head \in Known /\ worker[k].target \in Known
      BY <2>1 DEF WorkerOK, MergeSteps, TargetSteps
    <2>. QED BY <1>1, <1>2, <2>1, <2>2 DEF WorkerOK, CanGoBack
  <1>. QED BY <1>1, <1>3 DEF WorkerOK

\* A step at one worktree that leaves entries, workers and the target alone.
LEMMA RecordStepKeeps ==
    ASSUME GInv, NEW w \in Worktrees, Shapes', Grows, UNCHANGED <<mvars, target, pushed>>,
           \A v \in Worktrees \ {w} : SameRecord(v),
           RecordOK(w)',
           worktree[w].status \notin {"none", "provisioning"} =>
                worktree'[w].status \notin {"none", "provisioning"}
    PROVE  GInv'
  <1>1. /\ entry' = entry /\ worker' = worker /\ gated' = gated
        /\ target' = target /\ pushed' = pushed
    BY DEF mvars
  <1>2. \A v \in Worktrees : RecordOK(v)'
    BY <1>1, RecordKept DEF GInv
  <1>3. \A v \in Worktrees : EntryOK(v)'
    <2> SUFFICES ASSUME NEW v \in Worktrees PROVE EntryOK(v)'
      OBVIOUS
    <2>1. worktree[v].status \notin {"none", "provisioning"} =>
                worktree'[v].status \notin {"none", "provisioning"}
      BY DEF SameRecord
    <2>. QED BY <1>1, <2>1, EntryKept DEF GInv
  <1>4. \A k \in Workers : WorkerOK(k)'
    BY <1>1, WorkerKept DEF GInv
  <1>5. TargetOK'
    BY <1>1 DEF GInv, TargetOK, Grows, TargetIsGated, ForeignPushesKept
  <1>6. GraphOK' /\ OneActive'
    BY <1>1 DEF Grows, GInv, OneActive
  <1>. QED BY <1>2, <1>3, <1>4, <1>5, <1>6 DEF GInv

\* A step of one worker, or of nobody, that may touch one worktree and its entry.
LEMMA QueueStepKeeps ==
    ASSUME GInv, NEW w \in Worktrees, NEW k, Shapes', Grows, gated \subseteq gated', pushed' = pushed,
           \A v \in Worktrees \ {w} : SameRecord(v) /\ entry'[v] = entry[v],
           \A j \in Workers \ {k} : worker'[j] = worker[j],
           entry[w].status # "none" => entry'[w].status # "none",
           RecordOK(w)', EntryOK(w)', k \in Workers => WorkerOK(k)', TargetOK',
           Active(entry'[w]) => Active(entry[w]) \/ \A v \in Worktrees : ~Active(entry[v]),
           worktree[w].status \notin {"none", "provisioning"} =>
                worktree'[w].status \notin {"none", "provisioning"}
    PROVE  GInv'
  <1>1. \A v \in Worktrees : RecordOK(v)'
    BY RecordKept DEF GInv
  <1>2. \A v \in Worktrees : EntryOK(v)'
    <2> SUFFICES ASSUME NEW v \in Worktrees \ {w} PROVE EntryOK(v)'
      OBVIOUS
    <2>1. worktree[v].status \notin {"none", "provisioning"} =>
                worktree'[v].status \notin {"none", "provisioning"}
      BY DEF SameRecord
    <2>. QED BY <2>1, EntryKept DEF GInv
  <1>3. \A v \in Worktrees : entry[v].status # "none" => entry'[v].status # "none"
    OBVIOUS
  <1>4. \A j \in Workers : WorkerOK(j)'
    BY <1>3, WorkerKept DEF GInv
  <1>5. OneActive'
    BY DEF GInv, OneActive
  <1>6. GraphOK'
    BY DEF Grows
  <1>. QED BY <1>1, <1>2, <1>4, <1>5, <1>6 DEF GInv

-----------------------------------------------------------------------------
(* What holds as long as calls have not overlapped *)

\* The others are between two passes of their loops.
Alone(k) ==
    \A j \in Workers \ {k} :
        worker[j].pc = "idle" /\ worker[j].mode = "execute" /\ worker[j].on = NoWorktree

\* A merge has its entry to itself, and what was merged before it began stays
\* merged if it is taken back.
MergeOK(k) ==
    /\ worker[k].mode = "recover" => worker[k].on \in interrupted
    /\ worker[k].pc \in MergeSteps => entry[worker[k].on].status = "merging"
    /\ worker[k].pc \in MergeSteps \ {"rebase", "rebased", "conflict", "undoing"} =>
          worker[k].head = entry[worker[k].on].head
    /\ worker[k].pc \in {"applied", "marking"} => worker[k].head \in history[target]
    /\ worker[k].pc \in {"applied", "marking", "undoing"} =>
          \A v \in Worktrees :
             entry[v].status = "merged" => entry[v].head \in history[worker[k].target]

RebasedAt(w) == \E k \in Workers : worker[k].pc = "rebased" /\ worker[k].on = w

\* What is checked out in a ready worktree, by the call that is under way.
HeadOK(w) ==
    /\ job[w].pc \notin {"recording", "undoing"} /\ ~RebasedAt(w) => branch[w] = worktree[w].head
    /\ job[w].pc \in {"recording", "undoing"} => branch[w] = job[w].commit
    /\ job[w].pc \in CommitSteps => job[w].head = worktree[w].head
    /\ \A k \in Workers :
          worker[k].pc = "rebased" /\ worker[k].on = w => branch[w] = worker[k].head

\* Who is behind what is unfinished.
TreeOK(w) ==
    /\ w \in conflicts => entry[w].status = "conflict"
    /\ Active(entry[w]) /\ w \notin interrupted => \E k \in Workers : worker[k].on = w
    /\ job[w].pc \in CommitSteps => ~Active(entry[w])
    /\ rebasing[w] # NoCommit /\ w \notin interrupted =>
          \E k \in Workers : worker[k].pc = "rebase" /\ worker[k].on = w
    /\ entry[w].status = "merged" => entry[w].head \in history[target]
    /\ worktree[w].status = "ready" /\ w \notin interrupted => HeadOK(w)

SInv == GInv /\ (\A w \in Worktrees : TreeOK(w)) /\ (\A k \in Workers : MergeOK(k))

\* The step respects the bound on overlaps.
Apart == \A w \in Worktrees : ~(job'[w].pc \in CommitSteps /\ Active(entry'[w]))

\* A worktree nobody touches.
LEMMA TreeKept ==
    ASSUME NEW v \in Worktrees, TreeOK(v), GInv, Grows, SameRecord(v), entry'[v] = entry[v],
           interrupted \subseteq interrupted', v \in conflicts' => v \in conflicts,
           entry[v].status = "merged" => entry'[v].head \in history'[target'],
           \/ worker' = worker
           \/ v \in interrupted'
           \/ \A k \in Workers : worker[k].on # v /\ worker'[k].on # v
    PROVE  TreeOK(v)'
  <1>1. Active(entry'[v]) /\ v \notin interrupted' => \E k \in Workers : worker'[k].on = v
    BY DEF TreeOK
  <1>2. rebasing'[v] # NoCommit /\ v \notin interrupted' =>
          \E k \in Workers : worker'[k].pc = "rebase" /\ worker'[k].on = v
    BY DEF TreeOK, SameRecord
  <1>3. worktree'[v].status = "ready" /\ v \notin interrupted' => HeadOK(v)'
    BY DEF TreeOK, SameRecord, HeadOK, RebasedAt
  <1>. QED BY <1>1, <1>2, <1>3 DEF TreeOK, SameRecord

\* A worker that does not move while no merge comes to its end.
LEMMA MergeKept ==
    ASSUME NEW k \in Workers, MergeOK(k), GInv, Grows, worker'[k] = worker[k],
           interrupted \subseteq interrupted',
           \A v \in Worktrees : entry[v].status = "merging" =>
                entry'[v].status = "merging" /\ entry'[v].head = entry[v].head,
           \A v \in Worktrees : entry'[v].status = "merged" =>
                entry[v].status = "merged" /\ entry'[v].head = entry[v].head,
           \A c \in Known : c \in history[target] => c \in history'[target']
    PROVE  MergeOK(k)'
  <1>1. \A c \in Known : history'[c] = history[c]
    BY DEF Grows
  <1>2. WorkerOK(k)
    BY DEF GInv
  <1>3. worker[k].pc \in MergeSteps => worker[k].on \in Worktrees /\ worker[k].head \in Known
    BY <1>2 DEF WorkerOK, MergeSteps
  <1>4. worker[k].pc \in {"applied", "marking", "undoing"} =>
            worker[k].pc \in MergeSteps /\ worker[k].target \in Known
    BY <1>2 DEF WorkerOK, MergeSteps, TargetSteps
  <1>. QED BY <1>1, <1>3, <1>4 DEF MergeOK

\* A step at one worktree that leaves entries, workers and the target alone.
LEMMA RecordStepSettles ==
    ASSUME SInv, GInv', NEW w \in Worktrees, Grows, UNCHANGED <<mvars, target>>,
           interrupted \subseteq interrupted',
           \A v \in Worktrees \ {w} : SameRecord(v),
           rebasing'[w] \in {rebasing[w], NoCommit},
           job'[w].pc \in CommitSteps => ~Active(entry'[w]),
           worktree'[w].status = "ready" /\ w \notin interrupted' => HeadOK(w)'
    PROVE  SInv'
  <1>1. entry' = entry /\ worker' = worker /\ conflicts' = conflicts /\ target' = target
    BY DEF mvars
  <1>2. \A c \in Known : history'[c] = history[c]
    BY DEF Grows
  <1>3. target \in Known
    BY DEF SInv, GInv, TargetOK
  <1>4. \A v \in Worktrees : entry[v].status = "merged" => entry'[v].head \in history'[target']
    BY <1>1, <1>2, <1>3 DEF SInv, TreeOK
  <1>5. \A v \in Worktrees \ {w} : TreeOK(v)'
    BY <1>1, <1>4, TreeKept DEF SInv
  <1>6. TreeOK(w)'
    BY <1>1, <1>4 DEF SInv, TreeOK
  <1>7. \A k \in Workers : MergeOK(k)'
    BY <1>1, <1>2, <1>3, MergeKept DEF SInv
  <1>. QED BY <1>5, <1>6, <1>7 DEF SInv

\* A step of the one worker that is at work.
LEMMA QueueStepSettles ==
    ASSUME SInv, GInv', NEW k \in Workers, NEW w \in Worktrees, Alone(k), Grows,
           \A j \in Workers \ {k} : worker'[j] = worker[j],
           worker[k].on \in {w, NoWorktree}, worker'[k].on \in {w, NoWorktree},
           interrupted \subseteq interrupted', conflicts' \subseteq conflicts \cup {w},
           \A v \in Worktrees \ {w} : SameRecord(v) /\ entry'[v] = entry[v],
           \A v \in Worktrees \ {w} :
                entry[v].status = "merged" => entry[v].head \in history'[target'],
           TreeOK(w)', MergeOK(k)'
    PROVE  SInv'
  <1>1. \A v \in Worktrees \ {w} : \A j \in Workers : worker[j].on # v /\ worker'[j].on # v
    BY QueueAssumption DEF Alone
  <1>2. \A v \in Worktrees \ {w} : TreeOK(v)'
    BY <1>1, TreeKept DEF SInv
  <1>3. \A j \in Workers : MergeOK(j)'
    BY DEF Alone, MergeOK, MergeSteps
  <1>. QED BY <1>2, <1>3 DEF SInv

\* What each step has to show.
Keeps == GInv' /\ (SInv /\ Apart => SInv')
KeepsBy(k) == GInv' /\ (SInv /\ Alone(k) /\ Apart => SInv')

\* While a commit is under way no worker has rebased the worktree, and a record
\* in provisioning has neither.
LEMMA CommitsApart ==
    ASSUME SInv, NEW w \in Worktrees
    PROVE  /\ job[w].pc \in CommitSteps => ~RebasedAt(w)
           /\ RebasedAt(w) => entry[w].status = "merging"
           /\ worktree[w].status = "provisioning" => ~RebasedAt(w)
  <1>1. RebasedAt(w) => entry[w].status = "merging"
    BY DEF SInv, MergeOK, RebasedAt, MergeSteps
  <1>. QED BY <1>1 DEF SInv, TreeOK, Active, GInv, EntryOK

\* A step at one worktree, as the actions below take it.
LEMMA RecordStep ==
    ASSUME GInv, NEW w \in Worktrees, Shapes', Grows, UNCHANGED <<mvars, target, pushed>>,
           interrupted \subseteq interrupted',
           \A v \in Worktrees \ {w} : SameRecord(v),
           RecordOK(w)',
           rebasing'[w] \in {rebasing[w], NoCommit},
           worktree[w].status \notin {"none", "provisioning"} =>
                worktree'[w].status \notin {"none", "provisioning"},
           SInv /\ worktree'[w].status = "ready" /\ w \notin interrupted' => HeadOK(w)'
    PROVE  Keeps
  <1>1. GInv'
    BY RecordStepKeeps
  <1>2. ASSUME SInv, Apart PROVE SInv'
    <2>1. job'[w].pc \in CommitSteps => ~Active(entry'[w])
      BY <1>2 DEF Apart
    <2>. QED BY <1>1, <1>2, <2>1, RecordStepSettles
  <1>. QED BY <1>1, <1>2 DEF Keeps

-----------------------------------------------------------------------------
(* Steps of the worktree services *)

\* Allocation takes up a record, new or old.
LEMMA ReserveKeeps ==
    ASSUME GInv, NEW w \in Worktrees, Reserve(w), UNCHANGED mvars
    PROVE  Keeps
  <1>1. Shapes /\ GraphOK /\ RecordOK(w) /\ EntryOK(w) /\ target \in Known
    BY DEF GInv, TargetOK
  <1>2. /\ job' \in [Worktrees -> JobRecords] /\ job'[w].pc = "creating"
        /\ \A v \in Worktrees \ {w} : job'[v] = job[v]
    BY <1>1, JobStepped DEF Reserve, Shapes, JobSteps
  <1>3. job[w].pc = "idle"
    BY DEF Reserve, Idle
  <1>4. \/ /\ worktree[w].status = "none"
           /\ worktree' \in [Worktrees -> WorktreeRecords]
           /\ worktree'[w].status = "provisioning" /\ worktree'[w].base = target
           /\ \A v \in Worktrees \ {w} : worktree'[v] = worktree[v]
        \/ worktree[w].status # "none" /\ worktree' = worktree
    <2>1. ASSUME worktree' = [worktree EXCEPT ![w] =
                             [status |-> "provisioning", base |-> target, head |-> NoCommit]]
          PROVE  /\ worktree' \in [Worktrees -> WorktreeRecords]
                 /\ worktree'[w].status = "provisioning" /\ worktree'[w].base = target
                 /\ \A v \in Worktrees \ {w} : worktree'[v] = worktree[v]
      <3> DEFINE r == [status |-> "provisioning", base |-> target, head |-> NoCommit]
      <3>1. r \in WorktreeRecords /\ r.status = "provisioning" /\ r.base = target
        BY <1>1, KnownCommits DEF WorktreeRecords, Statuses
      <3>2. worktree' = [worktree EXCEPT ![w] = r]
        BY <2>1, Zenon
      <3> HIDE DEF r
      <3>. QED BY <1>1, <3>1, <3>2 DEF Shapes
    <2>. QED BY <2>1 DEF Reserve
  <1>5. Shapes'
    BY <1>1, <1>2, <1>4 DEF Shapes, Reserve, repository, mvars
  <1>6. Grows
    BY <1>1, GrowsNot DEF Reserve, repository
  <1>7. UNCHANGED <<target, pushed, interrupted, branch, rebasing, checking, entry, history>>
    BY DEF Reserve, repository, mvars
  <1>8. RecordOK(w)'
    BY <1>1, <1>2, <1>3, <1>4, <1>7 DEF RecordOK, Known, CommitSteps
  <1>9. \A v \in Worktrees \ {w} : SameRecord(v)
    BY <1>2, <1>4, <1>7 DEF SameRecord
  <1>10. SInv /\ worktree'[w].status = "ready" /\ w \notin interrupted' => HeadOK(w)'
    BY <1>2, <1>3, <1>4, <1>7 DEF SInv, TreeOK, HeadOK, RebasedAt, CommitSteps, mvars
  <1>. QED BY <1>4, <1>5, <1>6, <1>7, <1>8, <1>9, <1>10, RecordStep

\* The worktree is created on disk, or its path was taken.
LEMMA CreateKeeps ==
    ASSUME GInv, NEW w \in Worktrees, CreateWorktree(w), UNCHANGED mvars
    PROVE  Keeps
  <1>1. /\ Shapes /\ GraphOK /\ RecordOK(w)
        /\ Known \subseteq 0 .. MaxCommits /\ NoCommit \notin Known
    BY KnownCommits DEF GInv
  <1>2. job[w].pc = "creating" /\ worktree[w].status # "none" /\ worktree[w].base \in Known
    BY <1>1 DEF CreateWorktree, RecordOK, Idle
  <1>3. /\ job' \in [Worktrees -> JobRecords]
        /\ \A v \in Worktrees \ {w} : job'[v] = job[v]
        /\ IF branch[w] = NoCommit THEN job'[w].pc = "created" /\ job'[w].head = worktree[w].base
                                   ELSE job'[w].pc = "refused"
    <2>1. CASE branch[w] = NoCommit
      <3> DEFINE r == [job[w] EXCEPT !.pc = "created", !.head = worktree[w].base]
      <3>1. job[w] \in JobRecords /\ worktree[w].base \in 0 .. MaxCommits /\ "created" \in JobSteps
        BY <1>1, <1>2 DEF Shapes, JobSteps
      <3>2. r \in JobRecords /\ r.pc = "created" /\ r.head = worktree[w].base
        BY <3>1, Zenon DEF JobRecords
      <3>3. job' = [job EXCEPT ![w] = r]
        BY <2>1, Zenon DEF CreateWorktree
      <3> HIDE DEF r
      <3>. QED BY <1>1, <2>1, <3>2, <3>3 DEF Shapes
    <2>2. CASE branch[w] # NoCommit
      BY <1>1, <2>2, JobStepped DEF CreateWorktree, Shapes, JobSteps, Step
    <2>. QED BY <2>1, <2>2
  <1>4. /\ branch' \in [Worktrees -> 0 .. MaxCommits]
        /\ branch'[w] = IF branch[w] = NoCommit THEN worktree[w].base ELSE branch[w]
        /\ \A v \in Worktrees \ {w} : branch'[v] = branch[v]
    BY <1>1, <1>2 DEF CreateWorktree, CreateWorktreeAt, Shapes
  <1>5. UNCHANGED <<target, pushed, interrupted, worktree, rebasing, checking, entry, history>>
    BY DEF CreateWorktree, mvars
  <1>6. Shapes'
    BY <1>1, <1>3, <1>4 DEF Shapes, CreateWorktree, mvars
  <1>7. Grows
    BY <1>1, <1>5, GrowsNot
  <1>8. RecordOK(w)'
    BY <1>1, <1>2, <1>3, <1>4, <1>5 DEF RecordOK, Known, CommitSteps
  <1>9. \A v \in Worktrees \ {w} : SameRecord(v)
    BY <1>3, <1>4, <1>5 DEF SameRecord
  <1>10. SInv /\ worktree'[w].status = "ready" /\ w \notin interrupted' => HeadOK(w)'
    BY <1>1, <1>2, <1>3, <1>4, <1>5 DEF SInv, TreeOK, HeadOK, RebasedAt, CommitSteps, RecordOK, mvars
  <1>. QED BY <1>5, <1>6, <1>7, <1>8, <1>9, <1>10, RecordStep

\* Only a record in provisioning becomes ready or fails.
LEMMA MarkWrites ==
    ASSUME worktree \in [Worktrees -> WorktreeRecords], NEW w \in Worktrees,
           NEW h \in 0 .. MaxCommits, MarkReady(w, h) \/ MarkFailed(w)
    PROVE  /\ worktree' \in [Worktrees -> WorktreeRecords]
           /\ worktree'[w].base = worktree[w].base
           /\ \A v \in Worktrees \ {w} : worktree'[v] = worktree[v]
           /\ \/ worktree' = worktree
              \/ worktree[w].status = "provisioning" /\ worktree'[w].status = "failed"
              \/ /\ worktree[w].status = "provisioning" /\ worktree'[w].status = "ready"
                 /\ worktree'[w].head = h /\ MarkReady(w, h)
           /\ worktree[w].status # "provisioning" => worktree' = worktree
  <1>1. CASE MarkReady(w, h) /\ worktree[w].status = "provisioning"
    BY <1>1, ReadyWritten DEF MarkReady
  <1>2. CASE MarkFailed(w) /\ worktree[w].status = "provisioning"
    BY <1>2, StatusWritten DEF MarkFailed, Statuses
  <1>3. CASE worktree[w].status # "provisioning"
    BY <1>3 DEF MarkReady, MarkFailed
  <1>. QED BY <1>1, <1>2, <1>3

\* Allocation writes what became of the worktree.
LEMMA AllocatedKeeps ==
    ASSUME GInv, NEW w \in Worktrees, Allocated(w), UNCHANGED mvars
    PROVE  Keeps
  <1>1. /\ Shapes /\ GraphOK /\ RecordOK(w)
        /\ Known \subseteq 0 .. MaxCommits /\ NoCommit \notin Known
    BY KnownCommits DEF GInv
  <1>2. /\ job' \in [Worktrees -> JobRecords] /\ job'[w].pc = "idle" /\ job'[w] = Idle
        /\ \A v \in Worktrees \ {w} : job'[v] = job[v]
    BY <1>1, JobEnded DEF Allocated, Shapes
  <1>3. job[w].pc \in {"created", "refused"} /\ worktree[w].status # "none"
    BY <1>1 DEF Allocated, RecordOK, Idle
  <1>4. job[w].head \in 0 .. MaxCommits
    BY <1>1 DEF Shapes, JobRecords
  <1>5. /\ worktree' \in [Worktrees -> WorktreeRecords]
        /\ worktree'[w].base = worktree[w].base
        /\ \A v \in Worktrees \ {w} : worktree'[v] = worktree[v]
        /\ \/ worktree' = worktree
           \/ worktree[w].status = "provisioning" /\ worktree'[w].status = "failed"
           \/ /\ worktree[w].status = "provisioning" /\ worktree'[w].status = "ready"
              /\ worktree'[w].head = job[w].head /\ job[w].pc = "created"
        /\ worktree[w].status # "provisioning" => worktree' = worktree
    <2>1. job[w].pc = "refused" => MarkFailed(w)
      BY DEF Allocated
    <2>2. MarkFailed(w) => worktree'[w].status # "ready" \/ worktree' = worktree
      BY <1>1, StatusWritten DEF MarkFailed, Shapes, Statuses
    <2>. QED BY <1>1, <1>3, <1>4, <2>1, <2>2, MarkWrites DEF Allocated, Shapes
  <1>6. UNCHANGED <<target, pushed, interrupted, branch, rebasing, checking, entry, history>>
    BY DEF Allocated, repository, mvars
  <1>7. Shapes'
    BY <1>1, <1>2, <1>5 DEF Shapes, Allocated, repository, mvars
  <1>8. Grows
    BY <1>1, <1>6, GrowsNot
  <1>9. RecordOK(w)'
    BY <1>1, <1>2, <1>3, <1>5, <1>6 DEF RecordOK, Known, CommitSteps
  <1>10. \A v \in Worktrees \ {w} : SameRecord(v)
    BY <1>2, <1>5, <1>6 DEF SameRecord
  <1>11. SInv /\ worktree'[w].status = "ready" /\ w \notin interrupted' => HeadOK(w)'
    <2> SUFFICES ASSUME SInv, worktree'[w].status = "ready", w \notin interrupted'
                 PROVE  HeadOK(w)'
      OBVIOUS
    <2>1. RebasedAt(w)' <=> RebasedAt(w)
      BY DEF RebasedAt, mvars
    <2>2. CASE worktree' = worktree
      BY <1>2, <1>3, <1>6, <2>1, <2>2 DEF SInv, TreeOK, HeadOK, CommitSteps, mvars
    <2>3. CASE worktree[w].status = "provisioning"
      BY <1>1, <1>2, <1>5, <1>6, <2>1, <2>3, CommitsApart
         DEF RecordOK, HeadOK, CommitSteps, RebasedAt
    <2>. QED BY <1>5, <2>2, <2>3
  <1>. QED BY <1>3, <1>5, <1>6, <1>7, <1>8, <1>9, <1>10, <1>11, RecordStep

\* An abandoned record is never ready again.
LEMMA AbandonKeeps ==
    ASSUME GInv, NEW w \in Worktrees, Abandon(w), UNCHANGED mvars
    PROVE  Keeps
  <1>1. Shapes /\ GraphOK /\ RecordOK(w)
    BY DEF GInv
  <1>2. /\ worktree' \in [Worktrees -> WorktreeRecords]
        /\ worktree'[w].status = "abandoned" /\ worktree'[w].base = worktree[w].base
        /\ worktree[w].status # "none"
        /\ \A v \in Worktrees \ {w} : worktree'[v] = worktree[v]
    BY <1>1, StatusWritten DEF Abandon, Abandonable, Shapes, Statuses
  <1>3. UNCHANGED <<target, pushed, interrupted, job, branch, rebasing, checking, entry, history>>
    BY DEF Abandon, repository, mvars
  <1>4. Shapes' /\ Grows
    BY <1>1, <1>2, GrowsNot DEF Shapes, Abandon, repository, mvars
  <1>5. RecordOK(w)'
    BY <1>1, <1>2, <1>3 DEF RecordOK, Known
  <1>6. \A v \in Worktrees \ {w} : SameRecord(v)
    BY <1>2, <1>3 DEF SameRecord
  <1>. QED BY <1>2, <1>3, <1>4, <1>5, <1>6, RecordStep

\* Cleanup removes directory, branch and changes ...
LEMMA RemoveKeeps ==
    ASSUME GInv, NEW w \in Worktrees, RemoveWorktree(w), UNCHANGED mvars
    PROVE  Keeps
  <1>1. Shapes /\ GraphOK /\ RecordOK(w) /\ NoCommit \in 0 .. MaxCommits
    BY KnownCommits DEF GInv
  <1>2. /\ job' \in [Worktrees -> JobRecords] /\ job'[w].pc = "removed"
        /\ \A v \in Worktrees \ {w} : job'[v] = job[v]
    BY <1>1, JobStepped DEF RemoveWorktree, Shapes, JobSteps
  <1>3. /\ branch' \in [Worktrees -> 0 .. MaxCommits] /\ branch'[w] = NoCommit
        /\ rebasing' \in [Worktrees -> 0 .. MaxCommits] /\ rebasing'[w] = NoCommit
        /\ files' \in [Worktrees -> FileStates]
        /\ \A v \in Worktrees \ {w} : branch'[v] = branch[v] /\ rebasing'[v] = rebasing[v]
    BY <1>1 DEF RemoveWorktree, RemoveWorktreeAt, Shapes, FileStates
  <1>4. UNCHANGED <<target, pushed, interrupted, worktree, checking, entry, history>>
    BY DEF RemoveWorktree, mvars
  <1>5. Shapes' /\ Grows
    BY <1>1, <1>2, <1>3, GrowsNot DEF Shapes, RemoveWorktree, mvars
  <1>6. worktree[w].status \in {"abandoned", "failed"}
    BY DEF RemoveWorktree, Cleanable
  <1>7. RecordOK(w)'
    BY <1>1, <1>2, <1>3, <1>4, <1>6 DEF RecordOK, Known, CommitSteps
  <1>8. \A v \in Worktrees \ {w} : SameRecord(v)
    BY <1>2, <1>3, <1>4 DEF SameRecord
  <1>. QED BY <1>3, <1>4, <1>5, <1>6, <1>7, <1>8, RecordStep

\* ... and writes so.
LEMMA CleanedKeeps ==
    ASSUME GInv, NEW w \in Worktrees, Cleaned(w), UNCHANGED mvars
    PROVE  Keeps
  <1>1. Shapes /\ GraphOK /\ RecordOK(w)
    BY DEF GInv
  <1>2. /\ job' \in [Worktrees -> JobRecords] /\ job'[w].pc = "idle" /\ job'[w] = Idle
        /\ \A v \in Worktrees \ {w} : job'[v] = job[v]
    BY <1>1, JobEnded DEF Cleaned, Shapes
  <1>3. worktree[w].status \in {"abandoned", "failed", "cleaned"}
    BY <1>1 DEF Cleaned, RecordOK
  <1>4. /\ worktree' \in [Worktrees -> WorktreeRecords]
        /\ worktree'[w].status \in {"abandoned", "failed", "cleaned"}
        /\ worktree'[w].base = worktree[w].base
        /\ \A v \in Worktrees \ {w} : worktree'[v] = worktree[v]
    BY <1>1, <1>3, StatusWritten DEF Cleaned, Shapes, Statuses
  <1>5. UNCHANGED <<target, pushed, interrupted, branch, rebasing, checking, entry, history>>
    BY DEF Cleaned, repository, mvars
  <1>6. Shapes' /\ Grows
    BY <1>1, <1>2, <1>4, GrowsNot DEF Shapes, Cleaned, repository, mvars
  <1>7. RecordOK(w)'
    BY <1>1, <1>2, <1>3, <1>4, <1>5 DEF RecordOK, Known, CommitSteps
  <1>8. \A v \in Worktrees \ {w} : SameRecord(v)
    BY <1>2, <1>4, <1>5 DEF SameRecord
  <1>. QED BY <1>3, <1>4, <1>5, <1>6, <1>7, <1>8, RecordStep

\* Reconciliation looks at the disk ...
LEMMA InspectStaleKeeps ==
    ASSUME GInv, NEW w \in Worktrees, InspectStale(w), UNCHANGED mvars
    PROVE  Keeps
  <1>1. Shapes /\ GraphOK /\ RecordOK(w)
    BY DEF GInv
  <1>2. /\ checking' \in [Worktrees -> Checks]
        /\ checking'[w] = "present" => branch[w] # NoCommit
        /\ \A v \in Worktrees \ {w} : checking'[v] = checking[v]
    BY <1>1 DEF InspectStale, InspectHead, Shapes, Checks
  <1>3. UNCHANGED <<target, pushed, interrupted, worktree, job, branch, rebasing, entry, history>>
    BY DEF InspectStale, repository, mvars
  <1>4. Shapes' /\ Grows
    BY <1>1, <1>2, GrowsNot DEF Shapes, InspectStale, repository, mvars
  <1>5. worktree[w].status = "provisioning"
    BY DEF InspectStale
  <1>6. RecordOK(w)'
    BY <1>1, <1>2, <1>3, <1>5 DEF RecordOK, Known
  <1>7. \A v \in Worktrees \ {w} : SameRecord(v)
    BY <1>2, <1>3 DEF SameRecord
  <1>. QED BY <1>3, <1>4, <1>5, <1>6, <1>7, RecordStep

\* ... and writes what it saw, if the record is still in provisioning.
LEMMA ReconcileStaleKeeps ==
    ASSUME GInv, NEW w \in Worktrees, ReconcileStale(w), UNCHANGED mvars
    PROVE  Keeps
  <1>1. /\ Shapes /\ GraphOK /\ RecordOK(w)
        /\ Known \subseteq 0 .. MaxCommits /\ NoCommit \notin Known
    BY KnownCommits DEF GInv
  <1>2. /\ checking' \in [Worktrees -> Checks] /\ checking'[w] = "none"
        /\ \A v \in Worktrees \ {w} : checking'[v] = checking[v]
    BY <1>1 DEF ReconcileStale, Shapes, Checks
  <1>3. checking[w] # "none" /\ worktree[w].status # "none" /\ worktree[w].base \in 0 .. MaxCommits
    BY <1>1 DEF ReconcileStale, RecordOK
  <1>4. /\ worktree' \in [Worktrees -> WorktreeRecords]
        /\ worktree'[w].base = worktree[w].base
        /\ \A v \in Worktrees \ {w} : worktree'[v] = worktree[v]
        /\ \/ worktree' = worktree
           \/ worktree[w].status = "provisioning" /\ worktree'[w].status = "failed"
           \/ /\ worktree[w].status = "provisioning" /\ worktree'[w].status = "ready"
              /\ worktree'[w].head = worktree[w].base /\ checking[w] = "present"
        /\ worktree[w].status # "provisioning" => worktree' = worktree
    <2>1. checking[w] = "absent" => MarkFailed(w)
      BY DEF ReconcileStale
    <2>2. MarkFailed(w) => worktree'[w].status # "ready" \/ worktree' = worktree
      BY <1>1, StatusWritten DEF MarkFailed, Shapes, Statuses
    <2>. QED BY <1>1, <1>3, <2>1, <2>2, MarkWrites DEF ReconcileStale, Shapes, Checks
  <1>5. UNCHANGED <<target, pushed, interrupted, job, branch, rebasing, entry, history>>
    BY DEF ReconcileStale, repository, mvars
  <1>6. Shapes' /\ Grows
    BY <1>1, <1>2, <1>4, GrowsNot DEF Shapes, ReconcileStale, repository, mvars
  <1>7. RecordOK(w)'
    BY <1>1, <1>2, <1>3, <1>4, <1>5 DEF RecordOK, Known, CommitSteps
  <1>8. \A v \in Worktrees \ {w} : SameRecord(v)
    BY <1>2, <1>4, <1>5 DEF SameRecord
  <1>9. SInv /\ worktree'[w].status = "ready" /\ w \notin interrupted' => HeadOK(w)'
    <2> SUFFICES ASSUME SInv, worktree'[w].status = "ready", w \notin interrupted'
                 PROVE  HeadOK(w)'
      OBVIOUS
    <2>1. RebasedAt(w)' <=> RebasedAt(w)
      BY DEF RebasedAt, mvars
    <2>2. CASE worktree' = worktree
      BY <1>5, <2>1, <2>2 DEF SInv, TreeOK, HeadOK, CommitSteps, mvars
    <2>3. CASE worktree[w].status = "provisioning"
      BY <1>1, <1>4, <1>5, <2>1, <2>3, CommitsApart
         DEF RecordOK, HeadOK, CommitSteps, RebasedAt
    <2>. QED BY <1>4, <2>2, <2>3
  <1>. QED BY <1>3, <1>4, <1>5, <1>6, <1>7, <1>8, <1>9, RecordStep

\* What is checked out in a ready worktree after a step that moves its call alone.
LEMMA HeadFollowsJob ==
    ASSUME SInv, NEW w \in Worktrees, worktree[w].status = "ready", w \notin interrupted,
           UNCHANGED <<worker, branch, worktree>>,
           job'[w].pc \in {"recording", "undoing"} <=> job[w].pc \in {"recording", "undoing"},
           job'[w].pc \in {"recording", "undoing"} => job'[w].commit = job[w].commit,
           job'[w].pc \in CommitSteps => job'[w].head = worktree[w].head
    PROVE  HeadOK(w)'
  <1>1. HeadOK(w)
    BY DEF SInv, TreeOK
  <1>. QED BY <1>1 DEF HeadOK, RebasedAt

\* A commit call begins with the head the record has.
LEMMA StartCommitKeeps ==
    ASSUME GInv, NEW w \in Worktrees, StartCommit(w), UNCHANGED mvars
    PROVE  Keeps
  <1>1. Shapes /\ GraphOK /\ RecordOK(w)
    BY DEF GInv
  <1>2. job[w].pc = "idle" /\ worktree[w].status = "ready" /\ worktree[w].head \in Known
    BY <1>1 DEF StartCommit, Idle, ValidFence, RecordOK
  <1>3. /\ job' \in [Worktrees -> JobRecords]
        /\ job'[w].pc = "staging" /\ job'[w].head = worktree[w].head
        /\ \A v \in Worktrees \ {w} : job'[v] = job[v]
    <2> DEFINE r == [pc |-> "staging", head |-> worktree[w].head, commit |-> NoCommit]
    <2>1. r \in JobRecords /\ r.pc = "staging" /\ r.head = worktree[w].head
      BY <1>1, <1>2, KnownCommits DEF JobRecords, JobSteps, CommitSteps
    <2>2. job' = [job EXCEPT ![w] = r]
      BY Zenon DEF StartCommit
    <2> HIDE DEF r
    <2>. QED BY <1>1, <2>1, <2>2 DEF Shapes
  <1>4. UNCHANGED <<target, pushed, interrupted, worktree, branch, rebasing, checking, entry, history, worker>>
    BY DEF StartCommit, repository, mvars
  <1>5. Shapes' /\ Grows
    BY <1>1, <1>3, GrowsNot DEF Shapes, StartCommit, repository, mvars
  <1>6. RecordOK(w)'
    BY <1>1, <1>2, <1>3, <1>4 DEF RecordOK, Known, CommitSteps
  <1>7. \A v \in Worktrees \ {w} : SameRecord(v)
    BY <1>3, <1>4 DEF SameRecord
  <1>8. SInv /\ worktree'[w].status = "ready" /\ w \notin interrupted' => HeadOK(w)'
    BY <1>2, <1>3, <1>4, HeadFollowsJob
  <1>. QED BY <1>2, <1>4, <1>5, <1>6, <1>7, <1>8, RecordStep

\* Staging, the second look and what ends there move the call, and files on disk.
LEMMA StagingKeeps ==
    ASSUME GInv, NEW w \in Worktrees, Stage(w) \/ Revalidate(w), UNCHANGED mvars
    PROVE  Keeps
  <1>1. Shapes /\ GraphOK /\ RecordOK(w)
    BY DEF GInv
  <1>2. /\ job[w].pc \in {"staging", "staged"}
        /\ job' \in [Worktrees -> JobRecords]
        /\ \/ job'[w] = Idle /\ job'[w].pc = "idle"
           \/ job'[w].pc \in {"staged", "committing"} /\ job'[w].head = job[w].head
        /\ \A v \in Worktrees \ {w} : job'[v] = job[v]
    BY <1>1, JobStepped, JobEnded DEF Stage, Revalidate, Shapes, JobSteps, CommitSteps
  <1>3. files' \in [Worktrees -> FileStates]
    BY <1>1 DEF Stage, StagePaths, Revalidate, Unstaged, Shapes, FileStates
  <1>4. /\ UNCHANGED <<target, pushed, interrupted, worktree, branch, rebasing>>
        /\ UNCHANGED <<checking, entry, history, worker>>
    BY DEF Stage, Revalidate, mvars
  <1>5. Shapes' /\ Grows
    BY <1>1, <1>2, <1>3, <1>4, GrowsNot DEF Shapes, Stage, Revalidate, mvars
  <1>6. worktree[w].status \notin {"none", "provisioning"}
    BY <1>1, <1>2 DEF RecordOK, Idle
  <1>7. RecordOK(w)'
    BY <1>1, <1>2, <1>4, <1>6 DEF RecordOK, Known, CommitSteps
  <1>8. \A v \in Worktrees \ {w} : SameRecord(v)
    BY <1>2, <1>4 DEF SameRecord
  <1>9. ASSUME SInv, worktree'[w].status = "ready", w \notin interrupted' PROVE HeadOK(w)'
    <2>1. job[w].head = worktree[w].head
      BY <1>2, <1>4, <1>9 DEF SInv, TreeOK, HeadOK, CommitSteps
    <2>. QED BY <1>2, <1>4, <1>9, <2>1, HeadFollowsJob DEF CommitSteps
  <1>. QED BY <1>4, <1>5, <1>6, <1>7, <1>8, <1>9, RecordStep

\* The commit moves the branch; record and queue learn of it later.
LEMMA CommitKeeps ==
    ASSUME GInv, NEW w \in Worktrees, Commit(w), UNCHANGED mvars
    PROVE  Keeps
  <1>1. /\ Shapes /\ GraphOK /\ RecordOK(w)
        /\ Known \subseteq 0 .. MaxCommits /\ NoCommit \notin Known
    BY KnownCommits DEF GInv
  <1>2. /\ job[w].pc = "committing" /\ job[w].head \in Known
        /\ worktree[w].status \notin {"none", "provisioning"}
    BY <1>1 DEF Commit, RecordOK, CommitSteps, Idle
  <1>3. /\ UNCHANGED <<target, pushed, interrupted, worktree, rebasing, checking, entry, worker>>
        /\ UNCHANGED <<fenced, conflicts, working, faults, gated>>
    BY DEF Commit, mvars
  <1>4. CASE ~Committable(w)
    <2>1. /\ job' \in [Worktrees -> JobRecords] /\ job'[w] = Idle /\ job'[w].pc = "idle"
          /\ \A v \in Worktrees \ {w} : job'[v] = job[v]
          /\ UNCHANGED <<history, branch, files>>
      BY <1>1, <1>4, JobEnded DEF Commit, Shapes
    <2>2. Shapes' /\ Grows
      BY <1>1, <1>3, <2>1, GrowsNot DEF Shapes
    <2>3. RecordOK(w)'
      BY <1>1, <1>2, <1>3, <2>1 DEF RecordOK, Known, CommitSteps
    <2>4. \A v \in Worktrees \ {w} : SameRecord(v)
      BY <1>3, <2>1 DEF SameRecord
    <2>5. SInv /\ worktree'[w].status = "ready" /\ w \notin interrupted' => HeadOK(w)'
      BY <1>2, <1>3, <2>1, HeadFollowsJob DEF CommitSteps
    <2>. QED BY <1>2, <1>3, <2>2, <2>3, <2>4, <2>5, RecordStep DEF mvars
  <1>5. CASE Committable(w)
    <2>1. /\ branch[w] \in Known /\ CanCommit /\ history' = Extended(branch[w])
          /\ branch' = [branch EXCEPT ![w] = NewCommit]
          /\ files' = [files EXCEPT ![w] = "clean"]
      BY <1>1, <1>5 DEF Commit, CommitStaged, Committable, RecordOK
    <2>2. Grows /\ NewCommit \in Known' /\ NewCommit \notin Known
      BY <1>1, <2>1, GrowsByOne
    <2>3. GraphOK' /\ Known \subseteq Known' /\ NewCommit \in 0 .. MaxCommits
      <3>1. NewCommit \in 0 .. MaxCommits
        BY <1>1, <2>1, WorktreeAssumption DEF CanCommit, NewCommit, GraphOK
      <3>. QED BY <2>2, <3>1 DEF Grows
    <2>4. /\ job' \in [Worktrees -> JobRecords] /\ job'[w].pc = "recording"
          /\ job'[w].head = job[w].head /\ job'[w].commit = NewCommit
          /\ \A v \in Worktrees \ {w} : job'[v] = job[v]
      <3> DEFINE r == [job[w] EXCEPT !.pc = "recording", !.commit = NewCommit]
      <3>1. job[w] \in JobRecords /\ "recording" \in JobSteps
        BY <1>1 DEF Shapes, JobSteps, CommitSteps
      <3>2. /\ r \in JobRecords /\ r.pc = "recording" /\ r.head = job[w].head
            /\ r.commit = NewCommit
        BY <2>3, <3>1, Zenon DEF JobRecords
      <3>3. job' = [job EXCEPT ![w] = r]
        BY <1>5, Zenon DEF Commit
      <3> HIDE DEF r
      <3>. QED BY <1>1, <3>2, <3>3 DEF Shapes
    <2>5. /\ branch' \in [Worktrees -> 0 .. MaxCommits] /\ branch'[w] = NewCommit
          /\ \A v \in Worktrees \ {w} : branch'[v] = branch[v]
          /\ files' \in [Worktrees -> FileStates]
      BY <1>1, <2>1, <2>3 DEF Shapes, FileStates
    <2>6. Shapes'
      BY <1>1, <1>3, <2>4, <2>5 DEF Shapes
    <2>7. RecordOK(w)'
      <3>1. NewCommit # NoCommit
        BY <2>1, <1>1 DEF NewCommit, NoCommit, GraphOK
      <3>. QED BY <1>1, <1>2, <1>3, <2>2, <2>3, <2>4, <2>5, <3>1 DEF RecordOK, CommitSteps
    <2>8. \A v \in Worktrees \ {w} : SameRecord(v)
      BY <1>3, <2>4, <2>5 DEF SameRecord
    <2>9. ASSUME SInv, worktree'[w].status = "ready", w \notin interrupted' PROVE HeadOK(w)'
      <3>1. HeadOK(w) /\ ~RebasedAt(w)
        BY <1>2, <1>3, <2>9, CommitsApart DEF SInv, TreeOK, CommitSteps
      <3>. QED BY <1>2, <1>3, <2>4, <2>5, <3>1 DEF HeadOK, RebasedAt, CommitSteps
    <2>. QED BY <1>2, <1>3, <2>2, <2>6, <2>7, <2>8, <2>9, RecordStep DEF mvars
  <1>. QED BY <1>4, <1>5

\* The durable head is swapped, or the commit is to be taken back.
LEMMA RecordCommitKeeps ==
    ASSUME GInv, NEW w \in Worktrees, RecordCommit(w), UNCHANGED mvars
    PROVE  Keeps
  <1>1. Shapes /\ GraphOK /\ RecordOK(w)
    BY DEF GInv
  <1>2. /\ job[w].pc = "recording" /\ job[w].head \in Known /\ job[w].commit \in Known
        /\ worktree[w].status \notin {"none", "provisioning"}
    BY <1>1 DEF RecordCommit, RecordOK, CommitSteps, Idle
  <1>3. job' \in [Worktrees -> JobRecords] /\ \A v \in Worktrees \ {w} : job'[v] = job[v]
    BY <1>1, JobStepped, JobEnded DEF RecordCommit, Shapes, JobSteps, CommitSteps
  <1>4. /\ worktree' \in [Worktrees -> WorktreeRecords]
        /\ worktree'[w].status = worktree[w].status /\ worktree'[w].base = worktree[w].base
        /\ \A v \in Worktrees \ {w} : worktree'[v] = worktree[v]
        /\ \/ /\ worktree'[w].head = job[w].commit /\ job'[w] = Idle /\ job'[w].pc = "idle"
           \/ /\ worktree'[w].head = worktree[w].head /\ job'[w].pc = "undoing"
              /\ job'[w].head = job[w].head /\ job'[w].commit = job[w].commit
    <2>1. CASE ValidFence(w) /\ worktree[w].head = job[w].head
      BY <1>1, <1>2, <2>1, KnownCommits, HeadWritten, JobEnded DEF RecordCommit, Shapes
    <2>2. CASE ~(ValidFence(w) /\ worktree[w].head = job[w].head)
      BY <1>1, <2>2, JobStepped DEF RecordCommit, Shapes, JobSteps, CommitSteps
    <2>. QED BY <2>1, <2>2
  <1>5. /\ UNCHANGED <<target, pushed, interrupted, branch, rebasing, checking, entry>>
        /\ UNCHANGED <<history, worker>>
    BY DEF RecordCommit, repository, mvars
  <1>6. Shapes' /\ Grows
    BY <1>1, <1>3, <1>4, GrowsNot DEF Shapes, RecordCommit, repository, mvars
  <1>7. RecordOK(w)'
    BY <1>1, <1>2, <1>4, <1>5 DEF RecordOK, Known, CommitSteps
  <1>8. \A v \in Worktrees \ {w} : SameRecord(v)
    BY <1>3, <1>4, <1>5 DEF SameRecord
  <1>9. ASSUME SInv, worktree'[w].status = "ready", w \notin interrupted' PROVE HeadOK(w)'
    <2>1. HeadOK(w) /\ ~RebasedAt(w)
      BY <1>2, <1>4, <1>5, <1>9, CommitsApart DEF SInv, TreeOK, CommitSteps
    <2>. QED BY <1>2, <1>4, <1>5, <2>1 DEF HeadOK, RebasedAt, CommitSteps
  <1>. QED BY <1>2, <1>4, <1>5, <1>6, <1>7, <1>8, <1>9, RecordStep

\* A commit is taken back, if it is still checked out.
LEMMA RollbackCommitKeeps ==
    ASSUME GInv, NEW w \in Worktrees, RollbackCommit(w), UNCHANGED mvars
    PROVE  Keeps
  <1>1. /\ Shapes /\ GraphOK /\ RecordOK(w)
        /\ Known \subseteq 0 .. MaxCommits /\ NoCommit \notin Known
    BY KnownCommits DEF GInv
  <1>2. /\ job[w].pc = "undoing" /\ job[w].head \in Known /\ job[w].commit \in Known
        /\ worktree[w].status \notin {"none", "provisioning"}
    BY <1>1 DEF RollbackCommit, RecordOK, CommitSteps, Idle
  <1>3. /\ job' \in [Worktrees -> JobRecords] /\ job'[w] = Idle /\ job'[w].pc = "idle"
        /\ \A v \in Worktrees \ {w} : job'[v] = job[v]
    BY <1>1, JobEnded DEF RollbackCommit, Shapes
  <1>4. /\ branch' \in [Worktrees -> 0 .. MaxCommits]
        /\ branch'[w] = IF branch[w] = job[w].commit THEN job[w].head ELSE branch[w]
        /\ \A v \in Worktrees \ {w} : branch'[v] = branch[v]
        /\ files' \in [Worktrees -> FileStates]
    BY <1>1, <1>2 DEF RollbackCommit, ResetMixed, Shapes, FileStates
  <1>5. /\ UNCHANGED <<target, pushed, interrupted, worktree, rebasing, checking, entry>>
        /\ UNCHANGED <<history, worker>>
    BY DEF RollbackCommit, mvars
  <1>6. Shapes' /\ Grows
    BY <1>1, <1>3, <1>4, GrowsNot DEF Shapes, RollbackCommit, mvars
  <1>7. RecordOK(w)'
    BY <1>1, <1>2, <1>3, <1>4, <1>5 DEF RecordOK, Known, CommitSteps
  <1>8. \A v \in Worktrees \ {w} : SameRecord(v)
    BY <1>3, <1>4, <1>5 DEF SameRecord
  <1>9. ASSUME SInv, worktree'[w].status = "ready", w \notin interrupted' PROVE HeadOK(w)'
    <2>1. HeadOK(w) /\ ~RebasedAt(w)
      BY <1>2, <1>5, <1>9, CommitsApart DEF SInv, TreeOK, CommitSteps
    <2>. QED BY <1>2, <1>3, <1>4, <1>5, <2>1 DEF HeadOK, RebasedAt, CommitSteps
  <1>. QED BY <1>2, <1>5, <1>6, <1>7, <1>8, <1>9, RecordStep

\* A caller dies: only what it meant to do is gone.
LEMMA CrashJobKeeps ==
    ASSUME GInv, NEW w \in Worktrees, CrashJob(w), UNCHANGED mvars
    PROVE  Keeps
  <1>1. Shapes /\ GraphOK /\ RecordOK(w)
    BY DEF GInv
  <1>2. /\ job' \in [Worktrees -> JobRecords] /\ job'[w] = Idle /\ job'[w].pc = "idle"
        /\ \A v \in Worktrees \ {w} : job'[v] = job[v]
    BY <1>1, JobEnded DEF CrashJob, Shapes
  <1>3. /\ UNCHANGED <<target, pushed, worktree, branch, rebasing, checking, entry, history>>
        /\ UNCHANGED <<fenced, conflicts, working, worker, files>>
        /\ interrupted' = interrupted \cup {w} /\ faults' \in 0 .. MaxFaults
    BY <1>1, WorktreeAssumption DEF CrashJob, Shapes, repository, mvars
  <1>4. Shapes' /\ Grows
    BY <1>1, <1>2, <1>3, GrowsNot DEF Shapes
  <1>5. RecordOK(w)'
    BY <1>1, <1>2, <1>3 DEF RecordOK, Known, CommitSteps
  <1>6. \A v \in Worktrees \ {w} : SameRecord(v)
    BY <1>2, <1>3 DEF SameRecord
  <1>. QED BY <1>3, <1>4, <1>5, <1>6, RecordStep

\* Edits on disk and the loss of a lease touch none of it.
LEMMA ElsewhereKeeps ==
    ASSUME GInv, NEW w \in Worktrees, Edit(w) \/ LoseFence(w), UNCHANGED mvars
    PROVE  Keeps
  <1>1. Shapes /\ GraphOK /\ RecordOK(w)
    BY DEF GInv
  <1>2. /\ UNCHANGED <<target, pushed, worktree, branch, rebasing, checking, entry, history>>
        /\ UNCHANGED <<conflicts, working, worker, interrupted, job, faults>>
        /\ fenced' \subseteq fenced /\ files' \in [Worktrees -> FileStates]
    BY <1>1 DEF Edit, LoseFence, Shapes, FileStates, repository, wvars, mvars
  <1>3. Shapes' /\ Grows
    BY <1>1, <1>2, GrowsNot DEF Shapes
  <1>4. RecordOK(w)'
    BY <1>1, <1>2 DEF RecordOK, Known
  <1>5. \A v \in Worktrees \ {w} : SameRecord(v)
    BY <1>2 DEF SameRecord
  <1>6. SInv /\ worktree'[w].status = "ready" /\ w \notin interrupted' => HeadOK(w)'
    BY <1>2, HeadFollowsJob DEF SInv, TreeOK, HeadOK
  <1>. QED BY <1>2, <1>3, <1>4, <1>5, <1>6, RecordStep

\* A push goes on top of the target: nothing on it is lost, and no merge that was
\* applied before the push can be taken back over it.
LEMMA PushKeeps ==
    ASSUME GInv, Push, UNCHANGED mvars
    PROVE  Keeps
  <1>1. Shapes /\ GraphOK /\ TargetOK
    BY DEF GInv
  <1>2. /\ UNCHANGED <<worktree, job, checking, branch, files, rebasing, fenced, working>>
        /\ UNCHANGED <<interrupted, faults, entry, conflicts, worker, gated>>
    BY DEF Push, wvars, mvars
  <1>3. /\ Grows /\ target' \in Known' /\ target' \notin Known
        /\ history'[target'] = history[target] \cup {target'}
        /\ pushed' = pushed \cup {target'}
    BY <1>1, GrowsByOne DEF Push, TargetOK
  <1>4. Known \subseteq Known' /\ GraphOK' /\ \A v \in Worktrees : SameRecord(v)
    BY <1>2, <1>3 DEF Grows, SameRecord
  <1>5. GInv'
    <2>1. Shapes' /\ OneActive'
      BY <1>1, <1>2 DEF Shapes, GInv, OneActive
    <2>2. TargetOK'
      BY <1>1, <1>2, <1>3, <1>4 DEF TargetOK, TargetIsGated, ForeignPushesKept
    <2>3. \A v \in Worktrees : RecordOK(v)'
      BY <1>1, <1>2, <1>3, <1>4, RecordKept DEF GInv
    <2>4. \A v \in Worktrees : EntryOK(v)'
      BY <1>2, <1>3, EntryKept DEF GInv
    <2>5. \A k \in Workers : WorkerOK(k)'
      BY <1>1, <1>2, <1>3, WorkerKept DEF GInv
    <2>. QED BY <1>4, <2>1, <2>2, <2>3, <2>4, <2>5 DEF GInv
  <1>6. ASSUME SInv PROVE SInv'
    <2>1. \A c \in history[target] : c \in history'[target']
      BY <1>3
    <2>2. \A v \in Worktrees : TreeOK(v)'
      BY <1>2, <1>3, <1>4, <1>6, <2>1, TreeKept DEF SInv, TreeOK
    <2>3. \A k \in Workers : MergeOK(k)'
      BY <1>2, <1>3, <1>6, <2>1, MergeKept DEF SInv
    <2>. QED BY <1>5, <2>2, <2>3 DEF SInv
  <1>. QED BY <1>5, <1>6 DEF Keeps

\* Every step of the worktree services and of others.
LEMMA WorktreeStepKeeps ==
    ASSUME GInv, WorktreeStep, UNCHANGED mvars
    PROVE  Keeps
  <1>1. working \subseteq Worktrees
    BY DEF GInv, Shapes
  <1>2. ASSUME NEW w \in Worktrees, LoseFence(w) \/ Edit(w) PROVE Keeps
    BY <1>2, ElsewhereKeeps
  <1>3. ASSUME NEW w \in Worktrees, Allocation(w) PROVE Keeps
    BY <1>3, ReserveKeeps, CreateKeeps, AllocatedKeeps, AbandonKeeps, RemoveKeeps, CleanedKeeps,
       InspectStaleKeeps, ReconcileStaleKeeps DEF Allocation
  <1>4. ASSUME NEW w \in Worktrees, CommitCall(w) PROVE Keeps
    BY <1>4, StartCommitKeeps, StagingKeeps, CommitKeeps, RecordCommitKeeps, RollbackCommitKeeps
       DEF CommitCall
  <1>5. ASSUME NEW w \in Worktrees, CrashJob(w) PROVE Keeps
    BY <1>5, CrashJobKeeps
  <1>. QED BY <1>1, <1>2, <1>3, <1>4, <1>5, PushKeeps DEF WorktreeStep

-----------------------------------------------------------------------------
(* Steps of the queue's users *)

\* A step of the queue at one worktree and one worker, as the actions below take it.
LEMMA WorkerMoves ==
    ASSUME GInv, NEW w \in Worktrees, NEW k \in Workers, Shapes', Grows,
           UNCHANGED <<gated, pushed, job, checking>>,
           interrupted \subseteq interrupted', conflicts' \subseteq conflicts \cup {w},
           \A v \in Worktrees \ {w} : SameRecord(v) /\ entry'[v] = entry[v],
           \A j \in Workers \ {k} : worker'[j] = worker[j],
           worktree'[w].status = worktree[w].status,
           entry[w].status # "none" => entry'[w].status # "none",
           Active(entry'[w]) => Active(entry[w]) \/ \A v \in Worktrees : ~Active(entry[v]),
           RecordOK(w)', EntryOK(w)', WorkerOK(k)', TargetOK',
           worker[k].on \in {w, NoWorktree}, worker'[k].on \in {w, NoWorktree},
           SInv /\ Alone(k) /\ Apart =>
              /\ \A v \in Worktrees \ {w} :
                    entry[v].status = "merged" => entry[v].head \in history'[target']
              /\ TreeOK(w)' /\ MergeOK(k)'
    PROVE  KeepsBy(k)
  <1>1. GInv'
    BY QueueStepKeeps
  <1>2. ASSUME SInv, Alone(k), Apart PROVE SInv'
    BY <1>1, <1>2, QueueStepSettles
  <1>. QED BY <1>1, <1>2 DEF KeepsBy

\* A step of an entry alone.
LEMMA EntryStepKeeps ==
    ASSUME GInv, NEW w \in Worktrees,
           UNCHANGED <<wvars, repository, conflicts, worker>>,
           entry' \in [Worktrees -> EntryRecords], entry'[w].status \in {"queued", "cancelled"},
           \A v \in Worktrees \ {w} : entry'[v] = entry[v],
           entry[w].status \in {"none", "queued", "claimed"},
           gated \subseteq gated', gated' \subseteq gated \cup {entry'[w].head},
           EntryOK(w)'
    PROVE  Keeps
  <1>1. Shapes /\ GraphOK /\ TargetOK
    BY DEF GInv
  <1>2. /\ UNCHANGED <<worktree, job, checking, branch, files, rebasing, fenced, working>>
        /\ UNCHANGED <<interrupted, faults, conflicts, worker, history, target, pushed>>
    BY DEF wvars, repository
  <1>3. Grows /\ Shapes' /\ Known' = Known /\ \A v \in Worktrees : SameRecord(v)
    BY <1>1, <1>2, GrowsNot DEF Shapes, SameRecord, Known
  <1>4. entry'[w].status # "none" /\ ~Active(entry'[w])
    BY DEF Active
  <1>5. RecordOK(w)'
    BY <1>2, <1>3, <1>4 DEF GInv, RecordOK
  <1>6. TargetOK'
    BY <1>1, <1>2, <1>3, <1>4 DEF TargetOK, EntryOK, TargetIsGated, ForeignPushesKept
  <1>7. GInv'
    <2>1. \A v \in Worktrees : RecordOK(v)'
      BY <1>3, <1>5, RecordKept DEF GInv
    <2>2. \A v \in Worktrees : EntryOK(v)'
      BY <1>2, <1>3, EntryKept DEF GInv
    <2>3. \A k \in Workers : WorkerOK(k)'
      BY <1>2, <1>3, <1>4, WorkerKept DEF GInv
    <2>4. OneActive' /\ GraphOK'
      BY <1>3, <1>4 DEF GInv, OneActive, Grows
    <2>. QED BY <1>3, <1>6, <2>1, <2>2, <2>3, <2>4 DEF GInv
  <1>8. ASSUME SInv PROVE SInv'
    <2>1. \A v \in Worktrees \ {w} : TreeOK(v)'
      BY <1>2, <1>3, <1>8, TreeKept DEF SInv, TreeOK
    <2>2. TreeOK(w)'
      BY <1>2, <1>3, <1>4, <1>8 DEF SInv, TreeOK, HeadOK, RebasedAt
    <2>3. \A k \in Workers : MergeOK(k)'
      BY <1>2, <1>3, <1>8, MergeKept DEF SInv
    <2>. QED BY <1>7, <2>1, <2>2, <2>3 DEF SInv
  <1>. QED BY <1>7, <1>8 DEF Keeps

\* The number of the next entry is within range.
LEMMA SequenceTyped ==
    ASSUME entry \in [Worktrees -> EntryRecords], NEW w \in Worktrees, entry[w].status = "none"
    PROVE  NextSequence \in 0 .. Cardinality(Worktrees)
  <1> DEFINE used == {v \in Worktrees : entry[v].status # "none"}
  <1>1. used \subseteq Worktrees \ {w} /\ IsFiniteSet(Worktrees \ {w})
    BY WorktreeAssumption, FS_Subset
  <1>2. Cardinality(Worktrees \ {w}) = Cardinality(Worktrees) - 1
    BY WorktreeAssumption, FS_RemoveElement
  <1>3. /\ Cardinality(used) \in Nat /\ Cardinality(used) <= Cardinality(Worktrees \ {w})
        /\ Cardinality(Worktrees) \in Nat
    BY <1>1, WorktreeAssumption, FS_Subset, FS_CardinalityType
  <1>. QED BY <1>2, <1>3 DEF NextSequence

\* A ready worktree is enqueued with the head its record has.
LEMMA EnqueueKeeps ==
    ASSUME GInv, NEW w \in Worktrees, Enqueue(w), UNCHANGED <<wvars, repository>>
    PROVE  Keeps
  <1> DEFINE e == [NoEntry EXCEPT !.status = "queued", !.base = worktree[w].base,
                    !.head = worktree[w].head, !.sequence = NextSequence]
  <1>1. /\ Shapes /\ GraphOK /\ RecordOK(w) /\ EntryOK(w) /\ worktree[w].status = "ready"
        /\ entry[w].status = "none" /\ worktree[w] \in WorktreeRecords
    BY DEF GInv, Enqueue, Shapes
  <1>2. /\ worktree[w].head \in Known /\ worktree[w].head \in 0 .. MaxCommits
        /\ worktree[w].base \in 0 .. MaxCommits /\ NoCommit \in 0 .. MaxCommits
    BY <1>1, KnownCommits DEF RecordOK, WorktreeRecords
  <1>3. NextSequence \in 0 .. Cardinality(Worktrees)
    BY <1>1, SequenceTyped DEF Shapes
  <1>4. /\ e \in EntryRecords /\ e.status = "queued" /\ e.head = worktree[w].head
        /\ ~GatesPassed(e) /\ ~Active(e)
    <2>1. NoEntry \in EntryRecords /\ NoEntry.review = "pending"
      BY <1>2, WorktreeAssumption, FS_CardinalityType
         DEF NoEntry, EntryRecords, EntryStatuses, Gates
    <2>2. "queued" \in EntryStatuses
      BY DEF EntryStatuses
    <2>3. e \in EntryRecords
      BY <1>2, <1>3, <2>1, <2>2, Zenon DEF EntryRecords
    <2>4. e.status = "queued" /\ e.head = worktree[w].head /\ e.review = "pending"
      BY <2>1, Zenon DEF EntryRecords
    <2> HIDE DEF e
    <2>. QED BY <2>3, <2>4 DEF GatesPassed, Active
  <1>5. entry' = [entry EXCEPT ![w] = e]
    BY Zenon DEF Enqueue
  <1> HIDE DEF e
  <1>6. /\ entry' \in [Worktrees -> EntryRecords] /\ entry'[w] = e
        /\ \A v \in Worktrees \ {w} : entry'[v] = entry[v]
    BY <1>1, <1>4, <1>5 DEF Shapes
  <1>7. UNCHANGED <<conflicts, worker, gated, worktree, history>>
    BY DEF Enqueue, wvars, repository
  <1>8. EntryOK(w)'
    BY <1>1, <1>2, <1>4, <1>6, <1>7 DEF EntryOK, Known
  <1>. QED BY <1>1, <1>4, <1>6, <1>7, <1>8, EntryStepKeeps

\* A reviewer or the tests decide; the head is gated once both gates passed.
LEMMA DecidedKeeps ==
    ASSUME GInv, NEW w \in Worktrees, NEW verdict \in {"passed", "failed"},
           RecordReview(w, verdict) \/ RecordTests(w, verdict), UNCHANGED <<wvars, repository>>
    PROVE  Keeps
  <1>1. /\ Shapes /\ EntryOK(w) /\ entry[w].status = "queued" /\ entry[w] \in EntryRecords
    BY DEF GInv, RecordReview, RecordTests, Decided, EnsureQueued, Shapes
  <1>2. PICK e \in EntryRecords : /\ Decided(w, e)
                                   /\ e.status = entry[w].status /\ e.head = entry[w].head
    <2>1. CASE RecordReview(w, verdict)
      <3> DEFINE e == [entry[w] EXCEPT !.review = verdict]
      <3>1. e \in EntryRecords /\ e.status = entry[w].status /\ e.head = entry[w].head
        BY <1>1 DEF EntryRecords, Gates
      <3>. QED BY <2>1, <3>1, Zenon DEF RecordReview
    <2>2. CASE RecordTests(w, verdict)
      <3> DEFINE e == [entry[w] EXCEPT !.tests = verdict]
      <3>1. e \in EntryRecords /\ e.status = entry[w].status /\ e.head = entry[w].head
        BY <1>1 DEF EntryRecords, Gates
      <3>. QED BY <2>2, <3>1, Zenon DEF RecordTests
    <2>. QED BY <2>1, <2>2
  <1>3. /\ entry' \in [Worktrees -> EntryRecords] /\ entry'[w] = e
        /\ \A v \in Worktrees \ {w} : entry'[v] = entry[v]
        /\ gated' = IF GatesPassed(e) THEN gated \cup {e.head} ELSE gated
    BY <1>1, <1>2 DEF Decided, Shapes
  <1>4. UNCHANGED <<conflicts, worker, worktree, history>>
    BY <1>2 DEF Decided, wvars, repository
  <1>5. EntryOK(w)'
    BY <1>1, <1>2, <1>3, <1>4 DEF EntryOK, Known, Active
  <1>. QED BY <1>1, <1>2, <1>3, <1>4, <1>5, EntryStepKeeps

\* An entry is cancelled before its merge begins.
LEMMA CancelKeeps ==
    ASSUME GInv, NEW w \in Worktrees, CancelMerge(w), UNCHANGED <<wvars, repository>>
    PROVE  Keeps
  <1>1. Shapes /\ EntryOK(w) /\ entry[w].status \in {"queued", "claimed"}
    BY DEF GInv, CancelMerge, Cancellable
  <1>2. /\ entry' \in [Worktrees -> EntryRecords] /\ entry'[w].status = "cancelled"
        /\ entry'[w].head = entry[w].head /\ (GatesPassed(entry'[w]) <=> GatesPassed(entry[w]))
        /\ \A v \in Worktrees \ {w} : entry'[v] = entry[v]
    BY <1>1, EntryStatusWritten DEF CancelMerge, Shapes, EntryStatuses
  <1>3. UNCHANGED <<conflicts, worker, gated, worktree, history>>
    BY DEF CancelMerge, wvars, repository
  <1>4. EntryOK(w)'
    BY <1>1, <1>2, <1>3 DEF EntryOK, Known, Active
  <1>. QED BY <1>1, <1>2, <1>3, <1>4, EntryStepKeeps

-----------------------------------------------------------------------------
(* Steps of the merge workers *)

\* What a worker's step leaves alone.
Beside == UNCHANGED <<fenced, job, checking, working>>

\* A worker that is alone and rebases nothing moves, and with it at most its entry
\* and the target.
LEMMA PlainTargetStep ==
    ASSUME GInv, NEW k \in Workers, NEW w \in Worktrees, Beside,
           UNCHANGED <<worktree, history, branch, files, rebasing, pushed, gated, interrupted>>,
           faults' \in 0 .. MaxFaults, conflicts' \subseteq conflicts \cup {w}, TargetOK',
           worker' \in [Workers -> WorkerRecords], entry' \in [Worktrees -> EntryRecords],
           \A j \in Workers \ {k} : worker'[j] = worker[j],
           \A v \in Worktrees \ {w} : entry'[v] = entry[v],
           entry[w].status # "none" => entry'[w].status # "none",
           Active(entry'[w]) => Active(entry[w]) \/ \A v \in Worktrees : ~Active(entry[v]),
           EntryOK(w)', WorkerOK(k)',
           worker[k].on \in {w, NoWorktree}, worker'[k].on \in {w, NoWorktree},
           worker[k].pc \notin {"rebase", "rebased"}, worker'[k].pc \notin {"rebase", "rebased"},
           SInv /\ Alone(k) =>
              /\ w \in conflicts' => entry'[w].status = "conflict"
              /\ Active(entry'[w]) /\ w \notin interrupted => worker'[k].on = w
              /\ \A v \in Worktrees :
                    entry'[v].status = "merged" => entry'[v].head \in history[target']
              /\ MergeOK(k)'
    PROVE  KeepsBy(k)
  <1>1. Shapes /\ GraphOK
    BY DEF GInv
  <1>2. Shapes' /\ Grows /\ \A v \in Worktrees : SameRecord(v)
    BY <1>1, GrowsNot DEF Shapes, Beside, SameRecord
  <1>3. RecordOK(w)'
    BY <1>2, RecordKept DEF GInv
  <1>4. ASSUME SInv, Alone(k), Apart PROVE TreeOK(w)'
    <2>1. job'[w].pc \in CommitSteps => ~Active(entry'[w])
      BY <1>4 DEF Apart
    <2>2. \A j \in Workers : worker[j].pc \notin {"rebase", "rebased"}
                           /\ worker'[j].pc \notin {"rebase", "rebased"}
      BY <1>4 DEF Alone
    <2>3. rebasing'[w] = NoCommit \/ w \in interrupted'
      BY <1>4, <2>2 DEF SInv, TreeOK
    <2>4. ~RebasedAt(w) /\ ~RebasedAt(w)'
      BY <2>2 DEF RebasedAt
    <2>5. worktree'[w].status = "ready" /\ w \notin interrupted' => HeadOK(w)'
      BY <1>4, <2>2, <2>4 DEF SInv, TreeOK, HeadOK, Beside
    <2>. QED BY <1>4, <2>1, <2>3, <2>5 DEF TreeOK
  <1>. QED BY <1>2, <1>3, <1>4, WorkerMoves DEF Beside, SameRecord

\* The same, with the target where it was.
LEMMA PlainStep ==
    ASSUME GInv, NEW k \in Workers, NEW w \in Worktrees, Beside,
           UNCHANGED <<worktree, repository, gated, interrupted>>,
           faults' \in 0 .. MaxFaults, conflicts' \subseteq conflicts \cup {w},
           worker' \in [Workers -> WorkerRecords], entry' \in [Worktrees -> EntryRecords],
           \A j \in Workers \ {k} : worker'[j] = worker[j],
           \A v \in Worktrees \ {w} : entry'[v] = entry[v],
           entry[w].status # "none" => entry'[w].status # "none",
           Active(entry'[w]) => Active(entry[w]) \/ \A v \in Worktrees : ~Active(entry[v]),
           EntryOK(w)', WorkerOK(k)',
           worker[k].on \in {w, NoWorktree}, worker'[k].on \in {w, NoWorktree},
           worker[k].pc \notin {"rebase", "rebased"}, worker'[k].pc \notin {"rebase", "rebased"},
           SInv /\ Alone(k) =>
              /\ w \in conflicts' => entry'[w].status = "conflict"
              /\ Active(entry'[w]) /\ w \notin interrupted => worker'[k].on = w
              /\ entry'[w].status = "merged" => entry'[w].head \in history[target]
              /\ MergeOK(k)'
    PROVE  KeepsBy(k)
  <1>1. UNCHANGED <<worktree, history, target, branch, files, rebasing, pushed, gated, interrupted>>
    BY DEF repository
  <1>2. TargetOK'
    BY <1>1 DEF GInv, TargetOK, Known, TargetIsGated, ForeignPushesKept
  <1>3. SInv => \A v \in Worktrees :
            entry[v].status = "merged" => entry[v].head \in history[target]
    BY DEF SInv, TreeOK
  <1>. QED BY <1>1, <1>2, <1>3, PlainTargetStep

\* The list of candidates is read.
LEMMA ListKeeps ==
    ASSUME GInv, NEW k \in Workers, ListCandidates(k), Beside
    PROVE  KeepsBy(k)
  <1>1. PICK w \in Worktrees : Eligible(w)
    BY DEF ListCandidates
  <1> DEFINE E == {v \in Worktrees : Eligible(v)}
  <1>2. PICK list \in [1 .. Cardinality(E) -> E] :
            worker' = [worker EXCEPT ![k].pc = "scanning", ![k].list = list]
    BY Zenon DEF ListCandidates, CandidateLists
  <1>3. Cardinality(E) \in Nat /\ Cardinality(E) # 0
    <2>1. IsFiniteSet(E) /\ w \in E
      BY <1>1, WorktreeAssumption, FS_Subset
    <2>. QED BY <2>1, FS_CardinalityType, FS_EmptySet
  <1>4. list \in Seq(Worktrees) /\ list # <<>>
    <2> DEFINE n == Cardinality(E)
    <2>1. list \in [1 .. n -> Worktrees] /\ n \in Nat /\ n # 0
      BY <1>3
    <2> HIDE DEF n, E
    <2>2. list \in Seq(Worktrees)
      BY <2>1, SeqDef
    <2>3. list # <<>>
      <3>1. SUFFICES ASSUME list = <<>> PROVE FALSE
        OBVIOUS
      <3>2. Len(list) = 0 /\ DOMAIN list = 1 .. Len(list)
        BY <2>2, <3>1
      <3>3. DOMAIN list = 1 .. n
        BY <2>1
      <3>. QED BY <2>1, <3>2, <3>3
    <2>. QED BY <2>2, <2>3
  <1>5. Shapes /\ EntryOK(w) /\ worker[k] = Waiting
    BY DEF GInv, ListCandidates
  <1>6. /\ worker' \in [Workers -> WorkerRecords] /\ worker'[k].pc = "scanning"
        /\ worker'[k].mode = "execute" /\ worker'[k].on = NoWorktree
        /\ worker'[k].list # <<>> /\ \A j \in Workers \ {k} : worker'[j] = worker[j]
    BY <1>2, <1>4, <1>5, WorkerLists, WaitingTyped DEF Shapes
  <1>7. UNCHANGED <<entry, conflicts, gated, faults, interrupted, worktree, repository>>
    BY DEF ListCandidates
  <1>8. WorkerOK(k)'
    BY <1>6 DEF WorkerOK, MergeSteps, TargetSteps
  <1>9. EntryOK(w)'
    BY <1>5, <1>7 DEF EntryOK, Known, repository
  <1>10. worker[k].pc = "idle" /\ worker[k].on = NoWorktree
    BY <1>5, WaitingTyped
  <1>11. SInv => /\ w \in conflicts' => entry'[w].status = "conflict"
                 /\ ~Active(entry'[w]) /\ entry'[w].status # "merged"
                 /\ MergeOK(k)'
    BY <1>1, <1>6, <1>7 DEF SInv, TreeOK, MergeOK, MergeSteps, Eligible, EnsureQueued, Active
  <1>. QED BY <1>5, <1>6, <1>7, <1>8, <1>9, <1>10, <1>11, PlainStep DEF Shapes

\* A worker tries the next candidate: skips it, fails it, claims it or gives up.
LEMMA TryKeeps ==
    ASSUME GInv, NEW k \in Workers, TryCandidate(k), Beside
    PROVE  KeepsBy(k)
  <1> DEFINE Skip == IF Len(worker[k].list) = 1
                     THEN Rest(k)
                     ELSE worker' = [worker EXCEPT ![k].list = Tail(@)]
  <1>1. /\ Shapes /\ WorkerOK(k) /\ worker[k].pc = "scanning" /\ worker[k] \in WorkerRecords
        /\ worker[k].list \in Seq(Worktrees) /\ worker[k].list # <<>>
        /\ worker[k].on = NoWorktree
    BY DEF GInv, TryCandidate, WorkerOK, Shapes, WorkerRecords
  <1>2. PICK w \in Worktrees : w = Head(worker[k].list)
    BY <1>1
  <1>3. /\ UNCHANGED <<conflicts, gated, faults, interrupted, worktree, repository>>
        /\ \/ /\ entry' = entry \/ (Eligible(w) /\ entry' = SetStatus(w, "failed"))
              /\ Skip \/ Rest(k)
           \/ /\ Eligible(w) /\ entry' = SetStatus(w, "claimed") /\ SingleActive
              /\ worker' = [worker EXCEPT ![k] = [Waiting EXCEPT !.pc = "claimed", !.on = w]]
    BY <1>2, Zenon DEF TryCandidate
  <1>4. EntryOK(w) /\ faults \in 0 .. MaxFaults /\ worker[k].on # w
    BY <1>1, <1>2, QueueAssumption DEF GInv, Shapes
  <1>5. Skip => worker' = [worker EXCEPT ![k].list = Tail(worker[k].list)] \/ Rest(k)
    BY Zenon
  <1>6. Skip => Rest(k) \/ Len(worker[k].list) # 1
    BY Zenon
  <1> HIDE DEF Skip
  <1>7. ASSUME Skip \/ Rest(k)
        PROVE  /\ worker' \in [Workers -> WorkerRecords]
               /\ \A j \in Workers \ {k} : worker'[j] = worker[j]
               /\ worker'[k].mode \in {worker[k].mode, "execute"}
               /\ worker'[k].pc \in {"idle", "scanning"} /\ worker'[k].on = NoWorktree
               /\ worker'[k].pc = "scanning" => worker'[k].list # <<>>
    <2>1. CASE Rest(k)
      BY <1>1, <2>1, WorkerRested DEF Shapes
    <2>2. CASE /\ worker' = [worker EXCEPT ![k].list = Tail(worker[k].list)]
               /\ Len(worker[k].list) # 1
      <3>1. PICK l \in Seq(Worktrees) : l = worker[k].list
        BY <1>1
      <3>2. l # <<>> /\ Len(l) # 1 /\ Len(l) \in Nat \ {0}
        BY <1>1, <2>2, <3>1, EmptySeq
      <3>3. Tail(l) \in Seq(Worktrees) /\ Len(Tail(l)) # 0
        BY <3>2, HeadTailProperties
      <3>4. Tail(l) # <<>>
        BY <3>3, EmptySeq, Zenon
      <3>5. worker' = [worker EXCEPT ![k].list = Tail(l)]
        BY <2>2, <3>1, Zenon
      <3>. QED BY <1>1, <3>3, <3>4, <3>5, WorkerSkips DEF Shapes
    <2>. QED BY <1>5, <1>6, <1>7, <2>1, <2>2
  <1>8. SInv => worker[k].mode # "recover"
    BY <1>1, QueueAssumption DEF SInv, MergeOK, Shapes, WorkerRecords
  <1>9. SInv /\ Alone(k) => (Active(entry[w]) => w \in interrupted)
    BY <1>2, <1>4, QueueAssumption DEF SInv, TreeOK, Alone
  <1>10. CASE (Skip \/ Rest(k)) /\ entry' = entry
    <2>1. EntryOK(w)'
      BY <1>3, <1>4, <1>10 DEF EntryOK, Known, repository
    <2>2. WorkerOK(k)'
      BY <1>7, <1>10 DEF WorkerOK, MergeSteps, TargetSteps
    <2>3. SInv /\ Alone(k) =>
              /\ w \in conflicts' => entry'[w].status = "conflict"
              /\ Active(entry'[w]) /\ w \notin interrupted => worker'[k].on = w
              /\ entry'[w].status = "merged" => entry'[w].head \in history[target]
              /\ MergeOK(k)'
      BY <1>2, <1>3, <1>7, <1>8, <1>9, <1>10 DEF SInv, TreeOK, MergeOK, MergeSteps
    <2>. QED BY <1>1, <1>2, <1>3, <1>4, <1>7, <1>10, <2>1, <2>2, <2>3, PlainStep DEF Shapes
  <1>11. CASE (Skip \/ Rest(k)) /\ Eligible(w) /\ entry' = SetStatus(w, "failed")
    <2>1. /\ entry' \in [Worktrees -> EntryRecords] /\ entry'[w].status = "failed"
          /\ entry'[w].head = entry[w].head
          /\ (GatesPassed(entry'[w]) <=> GatesPassed(entry[w]))
          /\ \A v \in Worktrees \ {w} : entry'[v] = entry[v]
      BY <1>1, <1>2, <1>11, EntryStatusWritten DEF Shapes, EntryStatuses
    <2>2. entry[w].status = "queued" /\ ~Active(entry'[w])
      BY <1>11, <2>1 DEF Eligible, EnsureQueued, Active
    <2>3. EntryOK(w)'
      BY <1>3, <1>4, <2>1, <2>2 DEF EntryOK, Known, repository
    <2>4. WorkerOK(k)'
      BY <1>7, <1>11 DEF WorkerOK, MergeSteps, TargetSteps
    <2>5. SInv /\ Alone(k) => (w \in conflicts' => entry'[w].status = "conflict") /\ MergeOK(k)'
      BY <1>2, <1>3, <1>7, <1>8, <1>11, <2>2 DEF SInv, TreeOK, MergeOK, MergeSteps
    <2>. QED BY <1>1, <1>2, <1>3, <1>4, <1>7, <1>11, <2>1, <2>2, <2>3, <2>4, <2>5, PlainStep
  <1>12. CASE /\ Eligible(w) /\ entry' = SetStatus(w, "claimed") /\ SingleActive
              /\ worker' = [worker EXCEPT ![k] = [Waiting EXCEPT !.pc = "claimed", !.on = w]]
    <2>1. /\ entry' \in [Worktrees -> EntryRecords] /\ entry'[w].status = "claimed"
          /\ entry'[w].head = entry[w].head
          /\ (GatesPassed(entry'[w]) <=> GatesPassed(entry[w]))
          /\ \A v \in Worktrees \ {w} : entry'[v] = entry[v]
      BY <1>1, <1>2, <1>12, EntryStatusWritten DEF Shapes, EntryStatuses
    <2>2. /\ worker' \in [Workers -> WorkerRecords] /\ worker'[k].pc = "claimed"
          /\ worker'[k].mode = "execute" /\ worker'[k].on = w
          /\ \A j \in Workers \ {k} : worker'[j] = worker[j]
      BY <1>1, <1>2, <1>12, WorkerClaimed DEF Shapes
    <2>3. /\ entry[w].status = "queued" /\ GatesPassed(entry[w])
          /\ \A v \in Worktrees : ~Active(entry[v])
      BY <1>12 DEF Eligible, EnsureQueued, SingleActive
    <2>4. EntryOK(w)'
      BY <1>3, <1>4, <2>1, <2>3 DEF EntryOK, Known, repository
    <2>5. WorkerOK(k)'
      BY <1>2, <2>1, <2>2 DEF WorkerOK, MergeSteps, TargetSteps
    <2>6. SInv /\ Alone(k) => (w \in conflicts' => entry'[w].status = "conflict") /\ MergeOK(k)'
      BY <1>2, <1>3, <2>2, <2>3 DEF SInv, TreeOK, MergeOK, MergeSteps
    <2>. QED BY <1>1, <1>2, <1>3, <1>4, <2>1, <2>2, <2>3, <2>4, <2>5, <2>6, PlainStep
  <1>. QED BY <1>3, <1>10, <1>11, <1>12

\* What a worker that has a worktree finds in order.
LEMMA AtWork ==
    ASSUME GInv, NEW k \in Workers, worker[k].pc \notin {"idle", "scanning"}
    PROVE  /\ Shapes /\ GraphOK /\ TargetOK /\ WorkerOK(k)
           /\ worker \in [Workers -> WorkerRecords] /\ entry \in [Worktrees -> EntryRecords]
           /\ On(k) \in Worktrees /\ entry[On(k)].status # "none"
           /\ RecordOK(On(k)) /\ EntryOK(On(k))
           /\ faults \in 0 .. MaxFaults /\ conflicts \subseteq Worktrees
           /\ Known \subseteq 0 .. MaxCommits /\ NoCommit \notin Known
  <1>1. WorkerOK(k) /\ Shapes /\ GraphOK
    BY DEF GInv
  <1>2. On(k) \in Worktrees /\ entry[On(k)].status # "none"
    BY <1>1 DEF WorkerOK, On
  <1>. QED BY <1>1, <1>2, KnownCommits DEF GInv, Shapes

\* A worker goes on and writes nothing.
LEMMA GoesOn ==
    ASSUME GInv, NEW k \in Workers, Beside,
           UNCHANGED <<worktree, repository, gated, interrupted, entry, conflicts>>,
           faults' \in 0 .. MaxFaults, worker' \in [Workers -> WorkerRecords],
           \A j \in Workers \ {k} : worker'[j] = worker[j],
           worker[k].pc \notin {"idle", "scanning", "rebase", "rebased"},
           worker'[k].pc \notin {"rebase", "rebased"}, WorkerOK(k)',
           \/ worker'[k].on = worker[k].on
           \/ worker'[k].on = NoWorktree /\ worker[k].mode = "recover",
           SInv /\ Alone(k) => MergeOK(k)'
    PROVE  KeepsBy(k)
  <1>1. PICK w \in Worktrees : w = worker[k].on
    BY AtWork DEF On
  <1>2. EntryOK(w)'
    BY DEF GInv, EntryOK, Known, repository
  <1>3. SInv /\ Alone(k) =>
              /\ w \in conflicts' => entry'[w].status = "conflict"
              /\ Active(entry'[w]) /\ w \notin interrupted => worker'[k].on = w
              /\ entry'[w].status = "merged" => entry'[w].head \in history[target]
    BY <1>1 DEF SInv, TreeOK, MergeOK
  <1>. QED BY <1>1, <1>2, <1>3, PlainStep DEF GInv, Shapes

\* A worker gives up on its entry, or is done with it.
LEMMA GivesUp ==
    ASSUME GInv, NEW k \in Workers, Beside,
           UNCHANGED <<worktree, repository, gated, interrupted, entry, conflicts>>,
           faults' \in 0 .. MaxFaults,
           worker[k].pc \notin {"idle", "scanning", "rebase", "rebased"},
           Goto(k, "failing") \/ (Rest(k) /\ worker[k].mode = "recover")
    PROVE  KeepsBy(k)
  <1>1. Shapes /\ WorkerOK(k)
    BY AtWork
  <1>2. CASE Goto(k, "failing")
    <2>1. /\ worker' \in [Workers -> WorkerRecords] /\ worker'[k].pc = "failing"
          /\ worker'[k].mode = worker[k].mode /\ worker'[k].on = worker[k].on
          /\ \A j \in Workers \ {k} : worker'[j] = worker[j]
      BY <1>1, <1>2, WorkerStepped DEF Shapes, WorkerSteps
    <2>2. WorkerOK(k)'
      BY <1>1, <2>1 DEF WorkerOK, MergeSteps, TargetSteps
    <2>3. SInv => MergeOK(k)'
      BY <2>1 DEF SInv, MergeOK, MergeSteps
    <2>. QED BY <2>1, <2>2, <2>3, GoesOn
  <1>3. CASE Rest(k) /\ worker[k].mode = "recover"
    <2>1. /\ worker' \in [Workers -> WorkerRecords] /\ worker'[k].pc = "idle"
          /\ worker'[k].mode = "execute" /\ worker'[k].on = NoWorktree
          /\ \A j \in Workers \ {k} : worker'[j] = worker[j]
      BY <1>1, <1>3, WorkerRested DEF Shapes
    <2>2. WorkerOK(k)'
      BY <2>1 DEF WorkerOK, MergeSteps, TargetSteps
    <2>3. MergeOK(k)'
      BY <2>1 DEF MergeOK, MergeSteps
    <2>. QED BY <1>3, <2>1, <2>2, <2>3, GoesOn
  <1>. QED BY <1>2, <1>3

\* The fence of a claimed entry is read.
LEMMA BeginKeeps ==
    ASSUME GInv, NEW k \in Workers, BeginMerge(k), Beside
    PROVE  KeepsBy(k)
  <1>1. /\ worker[k].pc = "claimed" /\ faults' = faults
        /\ UNCHANGED <<worktree, repository, gated, interrupted, entry, conflicts>>
        /\ Goto(k, "beginning") \/ Goto(k, "failing")
    BY DEF BeginMerge
  <1>2. Shapes /\ WorkerOK(k) /\ faults' \in 0 .. MaxFaults
    BY <1>1, AtWork
  <1>3. CASE Goto(k, "beginning")
    <2>1. /\ worker' \in [Workers -> WorkerRecords] /\ worker'[k].pc = "beginning"
          /\ worker'[k].mode = worker[k].mode /\ worker'[k].on = worker[k].on
          /\ \A j \in Workers \ {k} : worker'[j] = worker[j]
      BY <1>2, <1>3, WorkerStepped DEF Shapes, WorkerSteps
    <2>2. WorkerOK(k)'
      BY <1>1, <1>2, <2>1 DEF WorkerOK, MergeSteps, TargetSteps
    <2>3. SInv => MergeOK(k)'
      BY <1>1, <2>1 DEF SInv, MergeOK, MergeSteps
    <2>. QED BY <1>1, <1>2, <2>1, <2>2, <2>3, GoesOn
  <1>. QED BY <1>1, <1>2, <1>3, GivesUp

\* A merge begins: its head is that of an entry that passed both gates.
LEMMA StartKeeps ==
    ASSUME GInv, NEW k \in Workers, StartMerge(k), Beside
    PROVE  KeepsBy(k)
  <1>1. PICK w \in Worktrees : w = On(k)
    BY AtWork DEF StartMerge
  <1>2. /\ worker[k].pc = "beginning" /\ worker[k].on = w
        /\ UNCHANGED <<worktree, repository, gated, interrupted, faults, conflicts>>
    BY <1>1 DEF StartMerge, On
  <1>3. /\ Shapes /\ WorkerOK(k) /\ GraphOK /\ EntryOK(w) /\ faults' \in 0 .. MaxFaults
    BY <1>1, <1>2, AtWork
  <1>4. CASE entry[w].status # "claimed"
    BY <1>1, <1>2, <1>3, <1>4, GivesUp DEF StartMerge
  <1>5. CASE entry[w].status = "claimed"
    <2>1. /\ entry' = SetStatus(w, "merging")
          /\ Begins(k, entry[w].base, entry[w].head)
      BY <1>1, <1>5, Zenon DEF StartMerge, Begins
    <2>2. /\ entry[w].base \in 0 .. MaxCommits /\ entry[w].head \in 0 .. MaxCommits
          /\ entry[w].head \in Known /\ entry[w].head \in gated
      BY <1>3, <1>5 DEF Shapes, EntryRecords, EntryOK, Active
    <2>3. /\ entry' \in [Worktrees -> EntryRecords] /\ entry'[w].status = "merging"
          /\ entry'[w].head = entry[w].head
          /\ (GatesPassed(entry'[w]) <=> GatesPassed(entry[w]))
          /\ \A v \in Worktrees \ {w} : entry'[v] = entry[v]
      BY <1>3, <2>1, EntryStatusWritten DEF Shapes, EntryStatuses
    <2>4. /\ worker' \in [Workers -> WorkerRecords] /\ worker'[k].pc = "inspecting"
          /\ worker'[k].mode = worker[k].mode /\ worker'[k].on = w
          /\ worker'[k].head = entry[w].head
          /\ \A j \in Workers \ {k} : worker'[j] = worker[j]
      BY <1>2, <1>3, <2>1, <2>2, WorkerBegan DEF Shapes
    <2>5. EntryOK(w)'
      BY <1>2, <1>3, <1>5, <2>3 DEF EntryOK, Known, repository, Active
    <2>6. WorkerOK(k)'
      <3>1. worker'[k].head \in Known' /\ worker'[k].head \in gated'
        BY <1>2, <2>2, <2>4 DEF Known, repository
      <3>2. worker'[k].pc = "inspecting" /\ worker'[k].pc \notin TargetSteps
        BY <2>4 DEF TargetSteps
      <3>. QED BY <2>3, <2>4, <3>1, <3>2 DEF WorkerOK
    <2>7. Active(entry[w])
      BY <1>5 DEF Active
    <2>8. SInv => (w \in conflicts' => entry'[w].status = "conflict") /\ MergeOK(k)'
      BY <1>2, <1>5, <2>3, <2>4 DEF SInv, TreeOK, MergeOK, MergeSteps
    <2>. QED BY <1>2, <1>3, <2>3, <2>4, <2>5, <2>6, <2>7, <2>8, PlainStep
  <1>. QED BY <1>4, <1>5

\* The worktree is inspected, and the target is read.
LEMMA InspectKeeps ==
    ASSUME GInv, NEW k \in Workers, Inspect(k), Beside
    PROVE  KeepsBy(k)
  <1>1. /\ worker[k].pc = "inspecting" /\ faults' = faults
        /\ UNCHANGED <<worktree, repository, gated, interrupted, entry, conflicts>>
    BY DEF Inspect
  <1>2. /\ Shapes /\ WorkerOK(k) /\ TargetOK /\ faults' \in 0 .. MaxFaults
        /\ Known \subseteq 0 .. MaxCommits
    BY <1>1, AtWork
  <1>3. CASE Goto(k, "failing")
    BY <1>1, <1>2, <1>3, GivesUp
  <1>4. CASE ~Goto(k, "failing")
    <2>1. PICK s \in {"forwarding", "rebasing"} : Reads(k, s, target)
      BY <1>4, Zenon DEF Inspect, Reads
    <2>2. target \in 0 .. MaxCommits /\ s \in WorkerSteps
      BY <1>2 DEF TargetOK, WorkerSteps, MergeSteps
    <2>3. /\ worker' \in [Workers -> WorkerRecords] /\ worker'[k].pc = s
          /\ worker'[k].mode = worker[k].mode /\ worker'[k].on = worker[k].on
          /\ worker'[k].head = worker[k].head /\ worker'[k].target = target
          /\ \A j \in Workers \ {k} : worker'[j] = worker[j]
      BY <1>2, <2>1, <2>2, WorkerInspected DEF Shapes
    <2>4. WorkerOK(k)'
      <3>1. /\ worker'[k].head \in Known' /\ worker'[k].head \in gated'
            /\ worker'[k].target \in Known' /\ worker'[k].target \in (gated \cup pushed)'
        BY <1>1, <1>2, <2>3
           DEF WorkerOK, MergeSteps, Known, repository, TargetOK, TargetIsGated
      <3>. QED BY <1>1, <1>2, <2>3, <3>1 DEF WorkerOK
    <2>5. SInv => MergeOK(k)'
      BY <1>1, <2>3 DEF SInv, MergeOK, MergeSteps
    <2>. QED BY <1>1, <1>2, <2>3, <2>4, <2>5, GoesOn
  <1>. QED BY <1>3, <1>4

\* A worker settles its entry and rests.
LEMMA Settles ==
    ASSUME GInv, NEW k \in Workers, NEW w \in Worktrees, worker[k].on = w, Beside, Rest(k),
           UNCHANGED <<worktree, repository, gated, interrupted, faults>>,
           worker[k].pc \notin {"idle", "scanning", "rebase", "rebased"},
           conflicts' \subseteq conflicts \cup {w}, entry' \in [Worktrees -> EntryRecords],
           \A v \in Worktrees \ {w} : entry'[v] = entry[v],
           ~Active(entry'[w]), entry'[w].status # "none", EntryOK(w)',
           SInv => /\ w \in conflicts' => entry'[w].status = "conflict"
                   /\ entry'[w].status = "merged" => entry'[w].head \in history[target]
    PROVE  KeepsBy(k)
  <1>1. worker \in [Workers -> WorkerRecords] /\ faults' \in 0 .. MaxFaults
    BY AtWork
  <1>2. /\ worker' \in [Workers -> WorkerRecords] /\ worker'[k].pc = "idle"
        /\ worker'[k].mode = "execute" /\ worker'[k].on = NoWorktree
        /\ \A j \in Workers \ {k} : worker'[j] = worker[j]
    BY <1>1, WorkerRested
  <1>3. WorkerOK(k)'
    BY <1>2 DEF WorkerOK, MergeSteps, TargetSteps
  <1>4. MergeOK(k)'
    BY <1>2 DEF MergeOK, MergeSteps
  <1>. QED BY <1>1, <1>2, <1>3, <1>4, PlainStep

\* A conflict gets its task, once.
LEMMA ConflictKeeps ==
    ASSUME GInv, NEW k \in Workers, CreateConflictTask(k), Beside
    PROVE  KeepsBy(k)
  <1>1. PICK w \in Worktrees : w = On(k)
    BY AtWork DEF CreateConflictTask
  <1>2. /\ worker[k].pc = "conflict" /\ worker[k].on = w
        /\ UNCHANGED <<worktree, repository, gated, interrupted, faults>>
    BY <1>1 DEF CreateConflictTask, On
  <1>3. /\ Shapes /\ EntryOK(w) /\ faults' \in 0 .. MaxFaults /\ entry[w].status # "none"
        /\ entry \in [Worktrees -> EntryRecords]
    BY <1>1, <1>2, AtWork
  <1>4. CASE w \in conflicts /\ Rest(k) /\ UNCHANGED <<entry, conflicts>>
    <2>1. EntryOK(w)'
      BY <1>2, <1>3, <1>4 DEF EntryOK, Known, repository
    <2>2. SInv => FALSE
      BY <1>2, <1>4 DEF SInv, TreeOK, MergeOK, MergeSteps
    <2>3. WorkerOK(k)' /\ MergeOK(k)' /\ worker' \in [Workers -> WorkerRecords]
          /\ worker'[k].pc = "idle" /\ worker'[k].on = NoWorktree
          /\ \A j \in Workers \ {k} : worker'[j] = worker[j]
      BY <1>3, <1>4, WorkerRested DEF Shapes, WorkerOK, MergeOK, MergeSteps, TargetSteps
    <2>. QED BY <1>2, <1>3, <1>4, <2>1, <2>2, <2>3, PlainStep
  <1>5. CASE MarkConflict(w) /\ conflicts' = conflicts \cup {w} /\ Rest(k)
    <2>1. /\ entry' \in [Worktrees -> EntryRecords] /\ entry'[w].status = "conflict"
          /\ entry'[w].head = entry[w].head
          /\ (GatesPassed(entry'[w]) <=> GatesPassed(entry[w]))
          /\ \A v \in Worktrees \ {w} : entry'[v] = entry[v]
      BY <1>3, <1>5, EntryStatusWritten DEF MarkConflict, EntryStatuses
    <2>2. EntryOK(w)' /\ ~Active(entry'[w])
      BY <1>2, <1>3, <2>1 DEF EntryOK, Known, repository, Active
    <2>. QED BY <1>2, <1>5, <2>1, <2>2, Settles
  <1>6. CASE Goto(k, "failing") /\ UNCHANGED <<entry, conflicts>>
    BY <1>2, <1>3, <1>6, GivesUp
  <1>. QED BY <1>1, <1>4, <1>5, <1>6 DEF CreateConflictTask

\* The target moved: the entry waits for its gates again.
LEMMA MovedKeeps ==
    ASSUME GInv, NEW k \in Workers, RequeueAfterTargetMove(k), Beside
    PROVE  KeepsBy(k)
  <1>1. PICK w \in Worktrees : w = On(k)
    BY AtWork DEF RequeueAfterTargetMove
  <1>2. /\ worker[k].pc = "moved" /\ worker[k].on = w
        /\ UNCHANGED <<worktree, repository, gated, interrupted, faults, conflicts>>
    BY <1>1 DEF RequeueAfterTargetMove, On
  <1>3. /\ EntryOK(w) /\ faults' \in 0 .. MaxFaults
        /\ entry \in [Worktrees -> EntryRecords] /\ entry[w] \in EntryRecords
    BY <1>1, <1>2, AtWork
  <1>4. CASE EnsureMerging(w)
    <2>1. /\ entry[w].status = "merging"
          /\ entry[w].base \in 0 .. MaxCommits /\ entry[w].head \in 0 .. MaxCommits
      BY <1>3, <1>4 DEF EntryRecords, EnsureMerging
    <2>2. Rest(k) /\ Requeued(w, entry[w].base, entry[w].head)
      BY <1>1, <1>4 DEF RequeueAfterTargetMove
    <2>3. /\ entry' \in [Worktrees -> EntryRecords] /\ entry'[w].status = "queued"
          /\ entry'[w].head = entry[w].head /\ ~GatesPassed(entry'[w])
          /\ \A v \in Worktrees \ {w} : entry'[v] = entry[v]
      BY <1>3, <2>1, <2>2, EntryRequeued
    <2>4. EntryOK(w)' /\ ~Active(entry'[w])
      BY <1>2, <1>3, <2>1, <2>3 DEF EntryOK, Known, repository, Active
    <2>5. SInv => w \notin conflicts'
      BY <1>2, <2>1 DEF SInv, TreeOK
    <2>. QED BY <1>2, <2>2, <2>3, <2>4, <2>5, Settles
  <1>5. CASE ~EnsureMerging(w)
    BY <1>1, <1>2, <1>3, <1>5, GivesUp DEF RequeueAfterTargetMove
  <1>. QED BY <1>4, <1>5

\* A merge that cannot be recorded is taken back, or left to recovery.
LEMMA UnrecordedKeeps ==
    ASSUME GInv, NEW k \in Workers, worker[k].pc \in {"applied", "marking"}, Unrecorded(k),
           UNCHANGED <<entry, conflicts, gated, faults, interrupted, worktree, repository>>, Beside
    PROVE  KeepsBy(k)
  <1>1. /\ WorkerOK(k) /\ worker \in [Workers -> WorkerRecords] /\ faults' \in 0 .. MaxFaults
        /\ worker[k].mode \in {"execute", "recover"}
    BY AtWork DEF WorkerRecords
  <1>2. CASE Goto(k, "undoing")
    <2>1. /\ worker' \in [Workers -> WorkerRecords] /\ worker'[k].pc = "undoing"
          /\ worker'[k].mode = worker[k].mode /\ worker'[k].on = worker[k].on
          /\ worker'[k].head = worker[k].head /\ worker'[k].target = worker[k].target
          /\ \A j \in Workers \ {k} : worker'[j] = worker[j]
      BY <1>1, <1>2, WorkerStepped DEF WorkerSteps, MergeSteps
    <2>2. WorkerOK(k)'
      BY <1>1, <2>1 DEF WorkerOK, MergeSteps, TargetSteps, Known, repository, CanGoBack
    <2>3. SInv => MergeOK(k)'
      BY <2>1 DEF SInv, MergeOK, MergeSteps, repository
    <2>. QED BY <1>1, <2>1, <2>2, <2>3, GoesOn
  <1>3. CASE Rest(k) /\ worker[k].mode = "recover"
    BY <1>1, <1>3, GivesUp
  <1>. QED BY <1>1, <1>2, <1>3 DEF Unrecorded

\* The fence of an applied merge is read.
LEMMA ValidateKeeps ==
    ASSUME GInv, NEW k \in Workers, ValidateMerged(k), Beside
    PROVE  KeepsBy(k)
  <1>1. /\ worker[k].pc = "applied"
        /\ UNCHANGED <<entry, conflicts, gated, faults, interrupted, worktree, repository>>
        /\ Goto(k, "marking") \/ Unrecorded(k)
    BY DEF ValidateMerged
  <1>2. WorkerOK(k) /\ worker \in [Workers -> WorkerRecords] /\ faults' \in 0 .. MaxFaults
    BY <1>1, AtWork
  <1>3. CASE Goto(k, "marking")
    <2>1. /\ worker' \in [Workers -> WorkerRecords] /\ worker'[k].pc = "marking"
          /\ worker'[k].mode = worker[k].mode /\ worker'[k].on = worker[k].on
          /\ worker'[k].head = worker[k].head /\ worker'[k].target = worker[k].target
          /\ \A j \in Workers \ {k} : worker'[j] = worker[j]
      BY <1>2, <1>3, WorkerStepped DEF WorkerSteps, MergeSteps
    <2>2. WorkerOK(k)'
      BY <1>1, <1>2, <2>1 DEF WorkerOK, MergeSteps, TargetSteps, Known, repository, CanGoBack
    <2>3. SInv => MergeOK(k)'
      BY <1>1, <2>1 DEF SInv, MergeOK, MergeSteps, repository
    <2>. QED BY <1>1, <1>2, <2>1, <2>2, <2>3, GoesOn
  <1>. QED BY <1>1, <1>3, UnrecordedKeeps

\* A merge is recorded: its head is on the target branch.
LEMMA MarkKeeps ==
    ASSUME GInv, NEW k \in Workers, MarkMerged(k), Beside
    PROVE  KeepsBy(k)
  <1>1. PICK w \in Worktrees : w = On(k)
    BY AtWork DEF MarkMerged
  <1>2. /\ worker[k].pc = "marking" /\ worker[k].on = w
        /\ UNCHANGED <<worktree, repository, gated, interrupted, faults, conflicts>>
    BY <1>1 DEF MarkMerged, On
  <1>3. EntryOK(w) /\ entry \in [Worktrees -> EntryRecords]
    BY <1>1, <1>2, AtWork
  <1>4. CASE EnsureMerging(w)
    <2>1. entry' = SetStatus(w, "merged") /\ Rest(k) /\ entry[w].status = "merging"
      BY <1>1, <1>4 DEF MarkMerged, EnsureMerging
    <2>2. /\ entry' \in [Worktrees -> EntryRecords] /\ entry'[w].status = "merged"
          /\ entry'[w].head = entry[w].head
          /\ (GatesPassed(entry'[w]) <=> GatesPassed(entry[w]))
          /\ \A v \in Worktrees \ {w} : entry'[v] = entry[v]
      BY <1>3, <2>1, EntryStatusWritten DEF EntryStatuses
    <2>3. EntryOK(w)' /\ ~Active(entry'[w])
      BY <1>2, <1>3, <2>1, <2>2 DEF EntryOK, Known, repository, Active
    <2>4. SInv => w \notin conflicts' /\ entry'[w].head \in history[target]
      BY <1>2, <2>1, <2>2 DEF SInv, TreeOK, MergeOK, MergeSteps
    <2>. QED BY <1>2, <2>1, <2>2, <2>3, <2>4, Settles
  <1>5. CASE ~EnsureMerging(w)
    BY <1>1, <1>2, <1>5, UnrecordedKeeps DEF MarkMerged
  <1>. QED BY <1>4, <1>5

\* A merge fails: its entry does, if it still is active.
LEMMA FailKeeps ==
    ASSUME GInv, NEW k \in Workers, MarkMergeFailed(k), Beside
    PROVE  KeepsBy(k)
  <1>1. PICK w \in Worktrees : w = On(k)
    BY AtWork DEF MarkMergeFailed
  <1>2. /\ worker[k].pc = "failing" /\ worker[k].on = w /\ FailEntry(w) /\ Rest(k)
        /\ UNCHANGED <<worktree, repository, gated, interrupted, faults, conflicts>>
    BY <1>1 DEF MarkMergeFailed, On
  <1>3. EntryOK(w) /\ entry \in [Worktrees -> EntryRecords] /\ entry[w].status # "none"
    BY <1>1, <1>2, AtWork
  <1>4. CASE Active(entry[w])
    <2>1. entry' = SetStatus(w, "failed") /\ entry[w].status \in {"claimed", "merging"}
      BY <1>2, <1>4 DEF FailEntry, Active
    <2>2. /\ entry' \in [Worktrees -> EntryRecords] /\ entry'[w].status = "failed"
          /\ entry'[w].head = entry[w].head
          /\ (GatesPassed(entry'[w]) <=> GatesPassed(entry[w]))
          /\ \A v \in Worktrees \ {w} : entry'[v] = entry[v]
      BY <1>3, <2>1, EntryStatusWritten DEF EntryStatuses
    <2>3. EntryOK(w)' /\ ~Active(entry'[w])
      BY <1>2, <1>3, <2>1, <2>2 DEF EntryOK, Known, repository, Active
    <2>4. SInv => w \notin conflicts'
      BY <1>2, <2>1 DEF SInv, TreeOK
    <2>. QED BY <1>2, <2>1, <2>2, <2>3, <2>4, Settles
  <1>5. CASE ~Active(entry[w])
    <2>1. entry' = entry
      BY <1>2, <1>5 DEF FailEntry
    <2>2. EntryOK(w)'
      BY <1>2, <1>3, <2>1 DEF EntryOK, Known, repository
    <2>3. SInv => /\ w \in conflicts' => entry'[w].status = "conflict"
                  /\ entry'[w].status = "merged" => entry'[w].head \in history[target]
      BY <1>2, <2>1 DEF SInv, TreeOK
    <2>. QED BY <1>2, <1>3, <1>5, <2>1, <2>2, <2>3, Settles
  <1>. QED BY <1>4, <1>5

\* Recovery takes up an entry that was left in merging.
LEMMA StartRecoveryKeeps ==
    ASSUME GInv, NEW k \in Workers, StartRecovery(k), Beside
    PROVE  KeepsBy(k)
  <1>1. PICK w \in Worktrees :
            entry[w].status = "merging" /\ Takes(k, w, entry[w].base, entry[w].head)
    BY Zenon DEF StartRecovery, Takes
  <1>2. /\ UNCHANGED <<entry, conflicts, gated, faults, interrupted, worktree, repository>>
        /\ worker[k] = Waiting
    BY DEF StartRecovery
  <1>3. Shapes /\ EntryOK(w) /\ worker[k].on = NoWorktree /\ worker[k].pc = "idle"
    BY <1>2, WaitingTyped DEF GInv
  <1>4. PICK b \in 0 .. MaxCommits, h \in 0 .. MaxCommits :
            b = entry[w].base /\ h = entry[w].head /\ h \in Known
    BY <1>1, <1>3 DEF Shapes, EntryRecords, EntryOK
  <1>5. Takes(k, w, b, h)
    BY <1>1, <1>4
  <1>6. /\ worker' \in [Workers -> WorkerRecords] /\ worker'[k].pc = "recovering"
        /\ worker'[k].mode = "recover" /\ worker'[k].on = w /\ worker'[k].head = h
        /\ \A j \in Workers \ {k} : worker'[j] = worker[j]
    BY <1>3, <1>5, WorkerTook DEF Shapes
  <1>7. EntryOK(w)'
    BY <1>2, <1>3 DEF EntryOK, Known, repository
  <1>8. WorkerOK(k)'
    BY <1>1, <1>2, <1>4, <1>6 DEF WorkerOK, MergeSteps, TargetSteps, Known, repository
  <1>9. SInv /\ Alone(k) =>
              /\ w \in conflicts' => entry'[w].status = "conflict"
              /\ entry'[w].status = "merged" => entry'[w].head \in history[target]
              /\ MergeOK(k)'
    <2>1. SInv /\ Alone(k) => w \in interrupted
      BY <1>1, <1>3, QueueAssumption DEF SInv, TreeOK, Alone, Active
    <2>. QED BY <1>1, <1>2, <1>4, <1>6, <2>1 DEF SInv, TreeOK, MergeOK, MergeSteps
  <1>. QED BY <1>2, <1>3, <1>6, <1>7, <1>8, <1>9, PlainStep DEF Shapes

\* The target is moved by compare and swap: forward, and onto a gated head.
LEMMA ForwardKeeps ==
    ASSUME GInv, NEW k \in Workers, FastForward(k), Beside
    PROVE  KeepsBy(k)
  <1> DEFINE outcome == FastForwardOutcome(worker[k].target, worker[k].head)
  <1>1. PICK w \in Worktrees : w = On(k)
    BY AtWork DEF FastForward
  <1>2. /\ worker[k].pc = "forwarding" /\ worker[k].on = w
        /\ UNCHANGED <<entry, conflicts, gated, interrupted, worktree>>
        /\ UNCHANGED <<history, branch, files, rebasing, pushed>>
        /\ \/ Goto(k, "moved") /\ UNCHANGED <<target, faults>>
           \/ Goto(k, "failing") /\ target' = target /\ (faults' = faults \/ Fault(k))
           \/ /\ outcome = "applied" /\ target' = worker[k].head
              /\ Goto(k, "applied") /\ faults' = faults
    BY <1>1 DEF FastForward, On
  <1>3. /\ Shapes /\ GraphOK /\ TargetOK /\ WorkerOK(k) /\ EntryOK(w)
        /\ faults \in 0 .. MaxFaults /\ MaxFaults \in Nat
        /\ worker \in [Workers -> WorkerRecords] /\ entry \in [Worktrees -> EntryRecords]
    BY <1>1, <1>2, AtWork, WorktreeAssumption
  <1>4. Fault(k) \/ faults' = faults => faults' \in 0 .. MaxFaults
    BY <1>3 DEF Fault
  <1>5. CASE Goto(k, "failing") /\ target' = target /\ (faults' = faults \/ Fault(k))
    BY <1>2, <1>4, <1>5, GivesUp DEF repository
  <1>6. CASE Goto(k, "moved") /\ UNCHANGED <<target, faults>>
    <2>1. /\ worker' \in [Workers -> WorkerRecords] /\ worker'[k].pc = "moved"
          /\ worker'[k].mode = worker[k].mode /\ worker'[k].on = worker[k].on
          /\ worker'[k].head = worker[k].head /\ worker'[k].target = worker[k].target
          /\ \A j \in Workers \ {k} : worker'[j] = worker[j]
      BY <1>3, <1>6, WorkerStepped DEF WorkerSteps, MergeSteps
    <2>2. WorkerOK(k)'
      BY <1>2, <1>3, <2>1 DEF WorkerOK, MergeSteps, TargetSteps, Known
    <2>3. SInv => MergeOK(k)'
      BY <1>2, <1>6, <2>1 DEF SInv, MergeOK, MergeSteps
    <2>. QED BY <1>2, <1>4, <1>6, <2>1, <2>2, <2>3, GoesOn DEF repository
  <1>7. CASE /\ outcome = "applied" /\ target' = worker[k].head
             /\ Goto(k, "applied") /\ faults' = faults
    <2>1. target = worker[k].target /\ target \in history[worker[k].head]
      BY <1>7 DEF FastForwardOutcome, IsAncestor
    <2>2. worker[k].head \in Known /\ worker[k].head \in gated /\ target \in gated \cup pushed
      BY <1>2, <1>3 DEF WorkerOK, MergeSteps, TargetOK, TargetIsGated
    <2>3. history[target] \subseteq history[worker[k].head] /\ worker[k].head \in history[worker[k].head]
      BY <1>3, <2>1, <2>2 DEF GraphOK
    <2>4. TargetOK'
      BY <1>2, <1>3, <1>7, <2>2, <2>3 DEF TargetOK, Known, TargetIsGated, ForeignPushesKept
    <2>5. /\ worker' \in [Workers -> WorkerRecords] /\ worker'[k].pc = "applied"
          /\ worker'[k].mode = worker[k].mode /\ worker'[k].on = worker[k].on
          /\ worker'[k].head = worker[k].head /\ worker'[k].target = worker[k].target
          /\ \A j \in Workers \ {k} : worker'[j] = worker[j]
      BY <1>3, <1>7, WorkerStepped DEF WorkerSteps, MergeSteps
    <2>6. EntryOK(w)'
      BY <1>2, <1>3 DEF EntryOK, Known
    <2>7. WorkerOK(k)'
      <3>1. CanGoBack(k)'
        BY <1>2, <1>3, <2>1, <2>5 DEF CanGoBack, TargetOK, ForeignPushesKept
      <3>. QED BY <1>2, <1>3, <2>1, <2>2, <2>5, <3>1 DEF WorkerOK, MergeSteps, TargetSteps, Known
    <2>8. SInv =>
              /\ w \in conflicts' => entry'[w].status = "conflict"
              /\ \A v \in Worktrees :
                    entry'[v].status = "merged" => entry'[v].head \in history[target']
      BY <1>2, <1>7, <2>3 DEF SInv, TreeOK
    <2>9. SInv => MergeOK(k)'
      <3>1. SInv => \A v \in Worktrees :
                entry[v].status = "merged" => entry[v].head \in history[target]
        BY DEF SInv, TreeOK
      <3>. QED BY <1>2, <1>7, <2>1, <2>3, <2>5, <3>1 DEF SInv, MergeOK, MergeSteps
    <2>. QED BY <1>2, <1>3, <1>7, <2>4, <2>5, <2>6, <2>7, <2>8, <2>9, PlainTargetStep
  <1>. QED BY <1>2, <1>5, <1>6, <1>7

\* The target is taken back only from the head the worker put there itself.
LEMMA RollbackKeeps ==
    ASSUME GInv, NEW k \in Workers, Rollback(k), Beside
    PROVE  KeepsBy(k)
  <1>1. PICK w \in Worktrees : w = On(k)
    BY AtWork DEF Rollback
  <1>2. /\ worker[k].pc = "undoing" /\ worker[k].on = w /\ Goto(k, "failing")
        /\ UNCHANGED <<entry, conflicts, gated, interrupted, worktree>>
        /\ UNCHANGED <<history, branch, files, rebasing, pushed>>
        /\ \/ target' = target /\ (faults' = faults \/ Fault(k))
           \/ /\ target = worker[k].head /\ target' = worker[k].target
              /\ faults' = faults
    BY <1>1 DEF Rollback, On, RollbackOutcome
  <1>3. /\ Shapes /\ GraphOK /\ TargetOK /\ WorkerOK(k) /\ EntryOK(w)
        /\ faults \in 0 .. MaxFaults /\ MaxFaults \in Nat
        /\ worker \in [Workers -> WorkerRecords] /\ entry \in [Worktrees -> EntryRecords]
    BY <1>1, <1>2, AtWork, WorktreeAssumption
  <1>4. Fault(k) \/ faults' = faults => faults' \in 0 .. MaxFaults
    BY <1>3 DEF Fault
  <1>5. CASE target' = target /\ (faults' = faults \/ Fault(k))
    BY <1>2, <1>4, <1>5, GivesUp DEF repository
  <1>6. CASE target = worker[k].head /\ target' = worker[k].target /\ faults' = faults
    <2>1. /\ worker[k].target \in Known /\ worker[k].target \in gated \cup pushed
          /\ pushed \subseteq history[worker[k].target]
      BY <1>2, <1>3, <1>6
         DEF WorkerOK, MergeSteps, TargetSteps, CanGoBack, TargetOK, ForeignPushesKept
    <2>2. TargetOK'
      BY <1>2, <1>3, <1>6, <2>1 DEF TargetOK, Known, TargetIsGated, ForeignPushesKept
    <2>3. /\ worker' \in [Workers -> WorkerRecords] /\ worker'[k].pc = "failing"
          /\ worker'[k].mode = worker[k].mode /\ worker'[k].on = worker[k].on
          /\ \A j \in Workers \ {k} : worker'[j] = worker[j]
      BY <1>2, <1>3, WorkerStepped DEF WorkerSteps
    <2>4. EntryOK(w)'
      BY <1>2, <1>3 DEF EntryOK, Known
    <2>5. WorkerOK(k)'
      BY <1>2, <1>3, <2>3 DEF WorkerOK, MergeSteps, TargetSteps
    <2>6. SInv =>
              /\ w \in conflicts' => entry'[w].status = "conflict"
              /\ \A v \in Worktrees :
                    entry'[v].status = "merged" => entry'[v].head \in history[target']
              /\ MergeOK(k)'
      BY <1>2, <1>6, <2>3 DEF SInv, TreeOK, MergeOK, MergeSteps
    <2>. QED BY <1>2, <1>3, <1>6, <2>2, <2>3, <2>4, <2>5, <2>6, PlainTargetStep
  <1>. QED BY <1>2, <1>5, <1>6

\* A worker moves, and what is checked out in its worktree may with it.
LEMMA TreeMoves ==
    ASSUME GInv, NEW k \in Workers, NEW w \in Worktrees, worker[k].on = w, Beside,
           worker[k].pc \notin {"idle", "scanning"},
           UNCHANGED <<worktree, entry, conflicts, gated, target, files, pushed>>, Grows,
           branch' \in [Worktrees -> 0 .. MaxCommits], rebasing' \in [Worktrees -> 0 .. MaxCommits],
           \A v \in Worktrees \ {w} : branch'[v] = branch[v] /\ rebasing'[v] = rebasing[v],
           branch'[w] \in {NoCommit} \cup Known', rebasing'[w] \in {NoCommit} \cup Known',
           rebasing'[w] # NoCommit => branch'[w] # NoCommit,
           branch[w] # NoCommit => branch'[w] # NoCommit,
           interrupted \subseteq interrupted', interrupted' \subseteq Worktrees,
           faults' \in 0 .. MaxFaults, worker' \in [Workers -> WorkerRecords],
           \A j \in Workers \ {k} : worker'[j] = worker[j],
           worker'[k].on \in {w, NoWorktree}, WorkerOK(k)',
           SInv /\ Alone(k) =>
              /\ MergeOK(k)'
              /\ w \notin interrupted' =>
                    /\ worker'[k].on = w /\ worker[k].pc \in MergeSteps
                    /\ rebasing'[w] # NoCommit => worker'[k].pc = "rebase"
                    /\ worktree[w].status = "ready" =>
                          IF worker'[k].pc = "rebased" THEN branch'[w] = worker'[k].head
                                                       ELSE branch'[w] = worktree[w].head
    PROVE  KeepsBy(k)
  <1>1. /\ Shapes /\ TargetOK /\ RecordOK(w) /\ EntryOK(w) /\ entry[w].status # "none"
        /\ worktree[w].status \notin {"none", "provisioning"}
    BY AtWork DEF On, EntryOK
  <1>2. /\ Shapes' /\ Known \subseteq Known'
        /\ \A c \in Known : history'[c] = history[c]
    BY <1>1 DEF Shapes, Beside, Grows
  <1>3. \A v \in Worktrees \ {w} : SameRecord(v)
    BY DEF Beside, SameRecord
  <1>4. RecordOK(w)'
    BY <1>1, <1>2 DEF RecordOK, Beside
  <1>5. EntryOK(w)'
    BY <1>1, <1>2 DEF EntryOK
  <1>6. TargetOK'
    BY <1>1, <1>2 DEF TargetOK, TargetIsGated, ForeignPushesKept
  <1>7. ASSUME SInv, Alone(k), Apart
        PROVE  /\ \A v \in Worktrees : entry[v].status = "merged" => entry[v].head \in history'[target']
               /\ TreeOK(w)'
    <2>1. \A v \in Worktrees : entry[v].status = "merged" => entry[v].head \in history'[target']
      BY <1>1, <1>2, <1>7 DEF SInv, TreeOK, TargetOK
    <2>2. \A j \in Workers \ {k} : worker'[j].pc = "idle"
      BY <1>7 DEF Alone
    <2>3. worktree'[w].status = "ready" /\ w \notin interrupted' => HeadOK(w)'
      <3> SUFFICES ASSUME worktree'[w].status = "ready", w \notin interrupted'
                   PROVE  HeadOK(w)'
        OBVIOUS
      <3>1. Active(entry[w])
        BY <1>7 DEF SInv, MergeOK, Active
      <3>2. job'[w].pc \notin CommitSteps
        BY <1>7, <3>1 DEF SInv, TreeOK, Beside
      <3>3. RebasedAt(w)' <=> worker'[k].pc = "rebased"
        BY <1>7, <2>2 DEF RebasedAt
      <3>. QED BY <1>7, <2>2, <3>2, <3>3 DEF HeadOK, CommitSteps
    <2>4. job'[w].pc \in CommitSteps => ~Active(entry'[w])
      BY <1>7 DEF Apart
    <2>5. /\ w \in conflicts' => entry'[w].status = "conflict"
          /\ Active(entry'[w]) /\ w \notin interrupted' => \E j \in Workers : worker'[j].on = w
          /\ rebasing'[w] # NoCommit /\ w \notin interrupted' =>
                \E j \in Workers : worker'[j].pc = "rebase" /\ worker'[j].on = w
      BY <1>7 DEF SInv, TreeOK
    <2>. QED BY <2>1, <2>3, <2>4, <2>5 DEF TreeOK
  <1>. QED BY <1>2, <1>3, <1>4, <1>5, <1>6, <1>7, WorkerMoves DEF Beside

\* Where the worktree of a merge stands, as long as nothing was cut short.
LEMMA HeadAtWork ==
    ASSUME SInv, NEW k \in Workers, NEW w \in Worktrees, Alone(k), worker[k].on = w,
           worker[k].pc \in MergeSteps, worktree[w].status = "ready", w \notin interrupted
    PROVE  IF worker[k].pc = "rebased" THEN branch[w] = worker[k].head
                                       ELSE branch[w] = worktree[w].head
  <1>1. HeadOK(w) /\ job[w].pc \notin CommitSteps
    BY DEF SInv, TreeOK, MergeOK, Active
  <1>2. RebasedAt(w) <=> worker[k].pc = "rebased"
    BY DEF Alone, RebasedAt
  <1>. QED BY <1>1, <1>2 DEF HeadOK, CommitSteps

\* A rebase moves the branch to a commit that is there, or that it makes.
LEMMA RebaseWrites ==
    ASSUME GraphOK, NEW w \in Worktrees, RecordOK(w), rebasing[w] # NoCommit, Rebase(w),
           branch \in [Worktrees -> 0 .. MaxCommits], rebasing \in [Worktrees -> 0 .. MaxCommits]
    PROVE  /\ Grows /\ UNCHANGED <<target, files, pushed>>
           /\ branch' \in [Worktrees -> 0 .. MaxCommits]
           /\ rebasing' \in [Worktrees -> 0 .. MaxCommits]
           /\ \A v \in Worktrees \ {w} : branch'[v] = branch[v] /\ rebasing'[v] = rebasing[v]
           /\ branch'[w] \in Known' /\ branch'[w] # NoCommit /\ rebasing'[w] = NoCommit
           /\ Known' \subseteq 0 .. MaxCommits
  <1>1. /\ rebasing[w] \in Known /\ branch[w] \in Known /\ NoCommit \in 0 .. MaxCommits
        /\ UNCHANGED <<target, files, pushed>>
    BY KnownCommits DEF RecordOK, Rebase
  <1>2. /\ rebasing' \in [Worktrees -> 0 .. MaxCommits] /\ rebasing'[w] = NoCommit
        /\ \A v \in Worktrees \ {w} : rebasing'[v] = rebasing[v]
    BY <1>1 DEF Rebase
  <1>3. \/ history' = history /\ branch' = branch
        \/ history' = history /\ branch' = [branch EXCEPT ![w] = rebasing[w]]
        \/ /\ CanCommit /\ history' = Extended(rebasing[w])
           /\ branch' = [branch EXCEPT ![w] = NewCommit]
    BY DEF Rebase
  <1>4. /\ Grows
        /\ \/ branch' = branch
           \/ branch' = [branch EXCEPT ![w] = rebasing[w]]
           \/ branch' = [branch EXCEPT ![w] = NewCommit] /\ NewCommit \in Known'
    BY <1>1, <1>3, GrowsNot, GrowsByOne
  <1>5. Known \subseteq Known' /\ Known' \subseteq 1 .. MaxCommits
    BY <1>4, WorktreeAssumption DEF Grows, GraphOK, Known
  <1>6. /\ branch'[w] \in Known' /\ branch' \in [Worktrees -> 0 .. MaxCommits]
        /\ \A v \in Worktrees \ {w} : branch'[v] = branch[v]
    <2>1. /\ branch[w] \in Known' /\ rebasing[w] \in Known'
          /\ Known' \subseteq 0 .. MaxCommits
      BY <1>1, <1>5, WorktreeAssumption
    <2>. QED BY <1>4, <2>1
  <1>. QED BY <1>1, <1>2, <1>4, <1>5, <1>6 DEF NoCommit

\* A rebase starts, from the target the inspection read.
LEMMA StartRebaseKeeps ==
    ASSUME GInv, NEW k \in Workers, StartRebase(k), Beside
    PROVE  KeepsBy(k)
  <1>1. PICK w \in Worktrees : w = On(k)
    BY AtWork DEF StartRebase
  <1>2. /\ worker[k].pc = "rebasing" /\ worker[k].on = w
        /\ UNCHANGED <<entry, conflicts, gated, faults, interrupted, worktree>>
        /\ UNCHANGED <<history, target, branch, files, pushed>>
    BY <1>1 DEF StartRebase, On
  <1>3. /\ Shapes /\ GraphOK /\ WorkerOK(k) /\ RecordOK(w) /\ faults' \in 0 .. MaxFaults
        /\ worker \in [Workers -> WorkerRecords] /\ Known \subseteq 0 .. MaxCommits
    BY <1>1, <1>2, AtWork
  <1>4. CASE Goto(k, "failing") /\ rebasing' = rebasing
    BY <1>2, <1>3, <1>4, GivesUp DEF repository
  <1>5. CASE /\ branch[w] # NoCommit /\ Goto(k, "rebase")
             /\ rebasing' = [rebasing EXCEPT ![w] = worker[k].target]
    <2>1. worker[k].target \in Known /\ Grows /\ Known' = Known
      BY <1>2, <1>3, GrowsNot DEF WorkerOK, MergeSteps, TargetSteps, Known
    <2>2. /\ worker' \in [Workers -> WorkerRecords] /\ worker'[k].pc = "rebase"
          /\ worker'[k].mode = worker[k].mode /\ worker'[k].on = worker[k].on
          /\ worker'[k].head = worker[k].head /\ worker'[k].target = worker[k].target
          /\ \A j \in Workers \ {k} : worker'[j] = worker[j]
      BY <1>3, <1>5, WorkerStepped DEF WorkerSteps, MergeSteps
    <2>3. WorkerOK(k)'
      BY <1>2, <1>3, <2>1, <2>2 DEF WorkerOK, MergeSteps, TargetSteps
    <2>4. SInv => MergeOK(k)'
      BY <1>2, <2>2 DEF SInv, MergeOK, MergeSteps
    <2>5. worker[k].pc \in MergeSteps
      BY <1>2 DEF MergeSteps
    <2>6. /\ rebasing' \in [Worktrees -> 0 .. MaxCommits] /\ rebasing'[w] = worker[k].target
          /\ \A v \in Worktrees \ {w} : rebasing'[v] = rebasing[v]
      BY <1>3, <1>5, <2>1 DEF Shapes
    <2>7. branch \in [Worktrees -> 0 .. MaxCommits] /\ branch[w] \in {NoCommit} \cup Known
          /\ interrupted \subseteq Worktrees
      BY <1>3 DEF RecordOK, Shapes
    <2>8. SInv /\ Alone(k) => (w \notin interrupted /\ worktree[w].status = "ready" =>
                                branch[w] = worktree[w].head)
      BY <1>2, <2>5, HeadAtWork
    <2>. QED BY <1>2, <1>3, <1>5, <2>1, <2>2, <2>3, <2>4, <2>5, <2>6, <2>7, <2>8, TreeMoves
  <1>. QED BY <1>1, <1>4, <1>5 DEF StartRebase

\* A rebase ends: with a new head, in conflict, aborted by another, or cut short.
LEMMA FinishRebaseKeeps ==
    ASSUME GInv, NEW k \in Workers, FinishRebase(k), Beside
    PROVE  KeepsBy(k)
  <1>1. PICK w \in Worktrees : w = On(k)
    BY AtWork DEF FinishRebase
  <1>2. /\ worker[k].pc = "rebase" /\ worker[k].on = w
        /\ UNCHANGED <<entry, conflicts, gated, worktree>>
    BY <1>1 DEF FinishRebase, On
  <1>3. /\ Shapes /\ GraphOK /\ WorkerOK(k) /\ RecordOK(w)
        /\ faults \in 0 .. MaxFaults /\ MaxFaults \in Nat /\ interrupted \subseteq Worktrees
        /\ worker \in [Workers -> WorkerRecords]
        /\ branch \in [Worktrees -> 0 .. MaxCommits] /\ rebasing \in [Worktrees -> 0 .. MaxCommits]
    BY <1>1, <1>2, AtWork, WorktreeAssumption DEF Shapes
  <1>4. /\ worker[k].pc \in MergeSteps
        /\ SInv /\ Alone(k) => (w \notin interrupted /\ worktree[w].status = "ready" =>
                                branch[w] = worktree[w].head)
    BY <1>2, HeadAtWork DEF MergeSteps
  <1>5. NoCommit \in 0 .. MaxCommits
    BY <1>3, KnownCommits
  <1>6. CASE /\ RebaseStateExists(w) /\ Rebase(w) /\ RebasedTo(k, branch'[w])
             /\ UNCHANGED <<faults, interrupted>>
    <2>1. /\ Grows /\ UNCHANGED <<target, files, pushed>>
          /\ branch' \in [Worktrees -> 0 .. MaxCommits]
          /\ rebasing' \in [Worktrees -> 0 .. MaxCommits]
          /\ \A v \in Worktrees \ {w} : branch'[v] = branch[v] /\ rebasing'[v] = rebasing[v]
          /\ branch'[w] \in Known' /\ branch'[w] # NoCommit /\ rebasing'[w] = NoCommit
          /\ branch'[w] \in 0 .. MaxCommits
      BY <1>3, <1>6, RebaseWrites DEF RebaseStateExists
    <2>2. PICK h \in 0 .. MaxCommits : h = branch'[w]
      BY <2>1
    <2>3. /\ worker' \in [Workers -> WorkerRecords] /\ worker'[k].pc = "rebased"
          /\ worker'[k].mode = worker[k].mode /\ worker'[k].on = worker[k].on
          /\ worker'[k].target = worker[k].target /\ worker'[k].head = h
          /\ \A j \in Workers \ {k} : worker'[j] = worker[j]
      BY <1>3, <1>6, <2>2, WorkerRebased
    <2>4. WorkerOK(k)'
      <3>1. worker'[k].head \in Known' /\ worker'[k].target \in Known'
        BY <1>2, <1>3, <2>1, <2>2, <2>3 DEF WorkerOK, TargetSteps, MergeSteps, Grows
      <3>. QED BY <1>2, <1>3, <2>3, <3>1 DEF WorkerOK
    <2>5. SInv => MergeOK(k)'
      BY <1>2, <1>4, <1>6, <2>3 DEF SInv, MergeOK
    <2>. QED BY <1>2, <1>3, <1>4, <1>6, <2>1, <2>2, <2>3, <2>4, <2>5, TreeMoves
  <1>7. CASE /\ AbortRebase(w) /\ Conflicted(k)
             /\ UNCHANGED <<faults, interrupted, history, branch, target, files, pushed>>
    <2>1. Grows /\ Known' = Known
      BY <1>3, <1>7, GrowsNot DEF Known
    <2>2. /\ rebasing' \in [Worktrees -> 0 .. MaxCommits] /\ rebasing'[w] = NoCommit
          /\ \A v \in Worktrees \ {w} : rebasing'[v] = rebasing[v]
      BY <1>3, <1>5, <1>7 DEF AbortRebase
    <2>3. /\ worker' \in [Workers -> WorkerRecords] /\ worker'[k].pc = "conflict"
          /\ worker'[k].mode = worker[k].mode /\ worker'[k].on = worker[k].on
          /\ worker'[k].head = worker[k].head /\ worker'[k].target = worker[k].target
          /\ \A j \in Workers \ {k} : worker'[j] = worker[j]
      BY <1>3, <1>7, WorkerStepped DEF WorkerSteps, MergeSteps, Conflicted
    <2>4. WorkerOK(k)'
      BY <1>2, <1>3, <2>1, <2>3 DEF WorkerOK, MergeSteps, TargetSteps
    <2>5. SInv => MergeOK(k)'
      BY <1>2, <1>4, <1>7, <2>3 DEF SInv, MergeOK
    <2>6. branch[w] \in {NoCommit} \cup Known
      BY <1>3 DEF RecordOK
    <2>. QED BY <1>2, <1>3, <1>4, <1>7, <2>1, <2>2, <2>3, <2>4, <2>5, <2>6, TreeMoves
  <1>8. CASE /\ ~RebaseStateExists(w) /\ Goto(k, "failing")
             /\ UNCHANGED <<faults, interrupted, repository>>
    <2>1. Grows /\ Known' = Known /\ UNCHANGED <<target, branch, rebasing, files, pushed>>
      BY <1>3, <1>8, GrowsNot DEF Known, repository
    <2>2. /\ worker' \in [Workers -> WorkerRecords] /\ worker'[k].pc = "failing"
          /\ worker'[k].mode = worker[k].mode /\ worker'[k].on = worker[k].on
          /\ \A j \in Workers \ {k} : worker'[j] = worker[j]
      BY <1>3, <1>8, WorkerStepped DEF WorkerSteps
    <2>3. WorkerOK(k)'
      BY <1>2, <1>3, <2>2 DEF WorkerOK, MergeSteps, TargetSteps
    <2>4. SInv => MergeOK(k)'
      BY <1>8, <2>2 DEF SInv, MergeOK, MergeSteps
    <2>5. branch[w] \in {NoCommit} \cup Known /\ rebasing[w] = NoCommit
      BY <1>3, <1>8 DEF RecordOK, RebaseStateExists
    <2>. QED BY <1>2, <1>3, <1>4, <1>8, <2>1, <2>2, <2>3, <2>4, <2>5, TreeMoves
  <1>9. CASE /\ Fault(k) /\ interrupted' = interrupted \cup {w}
             /\ Goto(k, "failing") /\ UNCHANGED repository
    <2>1. Grows /\ Known' = Known /\ UNCHANGED <<target, branch, rebasing, files, pushed>>
      BY <1>3, <1>9, GrowsNot DEF Known, repository
    <2>2. /\ worker' \in [Workers -> WorkerRecords] /\ worker'[k].pc = "failing"
          /\ worker'[k].mode = worker[k].mode /\ worker'[k].on = worker[k].on
          /\ \A j \in Workers \ {k} : worker'[j] = worker[j]
      BY <1>3, <1>9, WorkerStepped DEF WorkerSteps
    <2>3. WorkerOK(k)'
      BY <1>2, <1>3, <2>2 DEF WorkerOK, MergeSteps, TargetSteps
    <2>4. SInv => MergeOK(k)'
      BY <1>9, <2>2 DEF SInv, MergeOK, MergeSteps
    <2>5. /\ branch[w] \in {NoCommit} \cup Known /\ rebasing[w] \in {NoCommit} \cup Known
          /\ rebasing[w] # NoCommit => branch[w] # NoCommit
      BY <1>3 DEF RecordOK
    <2>6. faults' \in 0 .. MaxFaults
      BY <1>3, <1>9 DEF Fault
    <2>. QED BY <1>2, <1>3, <1>9, <2>1, <2>2, <2>3, <2>4, <2>5, <2>6, TreeMoves
  <1>. QED BY <1>1, <1>6, <1>7, <1>8, <1>9 DEF FinishRebase

\* A rebase nobody waits for ends; its worktree was left with a call cut short.
LEMMA OrphanKeeps ==
    ASSUME GInv, NEW w \in Worktrees, OrphanRebase(w)
    PROVE  Keeps
  <1>1. /\ rebasing[w] # NoCommit /\ Rebase(w) /\ UNCHANGED <<wvars, mvars>>
        /\ ~\E k \in Workers : worker[k].pc = "rebase" /\ worker[k].on = w
    BY DEF OrphanRebase, On
  <1>2. Shapes /\ GraphOK /\ RecordOK(w) /\ EntryOK(w)
    BY DEF GInv
  <1>3. /\ Grows /\ UNCHANGED <<target, files, pushed>>
        /\ branch' \in [Worktrees -> 0 .. MaxCommits]
        /\ rebasing' \in [Worktrees -> 0 .. MaxCommits]
        /\ \A v \in Worktrees \ {w} : branch'[v] = branch[v] /\ rebasing'[v] = rebasing[v]
        /\ branch'[w] \in Known' /\ branch'[w] # NoCommit /\ rebasing'[w] = NoCommit
    BY <1>1, <1>2, RebaseWrites DEF Shapes
  <1>4. /\ UNCHANGED <<worktree, fenced, job, checking, working, interrupted, faults>>
        /\ UNCHANGED <<entry, conflicts, worker, gated>>
    BY <1>1 DEF wvars, mvars
  <1>5. worktree[w].status \notin {"none", "provisioning"}
    BY <1>1, <1>2 DEF RecordOK, EntryOK
  <1>6. Shapes' /\ \A v \in Worktrees \ {w} : SameRecord(v)
    BY <1>2, <1>3, <1>4 DEF Shapes, SameRecord
  <1>7. RecordOK(w)'
    BY <1>2, <1>3, <1>4, <1>5 DEF RecordOK, Grows
  <1>8. SInv => w \in interrupted
    BY <1>1 DEF SInv, TreeOK
  <1>. QED BY <1>1, <1>3, <1>4, <1>6, <1>7, <1>8, RecordStep

\* Head and entry of a rebased worktree change together, or the merge fails.
LEMMA RequeueKeeps ==
    ASSUME GInv, NEW k \in Workers, RequeueAfterRebase(k), Beside
    PROVE  KeepsBy(k)
  <1>1. PICK w \in Worktrees : w = On(k)
    BY AtWork DEF RequeueAfterRebase
  <1>2. /\ worker[k].pc = "rebased" /\ worker[k].on = w
        /\ UNCHANGED <<conflicts, gated, faults, repository>>
    BY <1>1 DEF RequeueAfterRebase, On
  <1>3. /\ Shapes /\ GraphOK /\ TargetOK /\ WorkerOK(k) /\ RecordOK(w) /\ EntryOK(w)
        /\ faults' \in 0 .. MaxFaults /\ interrupted \subseteq Worktrees
        /\ worker \in [Workers -> WorkerRecords] /\ worker[k] \in WorkerRecords
        /\ branch \in [Worktrees -> 0 .. MaxCommits] /\ rebasing \in [Worktrees -> 0 .. MaxCommits]
        /\ entry \in [Worktrees -> EntryRecords] /\ entry[w].status # "none"
    BY <1>1, <1>2, AtWork DEF Shapes
  <1>4. Grows /\ Known' = Known /\ UNCHANGED <<history, target, branch, rebasing, files, pushed>>
    BY <1>2, <1>3, GrowsNot DEF Known, repository
  <1>5. /\ worker[k].pc \in MergeSteps /\ worker[k].pc \in TargetSteps
        /\ worker[k].head \in Known /\ worker[k].target \in Known
        /\ worker[k].mode \in {"execute", "recover"}
    BY <1>2, <1>3 DEF WorkerOK, MergeSteps, TargetSteps, WorkerRecords
  <1>6. CASE EnsureMerging(w) /\ worktree[w].status = "ready"
    <2>1. /\ Requeued(w, worker[k].target, worker[k].head) /\ Rest(k) /\ interrupted' = interrupted
          /\ worktree' = [worktree EXCEPT ![w].head = worker[k].head]
      BY <1>1, <1>6 DEF RequeueAfterRebase, SaveWorktreeHead
    <2>2. PICK t \in 0 .. MaxCommits, h \in 0 .. MaxCommits :
              t = worker[k].target /\ h = worker[k].head
      BY <1>3 DEF WorkerRecords
    <2>3. /\ entry' \in [Worktrees -> EntryRecords] /\ entry'[w].status = "queued"
          /\ entry'[w].head = h /\ ~GatesPassed(entry'[w])
          /\ \A v \in Worktrees \ {w} : entry'[v] = entry[v]
      BY <1>3, <2>1, <2>2, EntryRequeued
    <2>4. /\ worktree' \in [Worktrees -> WorktreeRecords]
          /\ worktree'[w].status = worktree[w].status /\ worktree'[w].base = worktree[w].base
          /\ worktree'[w].head = h
          /\ \A v \in Worktrees \ {w} : worktree'[v] = worktree[v]
      BY <1>3, <2>1, <2>2, HeadWritten DEF Shapes
    <2>5. /\ worker' \in [Workers -> WorkerRecords] /\ worker'[k].pc = "idle"
          /\ worker'[k].mode = "execute" /\ worker'[k].on = NoWorktree
          /\ \A j \in Workers \ {k} : worker'[j] = worker[j]
      BY <1>3, <2>1, WorkerRested
    <2>6. Shapes'
      BY <1>2, <1>3, <1>4, <2>1, <2>3, <2>4, <2>5 DEF Shapes, Beside
    <2>7. \A v \in Worktrees \ {w} : SameRecord(v)
      BY <1>4, <2>4 DEF SameRecord, Beside
    <2>8. RecordOK(w)'
      BY <1>3, <1>4, <1>5, <1>6, <2>2, <2>3, <2>4 DEF RecordOK, Beside
    <2>9. EntryOK(w)' /\ ~Active(entry'[w])
      BY <1>2, <1>4, <1>5, <1>6, <2>2, <2>3, <2>4 DEF EntryOK, Active
    <2>10. WorkerOK(k)' /\ MergeOK(k)'
      BY <2>5 DEF WorkerOK, MergeOK, MergeSteps, TargetSteps
    <2>11. TargetOK'
      BY <1>2, <1>3, <1>4 DEF TargetOK, TargetIsGated, ForeignPushesKept
    <2>12. SInv => \A v \in Worktrees :
                entry[v].status = "merged" => entry[v].head \in history'[target']
      BY <1>4 DEF SInv, TreeOK
    <2>13. ASSUME SInv, Alone(k) PROVE TreeOK(w)'
      <3>1. \A j \in Workers \ {k} : worker[j].pc = "idle" /\ worker'[j].pc = "idle"
        BY <2>13, <2>5 DEF Alone
      <3>2. w \notin conflicts'
        BY <1>2, <1>6, <2>13 DEF SInv, TreeOK, EnsureMerging
      <3>3. rebasing'[w] = NoCommit \/ w \in interrupted'
        BY <1>2, <1>4, <2>1, <2>13, <3>1 DEF SInv, TreeOK
      <3>4. w \notin interrupted' => HeadOK(w)'
        <4>1. HAVE w \notin interrupted'
        <4>2. branch[w] = h
          BY <1>2, <1>5, <1>6, <2>1, <2>2, <2>13, <4>1, HeadAtWork
        <4>3. job'[w].pc \notin CommitSteps
          BY <1>6, <2>13 DEF SInv, TreeOK, EnsureMerging, Active, Beside
        <4>. QED BY <1>4, <2>4, <2>5, <3>1, <4>2, <4>3 DEF HeadOK, CommitSteps
      <3>. QED BY <2>3, <2>9, <3>2, <3>3, <3>4 DEF TreeOK
    <2>. QED BY <1>2, <1>4, <1>6, <2>1, <2>3, <2>4, <2>5, <2>6, <2>7, <2>8, <2>9, <2>10, <2>11,
                <2>12, <2>13, WorkerMoves DEF Beside
  <1>7. CASE ~(EnsureMerging(w) /\ worktree[w].status = "ready")
    <2>1. /\ Goto(k, "failing") \/ Rest(k)
          /\ interrupted' = interrupted \cup {w} /\ UNCHANGED <<entry, worktree>>
      BY <1>1, <1>7 DEF RequeueAfterRebase
    <2>2. /\ worker' \in [Workers -> WorkerRecords]
          /\ \/ /\ worker'[k].pc = "failing" /\ worker'[k].on = worker[k].on
                /\ worker'[k].mode = worker[k].mode
             \/ /\ worker'[k].pc = "idle" /\ worker'[k].on = NoWorktree
                /\ worker'[k].mode = "execute"
          /\ \A j \in Workers \ {k} : worker'[j] = worker[j]
      BY <1>3, <2>1, WorkerStepped, WorkerRested DEF WorkerSteps
    <2>3. WorkerOK(k)'
      BY <1>2, <1>3, <2>1, <2>2 DEF WorkerOK, MergeSteps, TargetSteps
    <2>4. SInv => MergeOK(k)'
      <3>1. SInv => (worker'[k].mode = "recover" => worker'[k].on \in interrupted')
        BY <1>2, <1>3, <2>1, <2>2 DEF SInv, MergeOK
      <3>. QED BY <2>2, <3>1 DEF MergeOK, MergeSteps
    <2>5. /\ branch[w] \in {NoCommit} \cup Known /\ rebasing[w] \in {NoCommit} \cup Known
          /\ rebasing[w] # NoCommit => branch[w] # NoCommit
      BY <1>3 DEF RecordOK
    <2>. QED BY <1>2, <1>3, <1>4, <2>1, <2>2, <2>3, <2>4, <2>5, TreeMoves
  <1>. QED BY <1>6, <1>7

\* Recovery decides by what the repository shows.
LEMMA RecoverKeeps ==
    ASSUME GInv, NEW k \in Workers, Recover(k), Beside
    PROVE  KeepsBy(k)
  <1>1. PICK w \in Worktrees : w = On(k)
    BY AtWork DEF Recover
  <1> DEFINE seen == Observation(w, worker[k].head)
  <1>2. /\ worker[k].pc = "recovering" /\ worker[k].on = w
        /\ UNCHANGED <<entry, conflicts, gated, faults, interrupted, worktree>>
        /\ UNCHANGED <<history, target, branch, files, pushed>>
        /\ \/ seen = "merged" /\ Finds(k, "applied", worker[k].head, target)
           \/ seen = "rebased" /\ Finds(k, "rebased", branch[w], target)
           \/ seen \in {"interrupted", "missing", "diverged"} /\ Goto(k, "failing")
        /\ IF seen = "interrupted" THEN AbortRebase(w) ELSE UNCHANGED rebasing
    BY <1>1, Zenon DEF Recover, On, Finds
  <1>3. /\ Shapes /\ GraphOK /\ TargetOK /\ WorkerOK(k) /\ RecordOK(w) /\ EntryOK(w)
        /\ faults' \in 0 .. MaxFaults /\ interrupted \subseteq Worktrees
        /\ worker \in [Workers -> WorkerRecords] /\ worker[k] \in WorkerRecords
        /\ branch \in [Worktrees -> 0 .. MaxCommits] /\ rebasing \in [Worktrees -> 0 .. MaxCommits]
        /\ NoCommit \notin Known /\ Known \subseteq 0 .. MaxCommits /\ NoCommit \in 0 .. MaxCommits
    BY <1>1, <1>2, AtWork, KnownCommits DEF Shapes
  <1>4. /\ Grows /\ Known' = Known /\ worker[k].pc \in MergeSteps /\ worker[k].head \in Known
        /\ target \in Known /\ target \in gated \cup pushed /\ pushed \subseteq history[target]
    BY <1>2, <1>3, GrowsNot
       DEF Known, WorkerOK, MergeSteps, TargetOK, TargetIsGated, ForeignPushesKept
  <1>5. PICK t \in 0 .. MaxCommits, h \in 0 .. MaxCommits, b \in 0 .. MaxCommits :
            t = target /\ h = worker[k].head /\ b = branch[w]
    BY <1>3, <1>4
  <1>6. SInv => /\ MergeOK(k)
                /\ worker[k].mode = "recover" => w \in interrupted
                /\ \A v \in Worktrees :
                       entry[v].status = "merged" => entry[v].head \in history[target]
    BY <1>2 DEF SInv, MergeOK, TreeOK
  <1>7. CASE seen = "merged" /\ Finds(k, "applied", h, t) /\ UNCHANGED rebasing
    <2>1. target = worker[k].head
      BY <1>7, Zenon DEF Observation
    <2>2. /\ worker' \in [Workers -> WorkerRecords] /\ worker'[k].pc = "applied"
          /\ worker'[k].mode = worker[k].mode /\ worker'[k].on = worker[k].on
          /\ worker'[k].head = h /\ worker'[k].target = t
          /\ \A j \in Workers \ {k} : worker'[j] = worker[j]
      BY <1>3, <1>7, WorkerFound DEF WorkerSteps, MergeSteps
    <2>3. WorkerOK(k)'
      <3>1. CanGoBack(k)'
        BY <1>2, <1>4, <1>5, <2>2 DEF CanGoBack
      <3>. QED BY <1>2, <1>3, <1>4, <1>5, <2>2, <3>1 DEF WorkerOK
    <2>4. SInv => MergeOK(k)'
      <3>1. target \in history[target]
        BY <1>3, <1>4 DEF GraphOK
      <3>. QED BY <1>2, <1>4, <1>5, <1>6, <2>1, <2>2, <3>1 DEF MergeOK, MergeSteps
    <2>. QED BY <1>2, <1>3, <1>7, <2>2, <2>3, <2>4, GoesOn DEF repository
  <1>8. CASE seen = "rebased" /\ Finds(k, "rebased", b, t) /\ UNCHANGED rebasing
    <2>1. branch[w] # NoCommit /\ ~RebaseStateExists(w)
      BY <1>8, Zenon DEF Observation
    <2>2. branch[w] \in Known /\ rebasing[w] = NoCommit
      BY <1>3, <2>1 DEF RecordOK, RebaseStateExists
    <2>3. /\ worker' \in [Workers -> WorkerRecords] /\ worker'[k].pc = "rebased"
          /\ worker'[k].mode = worker[k].mode /\ worker'[k].on = worker[k].on
          /\ worker'[k].head = b /\ worker'[k].target = t
          /\ \A j \in Workers \ {k} : worker'[j] = worker[j]
      BY <1>3, <1>8, WorkerFound DEF WorkerSteps, MergeSteps
    <2>4. WorkerOK(k)'
      <3>1. /\ worker'[k].head \in Known' /\ worker'[k].target \in Known'
            /\ worker'[k].on \in Worktrees /\ entry'[worker'[k].on].status # "none"
        BY <1>2, <1>3, <1>4, <1>5, <2>2, <2>3 DEF WorkerOK
      <3>. QED BY <2>3, <3>1 DEF WorkerOK
    <2>5. SInv => MergeOK(k)'
      BY <1>2, <1>4, <1>6, <2>3 DEF MergeOK, MergeSteps
    <2>. QED BY <1>2, <1>3, <1>4, <1>5, <1>8, <2>2, <2>3, <2>4, <2>5, TreeMoves
  <1>9. CASE Goto(k, "failing") /\ AbortRebase(w)
    <2>1. /\ rebasing' \in [Worktrees -> 0 .. MaxCommits] /\ rebasing'[w] = NoCommit
          /\ \A v \in Worktrees \ {w} : rebasing'[v] = rebasing[v]
      BY <1>3, <1>9 DEF AbortRebase
    <2>2. /\ worker' \in [Workers -> WorkerRecords] /\ worker'[k].pc = "failing"
          /\ worker'[k].mode = worker[k].mode /\ worker'[k].on = worker[k].on
          /\ \A j \in Workers \ {k} : worker'[j] = worker[j]
      BY <1>3, <1>9, WorkerStepped DEF WorkerSteps
    <2>3. WorkerOK(k)'
      BY <1>2, <1>3, <2>2 DEF WorkerOK, MergeSteps, TargetSteps
    <2>4. SInv => MergeOK(k)'
      BY <1>2, <2>2 DEF SInv, MergeOK, MergeSteps
    <2>5. branch[w] \in {NoCommit} \cup Known
      BY <1>3 DEF RecordOK
    <2>6. SInv /\ Alone(k) => (w \notin interrupted /\ worktree[w].status = "ready" =>
                                branch[w] = worktree[w].head)
      BY <1>2, <1>4, HeadAtWork
    <2>. QED BY <1>2, <1>3, <1>4, <1>9, <2>1, <2>2, <2>3, <2>4, <2>5, <2>6, TreeMoves
  <1>10. CASE Goto(k, "failing") /\ UNCHANGED rebasing
    BY <1>2, <1>3, <1>10, GivesUp DEF repository
  <1>11. \/ seen = "merged" /\ Finds(k, "applied", h, t) /\ UNCHANGED rebasing
         \/ seen = "rebased" /\ Finds(k, "rebased", b, t) /\ UNCHANGED rebasing
         \/ Goto(k, "failing") /\ (AbortRebase(w) \/ UNCHANGED rebasing)
    <2> HIDE DEF seen
    <2>. QED BY <1>2, <1>5
  <1>. QED BY <1>7, <1>8, <1>9, <1>10, <1>11

\* A worker that dies leaves everything as it is.
LEMMA CrashKeeps ==
    ASSUME GInv, NEW k \in Workers, CrashWorker(k), Beside
    PROVE  KeepsBy(k)
  <1>1. /\ Rest(k) /\ Fault(k) /\ UNCHANGED <<entry, conflicts, gated, worktree, repository>>
        /\ interrupted' = IF worker[k].on \in Worktrees
                          THEN interrupted \cup {worker[k].on} ELSE interrupted
    BY DEF CrashWorker
  <1>2. /\ Shapes /\ GraphOK /\ TargetOK /\ WorkerOK(k)
        /\ worker \in [Workers -> WorkerRecords] /\ interrupted \subseteq Worktrees
        /\ branch \in [Worktrees -> 0 .. MaxCommits] /\ rebasing \in [Worktrees -> 0 .. MaxCommits]
    BY DEF GInv, Shapes
  <1>3. faults' \in 0 .. MaxFaults
    BY <1>1, <1>2, WorktreeAssumption DEF Fault, Shapes
  <1>4. /\ worker' \in [Workers -> WorkerRecords] /\ worker'[k].pc = "idle"
        /\ worker'[k].mode = "execute" /\ worker'[k].on = NoWorktree
        /\ \A j \in Workers \ {k} : worker'[j] = worker[j]
    BY <1>1, <1>2, WorkerRested
  <1>5. WorkerOK(k)' /\ MergeOK(k)'
    BY <1>4 DEF WorkerOK, MergeOK, MergeSteps, TargetSteps
  <1>6. Grows /\ Known' = Known /\ UNCHANGED <<history, target, branch, rebasing, files, pushed>>
    BY <1>1, <1>2, GrowsNot DEF Known, repository
  <1>7. CASE worker[k].pc \notin {"idle", "scanning"}
    <2>1. PICK w \in Worktrees : w = worker[k].on
      BY <1>7, AtWork DEF On
    <2>2. /\ RecordOK(w) /\ interrupted' = interrupted \cup {w}
      BY <1>1, <2>1 DEF GInv
    <2>3. /\ branch[w] \in {NoCommit} \cup Known /\ rebasing[w] \in {NoCommit} \cup Known
          /\ rebasing[w] # NoCommit => branch[w] # NoCommit
      BY <2>2 DEF RecordOK
    <2>. QED BY <1>1, <1>2, <1>3, <1>4, <1>5, <1>6, <1>7, <2>1, <2>2, <2>3, TreeMoves
  <1>8. CASE worker[k].pc \in {"idle", "scanning"}
    <2>1. worker[k].on = NoWorktree /\ interrupted' = interrupted
      BY <1>1, <1>2, <1>8, QueueAssumption DEF WorkerOK
    <2>2. Shapes' /\ \A v \in Worktrees : SameRecord(v)
      BY <1>1, <1>2, <1>3, <1>4, <1>6, <2>1 DEF Shapes, Beside, SameRecord
    <2>3. GInv'
      <3>1. \A v \in Worktrees : RecordOK(v)' /\ EntryOK(v)'
        BY <1>1, <1>6, <2>2, RecordKept, EntryKept DEF GInv
      <3>2. \A j \in Workers : WorkerOK(j)'
        BY <1>1, <1>4, <1>5, <1>6, WorkerKept DEF GInv
      <3>3. TargetOK' /\ OneActive' /\ GraphOK'
        BY <1>1, <1>6 DEF GInv, TargetOK, TargetIsGated, ForeignPushesKept, OneActive, Grows
      <3>. QED BY <2>2, <3>1, <3>2, <3>3 DEF GInv
    <2>4. ASSUME SInv, Alone(k) PROVE SInv'
      <3>1. \A v \in Worktrees, j \in Workers : worker[j].on # v /\ worker'[j].on # v
        BY <1>4, <2>1, <2>4, QueueAssumption DEF Alone
      <3>2. \A v \in Worktrees : TreeOK(v)'
        BY <1>1, <1>6, <2>1, <2>2, <2>4, <3>1, TreeKept DEF SInv, TreeOK
      <3>3. \A j \in Workers : MergeOK(j)'
        BY <1>4, <1>5, <2>4 DEF Alone, MergeOK, MergeSteps
      <3>. QED BY <2>3, <3>2, <3>3 DEF SInv
    <2>. QED BY <2>3, <2>4 DEF KeepsBy
  <1>. QED BY <1>7, <1>8

-----------------------------------------------------------------------------
(* The invariants *)

\* The first state: one commit of the target, and the first commits of worktrees.
LEMMA FirstState ==
    ASSUME MergeInit
    PROVE  SInv
  <1>1. PICK start \in Starts : Starting(start)
    BY DEF MergeInit, WorktreeInit
  <1> DEFINE First(w) == 1 + CHOOSE i \in DOMAIN start.prepared : start.prepared[i] = w
             prepared == {start.prepared[i] : i \in DOMAIN start.prepared}
             n == Cardinality(Worktrees)
  <1>2. /\ worktree = [w \in Worktrees |->
                IF w \in prepared
                THEN [status |-> "ready", base |-> 1, head |-> First(w)]
                ELSE [status |-> "none", base |-> NoCommit, head |-> NoCommit]]
        /\ branch = [w \in Worktrees |-> IF w \in prepared THEN First(w) ELSE NoCommit]
        /\ history = [c \in 1 .. 1 + n |-> {1, c}]
        /\ working = start.working
    BY <1>1, Zenon DEF Starting
  <1>3. /\ fenced = Worktrees /\ target = 1 /\ files = [w \in Worktrees |-> "clean"]
        /\ rebasing = [w \in Worktrees |-> NoCommit] /\ job = [w \in Worktrees |-> Idle]
        /\ checking = [w \in Worktrees |-> "none"] /\ pushed = {1} /\ interrupted = {} /\ faults = 0
        /\ entry = [w \in Worktrees |-> NoEntry] /\ conflicts = {}
        /\ worker = [k \in Workers |-> Waiting] /\ gated = {}
    BY DEF MergeInit, WorktreeInit
  <1>4. /\ n \in Nat /\ n < MaxCommits /\ MaxCommits \in Nat /\ MaxFaults \in Nat
        /\ start.working \subseteq Worktrees /\ start.prepared \in Seq(Worktrees)
        /\ Len(start.prepared) \in Nat /\ Len(start.prepared) <= n
    BY WorktreeAssumption, FS_CardinalityType
  <1>5. \A w \in prepared : First(w) \in 1 .. 1 + n
    <2> SUFFICES ASSUME NEW w \in prepared PROVE First(w) \in 1 .. 1 + n
      OBVIOUS
    <2> DEFINE i == CHOOSE i \in DOMAIN start.prepared : start.prepared[i] = w
    <2>1. i \in DOMAIN start.prepared
      OBVIOUS
    <2>2. i \in 1 .. Len(start.prepared)
      BY <1>4, <2>1
    <2>3. First(w) = 1 + i
      OBVIOUS
    <2> HIDE DEF i
    <2>. QED BY <1>4, <2>2, <2>3
  <1> HIDE DEF First, prepared, n
  <1>6. /\ history \in Seq(SUBSET Nat) /\ Len(history) = 1 + n /\ Known = 1 .. 1 + n
        /\ \A c \in Known : history[c] = {1, c}
    <2>1. history \in [1 .. 1 + n -> SUBSET Nat] /\ 1 + n \in Nat
      BY <1>2, <1>4
    <2>2. history \in Seq(SUBSET Nat)
      BY <2>1, SeqDef
    <2>3. Len(history) = 1 + n
      <3>1. DOMAIN history = 1 .. 1 + n /\ DOMAIN history = 1 .. Len(history) /\ Len(history) \in Nat
        BY <2>1, <2>2
      <3>. QED BY <2>1, <3>1
    <2>. QED BY <1>2, <2>2, <2>3 DEF Known
  <1>7. GraphOK
    BY <1>4, <1>6 DEF GraphOK, Known
  <1>8. TargetOK
    BY <1>3, <1>4, <1>6 DEF TargetOK, TargetIsGated, ForeignPushesKept
  <1>9. /\ NoEntry \in EntryRecords /\ NoEntry.status = "none" /\ ~GatesPassed(NoEntry)
        /\ Idle \in JobRecords /\ Idle.pc = "idle" /\ NoCommit \in 0 .. MaxCommits
    BY <1>4 DEF NoEntry, EntryRecords, EntryStatuses, Gates, GatesPassed, NoCommit, n,
                Idle, JobRecords, JobSteps
  <1>10. \A w \in Worktrees :
            /\ worktree[w] \in WorktreeRecords /\ branch[w] \in 0 .. MaxCommits
            /\ \/ /\ worktree[w].status = "ready" /\ worktree[w].base \in Known
                  /\ worktree[w].head \in Known /\ branch[w] = worktree[w].head
                  /\ branch[w] # NoCommit
               \/ worktree[w].status = "none" /\ branch[w] = NoCommit
    BY <1>2, <1>4, <1>5, <1>6 DEF WorktreeRecords, Statuses, NoCommit
  <1>11. Shapes
    BY <1>2, <1>3, <1>4, <1>9, <1>10, WaitingTyped DEF Shapes, Checks, FileStates
  <1>12. \A w \in Worktrees : RecordOK(w) /\ EntryOK(w) /\ ~Active(entry[w])
    BY <1>3, <1>9, <1>10 DEF RecordOK, EntryOK, CommitSteps, Active
  <1>13. \A k \in Workers : WorkerOK(k) /\ MergeOK(k)
    BY <1>3, WaitingTyped DEF WorkerOK, MergeOK, MergeSteps, TargetSteps
  <1>14. \A w \in Worktrees : TreeOK(w)
    BY <1>3, <1>9, <1>10, <1>12, WaitingTyped DEF TreeOK, HeadOK, RebasedAt, CommitSteps
  <1>15. OneActive
    BY <1>12 DEF OneActive
  <1>. QED BY <1>7, <1>8, <1>11, <1>12, <1>13, <1>14, <1>15 DEF SInv, GInv

\* A worker that moves moves alone, and is in the middle of its loop before or after.
Moves(k) ==
    /\ \A j \in Workers \ {k} : worker'[j] = worker[j]
    /\ worker[k] # Waiting \/ worker'[k] # Waiting

LEMMA MoverIsAtWork ==
    ASSUME GInv, NEW k \in Workers,
           \/ ListCandidates(k) \/ TryCandidate(k) \/ WorkerStep(k)
           \/ StartRecovery(k) \/ CrashWorker(k)
    PROVE  Moves(k)
  <1>1. Waiting.pc = "idle" /\ worker \in [Workers -> WorkerRecords]
    BY DEF Waiting, GInv, Shapes
  <1>2. CASE WorkerStep(k)
    <2>1. worker[k].pc # "idle"
      BY <1>2 DEF WorkerStep, BeginMerge, StartMerge, Inspect, StartRebase, FinishRebase,
                  RequeueAfterRebase, CreateConflictTask, FastForward, RequeueAfterTargetMove,
                  ValidateMerged, MarkMerged, Rollback, MarkMergeFailed, Recover
    <2>2. CASE BeginMerge(k) \/ StartMerge(k) \/ Inspect(k) \/ StartRebase(k)
      BY <1>1, <2>1, <2>2 DEF BeginMerge, StartMerge, Inspect, StartRebase, Goto, Moves
    <2>3. CASE FinishRebase(k) \/ RequeueAfterRebase(k) \/ CreateConflictTask(k)
      BY <1>1, <2>1, <2>3 DEF FinishRebase, RequeueAfterRebase, CreateConflictTask, Goto, Rest,
                              RebasedTo, Conflicted, Moves
    <2>4. CASE FastForward(k) \/ RequeueAfterTargetMove(k) \/ ValidateMerged(k) \/ MarkMerged(k)
      BY <1>1, <2>1, <2>4 DEF FastForward, RequeueAfterTargetMove, ValidateMerged, MarkMerged,
                              Goto, Rest, Unrecorded, Moves
    <2>5. CASE Rollback(k) \/ MarkMergeFailed(k) \/ Recover(k)
      BY <1>1, <2>1, <2>5 DEF Rollback, MarkMergeFailed, Recover, Goto, Rest, Moves
    <2>. QED BY <1>2, <2>2, <2>3, <2>4, <2>5 DEF WorkerStep
  <1>3. CASE TryCandidate(k) \/ CrashWorker(k)
    BY <1>1, <1>3 DEF TryCandidate, CrashWorker, Rest, Moves
  <1>4. CASE ListCandidates(k)
    <2>1. PICK list : worker' = [worker EXCEPT ![k].pc = "scanning", ![k].list = list]
      BY <1>4 DEF ListCandidates
    <2>2. worker'[k].pc = "scanning"
      BY <1>1, <2>1 DEF WorkerRecords
    <2>. QED BY <1>1, <2>1, <2>2 DEF Moves
  <1>5. CASE StartRecovery(k)
    <2>1. PICK w \in Worktrees :
             worker' = [worker EXCEPT ![k] = [Waiting EXCEPT
                 !.pc = "recovering", !.mode = "recover", !.on = w,
                 !.base = entry[w].base, !.head = entry[w].head]]
      BY <1>5 DEF StartRecovery
    <2>2. worker'[k].pc = "recovering"
      BY <1>1, <2>1 DEF Waiting
    <2>. QED BY <1>1, <2>1, <2>2 DEF Moves
  <1>. QED BY <1>2, <1>3, <1>4, <1>5

\* Every step of a worker's loop.
LEMMA LoopKeeps ==
    ASSUME GInv, NEW k \in Workers, Beside,
           \/ ListCandidates(k) \/ TryCandidate(k) \/ WorkerStep(k)
           \/ StartRecovery(k) \/ CrashWorker(k)
    PROVE  KeepsBy(k) /\ Moves(k)
  <1> SUFFICES KeepsBy(k)
    BY MoverIsAtWork
  <1>1. CASE WorkerStep(k)
    <2>1. CASE BeginMerge(k) \/ StartMerge(k) \/ Inspect(k)
      BY <2>1, BeginKeeps, StartKeeps, InspectKeeps
    <2>2. CASE StartRebase(k) \/ FinishRebase(k) \/ RequeueAfterRebase(k) \/ CreateConflictTask(k)
      BY <2>2, StartRebaseKeeps, FinishRebaseKeeps, RequeueKeeps, ConflictKeeps
    <2>3. CASE FastForward(k) \/ RequeueAfterTargetMove(k) \/ ValidateMerged(k) \/ MarkMerged(k)
      BY <2>3, ForwardKeeps, MovedKeeps, ValidateKeeps, MarkKeeps
    <2>4. CASE Rollback(k) \/ MarkMergeFailed(k) \/ Recover(k)
      BY <2>4, RollbackKeeps, FailKeeps, RecoverKeeps
    <2>. QED BY <1>1, <2>1, <2>2, <2>3, <2>4 DEF WorkerStep
  <1>2. CASE ListCandidates(k) \/ TryCandidate(k)
    BY <1>2, ListKeeps, TryKeeps
  <1>3. CASE StartRecovery(k) \/ CrashWorker(k)
    BY <1>3, StartRecoveryKeeps, CrashKeeps
  <1>. QED BY <1>1, <1>2, <1>3

\* As long as nothing has overlapped, the tables and the repository agree in detail.
QuietHistory == crowded = FALSE => SInv /\ ~Crowding

\* Every step of the system keeps the general invariant, and the detailed one as long
\* as calls have not overlapped.
LEMMA StepKeeps ==
    ASSUME GInv, [Next]_vars
    PROVE  GInv' /\ (QuietHistory => QuietHistory')
  <1>1. CASE Next
    <2>1. ASSUME NEW w \in Worktrees, UNCHANGED <<wvars, repository>>,
                 \/ Enqueue(w) \/ CancelMerge(w)
                 \/ \E v \in {"passed", "failed"} : RecordReview(w, v) \/ RecordTests(w, v)
          PROVE  Keeps
      BY <2>1, EnqueueKeeps, CancelKeeps, DecidedKeeps
    <2>2. ASSUME NEW k \in Workers, UNCHANGED <<fenced, job, checking, working>>,
                 \/ ListCandidates(k) \/ TryCandidate(k) \/ WorkerStep(k)
                 \/ StartRecovery(k) \/ CrashWorker(k)
          PROVE  KeepsBy(k) /\ Moves(k)
      BY <2>2, LoopKeeps DEF Beside
    <2>3. ASSUME NEW w \in Worktrees, OrphanRebase(w) PROVE Keeps
      BY <2>3, OrphanKeeps
    <2>4. ASSUME WorktreeStep, UNCHANGED mvars PROVE Keeps
      BY <2>4, WorktreeStepKeeps
    <2>5. Keeps \/ \E k \in Workers : KeepsBy(k) /\ Moves(k)
      <3>1. CASE QueueStep
        BY <2>1, <2>2, <2>3, <3>1 DEF QueueStep
      <3>2. CASE WorktreeStep /\ UNCHANGED mvars
        BY <2>4, <3>2
      <3>. QED BY <1>1, <3>1, <3>2 DEF Next
    <2>6. GInv'
      BY <2>5 DEF Keeps, KeepsBy
    <2>7. ASSUME QuietHistory, crowded' = FALSE PROVE SInv' /\ ~Crowding'
      <3>1. crowded = FALSE /\ ~Crowding'
        BY <1>1, <2>7 DEF Next, Remembered
      <3>2. SInv /\ ~Crowding /\ Apart
        BY <2>7, <3>1 DEF QuietHistory, Crowding, Apart
      <3>3. CASE Keeps
        BY <3>1, <3>2, <3>3 DEF Keeps
      <3>4. ASSUME NEW k \in Workers, KeepsBy(k), Moves(k) PROVE SInv'
        <4>1. \A j \in Workers \ {k} : worker[j] = Waiting
          BY <3>1, <3>2, <3>4 DEF Crowding, Moves
        <4>2. Alone(k)
          BY <4>1 DEF Alone, Waiting
        <4>. QED BY <3>2, <3>4, <4>2 DEF KeepsBy
      <3>. QED BY <2>5, <3>1, <3>3, <3>4
    <2>. QED BY <2>6, <2>7 DEF QuietHistory
  <1>2. CASE UNCHANGED vars
    <2>1. /\ UNCHANGED <<worktree, job, checking, branch, files, rebasing, fenced, working>>
          /\ UNCHANGED <<interrupted, faults, entry, conflicts, worker, gated>>
          /\ UNCHANGED <<history, target, pushed, crowded>>
      BY <1>2 DEF vars, wvars, repository, mvars
    <2>2. Grows /\ \A v \in Worktrees : SameRecord(v)
      BY <2>1, GrowsNot DEF GInv, SameRecord
    <2>3. GInv'
      <3>1. \A v \in Worktrees : RecordOK(v)' /\ EntryOK(v)'
        BY <2>1, <2>2, RecordKept, EntryKept DEF GInv
      <3>2. \A j \in Workers : WorkerOK(j)'
        BY <2>1, <2>2, WorkerKept DEF GInv
      <3>3. TargetOK' /\ OneActive' /\ GraphOK' /\ Shapes'
        BY <2>1, <2>2 DEF GInv, TargetOK, TargetIsGated, ForeignPushesKept, OneActive, Grows,
                          Known, Shapes
      <3>. QED BY <3>1, <3>2, <3>3 DEF GInv
    <2>4. ASSUME SInv PROVE SInv'
      <3>1. \A v \in Worktrees : TreeOK(v)'
        BY <2>1, <2>2, <2>4, TreeKept DEF SInv, TreeOK
      <3>2. \A j \in Workers : MergeOK(j)'
        BY <2>1, <2>2, <2>4, MergeKept DEF SInv
      <3>. QED BY <2>3, <3>1, <3>2 DEF SInv
    <2>5. Crowding' <=> Crowding
      BY <2>1 DEF Crowding, Active
    <2>. QED BY <2>1, <2>3, <2>4, <2>5 DEF QuietHistory
  <1>. QED BY <1>1, <1>2

\* For any number of workers, and however commits and merges overlap.
THEOREM MergeInvariant == Spec => []GInv
  <1>1. MergeInit => GInv
    BY FirstState DEF SInv
  <1>2. GInv /\ [Next]_vars => GInv'
    BY StepKeeps
  <1>. QED BY <1>1, <1>2, PTL DEF Spec

\* The target branch only ever points to commits that others pushed or that passed
\* review and tests as the head of an entry: any number of workers.
THEOREM TargetStaysGated == Spec => []TargetIsGated
  <1>1. GInv => TargetIsGated
    BY DEF GInv, TargetOK
  <1>. QED BY <1>1, MergeInvariant, PTL

\* What others pushed stays on the target branch, through fast-forwards, late
\* rollbacks, crashes and recoveries of any number of workers.
THEOREM PushesAreKept == Spec => []ForeignPushesKept
  <1>1. GInv => ForeignPushesKept
    BY DEF GInv, TargetOK
  <1>. QED BY <1>1, MergeInvariant, PTL

\* At most one entry is active, and a ready worktree is on disk: what the general
\* invariant says of the tables, for any number of workers.
LEMMA TablesAgree ==
    ASSUME GInv
    PROVE  TypeOK /\ OneActiveEntry /\ ReadyHasDirectory
  <1>1. Shapes /\ TargetOK /\ OneActive /\ \A w \in Worktrees : RecordOK(w)
    BY DEF GInv
  <1>2. TypeOK
    BY <1>1 DEF TypeOK, Shapes, TargetOK, RecordOK, FileStates
  <1>3. OneActiveEntry
    <2> DEFINE A == {w \in Worktrees : Active(entry[w])}
    <2>1. CASE A = {}
      BY <2>1, FS_EmptySet DEF OneActiveEntry
    <2>2. CASE A # {}
      <3>1. PICK w \in A : TRUE
        BY <2>2
      <3>2. A = {w}
        BY <1>1, <3>1 DEF OneActive
      <3>3. Cardinality({w}) = 1
        BY FS_Singleton
      <3>. QED BY <3>2, <3>3 DEF OneActiveEntry
    <2>. QED BY <2>1, <2>2
  <1>4. ReadyHasDirectory
    BY <1>1 DEF ReadyHasDirectory, RecordOK
  <1>. QED BY <1>2, <1>3, <1>4

\* The tables of the queue are consistent for any number of workers.
THEOREM QueueStaysConsistent == Spec => [](TypeOK /\ OneActiveEntry /\ ReadyHasDirectory)
  <1>1. GInv => TypeOK /\ OneActiveEntry /\ ReadyHasDirectory
    BY TablesAgree
  <1>. QED BY <1>1, MergeInvariant, PTL

\* For any number of workers: the tables are consistent whatever overlaps, and until
\* two workers or a commit and a merge have overlapped, merged heads are on the target
\* for good and a quiet worktree has its recorded head checked out.
THEOREM QueueAgreesWithGit == Spec => []QueueMatchesGit
  <1>1. MergeInit => GInv /\ QuietHistory
    <2> SUFFICES ASSUME MergeInit PROVE GInv /\ QuietHistory
      OBVIOUS
    <2>1. SInv
      BY FirstState
    <2>2. ~Crowding
      <3>1. \A k \in Workers : worker[k] = Waiting
        BY DEF MergeInit
      <3>2. \A w \in Worktrees : ~Active(entry[w])
        BY DEF MergeInit, NoEntry, Active
      <3>. QED BY <3>1, <3>2 DEF Crowding
    <2>. QED BY <2>1, <2>2 DEF QuietHistory, SInv
  <1>2. GInv /\ QuietHistory /\ [Next]_vars => (GInv /\ QuietHistory)'
    BY StepKeeps
  <1>3. GInv /\ QuietHistory => QueueMatchesGit
    <2> SUFFICES ASSUME GInv, QuietHistory PROVE QueueMatchesGit
      OBVIOUS
    <2>1. TypeOK /\ OneActiveEntry /\ ReadyHasDirectory
      BY TablesAgree
    <2>2. ASSUME crowded = FALSE PROVE MergedHeadsAreOnTarget
      BY <2>2 DEF QuietHistory, SInv, TreeOK, MergedHeadsAreOnTarget
    <2>3. ASSUME crowded = FALSE PROVE DurableHeadMatchesBranch
      <3> SUFFICES ASSUME NEW w \in Worktrees, worktree[w].status = "ready", Quiet(w),
                          w \notin interrupted
                   PROVE  branch[w] = worktree[w].head
        BY DEF DurableHeadMatchesBranch
      <3>1. HeadOK(w) /\ job[w].pc = "idle" /\ ~RebasedAt(w)
        BY <2>3 DEF QuietHistory, SInv, TreeOK, Quiet, Idle, RebasedAt, On
      <3>. QED BY <3>1 DEF HeadOK
    <2>. QED BY <2>1, <2>2, <2>3 DEF QueueMatchesGit
  <1>. QED BY <1>1, <1>2, <1>3, PTL DEF Spec

=============================================================================
