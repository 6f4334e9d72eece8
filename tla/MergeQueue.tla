----------------------------- MODULE MergeQueue -----------------------------
(* The merge queue over the worktrees: review and test gates, the claim of one  *)
(* entry, and the coordinator of a merge worker, which moves the target branch   *)
(* by compare and swap and recovers what a dead worker left behind.             *)
EXTENDS GitWorktrees

CONSTANTS Workers,      \* merge worker processes
          Priority,     \* priority each worktree is enqueued with
          NoWorktree    \* what an idle worker works on

ASSUME QueueAssumption == NoWorktree \notin Worktrees

VARIABLES entry,        \* git_merge_queue, one row per worktree at most
          conflicts,    \* worktrees with a row in git_conflict_tasks
          worker,       \* where each worker is in its loop
          gated,        \* commits that passed both gates as the head of an entry
          crowded       \* auxiliary: whether calls have overlapped, see Crowding

mvars == <<entry, conflicts, worker, gated>>
vars == <<wvars, repository, mvars, crowded>>

Gates == {"pending", "passed", "failed"}
EntryStatuses ==
    {"none", "queued", "claimed", "merging", "conflict", "merged", "cancelled", "failed"}
EntryRecords == [status : EntryStatuses, base : 0 .. MaxCommits, head : 0 .. MaxCommits,
                 review : Gates, tests : Gates, sequence : 0 .. Cardinality(Worktrees)]
NoEntry == [status |-> "none", base |-> NoCommit, head |-> NoCommit,
            review |-> "pending", tests |-> "pending", sequence |-> 0]
Waiting == [pc |-> "idle", mode |-> "execute", on |-> NoWorktree, list |-> <<>>,
            base |-> NoCommit, head |-> NoCommit, target |-> NoCommit]

-----------------------------------------------------------------------------
(* Entries. *)

EnsureQueued(w) == entry[w].status = "queued"
EnsureMerging(w) == entry[w].status = "merging"
Cancellable(w) == entry[w].status \in {"queued", "claimed"}
GatesPassed(e) == e.review = "passed" /\ e.tests = "passed"
Active(e) == e.status \in {"claimed", "merging"}
SetStatus(w, status) == [entry EXCEPT ![w].status = status]

NextSequence == 1 + Cardinality({w \in Worktrees : entry[w].status # "none"})

Enqueue(w) ==
    /\ entry[w].status = "none"
    /\ worktree[w].status = "ready" /\ w \in fenced
    /\ entry' = [entry EXCEPT ![w] = [NoEntry EXCEPT
                    !.status = "queued", !.base = worktree[w].base,
                    !.head = worktree[w].head, !.sequence = NextSequence]]
    /\ UNCHANGED <<conflicts, worker, gated>>

\* A decision on one gate, only while the entry is queued; it may be taken again.
Decided(w, e) ==
    /\ EnsureQueued(w)
    /\ entry' = [entry EXCEPT ![w] = e]
    /\ gated' = IF GatesPassed(e) THEN gated \cup {e.head} ELSE gated
    /\ UNCHANGED <<conflicts, worker>>

RecordReview(w, verdict) == Decided(w, [entry[w] EXCEPT !.review = verdict])
RecordTests(w, verdict) == Decided(w, [entry[w] EXCEPT !.tests = verdict])

CancelMerge(w) ==
    /\ Cancellable(w)
    /\ entry' = SetStatus(w, "cancelled")
    /\ UNCHANGED <<conflicts, worker, gated>>

LiveMergeFence(w) ==
    /\ w \in fenced
    /\ worktree[w].status = "ready"
    /\ worktree[w].head = entry[w].head

\* Fault: the gates of the old head are kept.
RequeuedWithGates(w, base, head) ==
    entry' = [entry EXCEPT ![w] = [@ EXCEPT !.status = "queued", !.base = base, !.head = head]]

\* Back to the queue: reviewers and tests decide again.
Requeued(w, base, head) ==
    entry' = [entry EXCEPT ![w] = [@ EXCEPT !.status = "queued", !.base = base, !.head = head,
                                            !.review = "pending", !.tests = "pending"]]

-----------------------------------------------------------------------------
(* What Git answers. *)

IsAncestor(a, c) == c # NoCommit /\ a \in history[c]
RebaseStateExists(w) == rebasing[w] # NoCommit
AbortRebase(w) == rebasing' = [rebasing EXCEPT ![w] = NoCommit]

\* A worktree that can be merged: clean, and at the head of its entry.
Inspection(w, head) == branch[w] = head /\ files[w] = "clean" /\ ~RebaseStateExists(w)

FastForwardOutcome(expected, head) ==
    CASE target # expected -> "moved"
      [] target = expected /\ IsAncestor(expected, head) -> "applied"
      [] OTHER -> "error"

RollbackOutcome(expected) == IF target = expected THEN "applied" ELSE "moved"

\* What recovery finds; an interrupted rebase is aborted on the way.
Observation(w, head) ==
    CASE branch[w] = NoCommit -> "missing"
      [] branch[w] # NoCommit /\ RebaseStateExists(w) -> "interrupted"
      [] branch[w] # NoCommit /\ ~RebaseStateExists(w) /\ target = head -> "merged"
      [] branch[w] # NoCommit /\ ~RebaseStateExists(w) /\ target # head
         /\ branch[w] # head /\ IsAncestor(target, branch[w]) -> "rebased"
      [] OTHER -> "diverged"

-----------------------------------------------------------------------------
(* The worker's loop: claim_next_merge. *)

Goto(k, pc) == worker' = [worker EXCEPT ![k].pc = pc]
Rest(k) == worker' = [worker EXCEPT ![k] = Waiting]
Fault(k) == faults < MaxFaults /\ faults' = faults + 1

Eligible(w) == EnsureQueued(w) /\ GatesPassed(entry[w])
Before(v, w) == \/ Priority[v] > Priority[w]
                \/ /\ Priority[v] = Priority[w]
                   /\ entry[v].sequence < entry[w].sequence

\* The eligible entries, best first.
CandidateLists ==
    LET E == {w \in Worktrees : Eligible(w)}
    IN  {s \in [1 .. Cardinality(E) -> E] : \A i, j \in DOMAIN s : i < j => Before(s[i], s[j])}

\* A query before the claim, a unique index under it: a second claim fails.
SingleActive == ~\E w \in Worktrees : Active(entry[w])

\* The list of candidates is read outside the transactions that follow.
ListCandidates(k) ==
    /\ worker[k] = Waiting
    /\ SingleActive
    /\ \E w \in Worktrees : Eligible(w)
    /\ \E list \in CandidateLists :
          worker' = [worker EXCEPT ![k].pc = "scanning", ![k].list = list]
    /\ UNCHANGED <<entry, conflicts, gated, faults, interrupted, worktree, repository>>

TryCandidate(k) ==
    LET w == Head(worker[k].list)
        Skip == IF Len(worker[k].list) = 1
                THEN Rest(k)
                ELSE worker' = [worker EXCEPT ![k].list = Tail(@)]
    IN  /\ worker[k].pc = "scanning"
        /\ \/ ~Eligible(w) /\ Skip /\ UNCHANGED entry
           \/ /\ Eligible(w) /\ ~LiveMergeFence(w)
              /\ entry' = SetStatus(w, "failed")
              /\ Skip
           \/ /\ Eligible(w) /\ LiveMergeFence(w) /\ SingleActive
              /\ entry' = SetStatus(w, "claimed")
              /\ worker' = [worker EXCEPT ![k] = [Waiting EXCEPT !.pc = "claimed", !.on = w]]
           \/ /\ Eligible(w) /\ LiveMergeFence(w) /\ ~SingleActive
              /\ Rest(k) /\ UNCHANGED entry
        /\ UNCHANGED <<conflicts, gated, faults, interrupted, worktree, repository>>

-----------------------------------------------------------------------------
(* execute_claimed: the fence, begin_merge, inspection. *)

On(k) == worker[k].on

BeginMerge(k) ==
    LET w == On(k) IN
    /\ worker[k].pc = "claimed"
    /\ IF LiveMergeFence(w) THEN Goto(k, "beginning") ELSE Goto(k, "failing")
    /\ UNCHANGED <<entry, conflicts, gated, faults, interrupted, worktree, repository>>

StartMerge(k) ==
    LET w == On(k) IN
    /\ worker[k].pc = "beginning"
    /\ IF entry[w].status = "claimed"
       THEN /\ entry' = SetStatus(w, "merging")
            /\ worker' = [worker EXCEPT ![k].pc = "inspecting",
                                        ![k].base = entry[w].base, ![k].head = entry[w].head]
       ELSE Goto(k, "failing") /\ UNCHANGED entry
    /\ UNCHANGED <<conflicts, gated, faults, interrupted, worktree, repository>>

\* A worktree that cannot be read, is not clean or has another head fails.
Inspect(k) ==
    /\ worker[k].pc = "inspecting"
    /\ IF Inspection(On(k), worker[k].head)
       THEN worker' = [worker EXCEPT ![k].target = target,
                ![k].pc = IF target = worker[k].base THEN "forwarding" ELSE "rebasing"]
       ELSE Goto(k, "failing")
    /\ UNCHANGED <<entry, conflicts, gated, faults, interrupted, worktree, repository>>

-----------------------------------------------------------------------------
(* The target moved: execute_rebase. *)

StartRebase(k) ==
    LET w == On(k) IN
    /\ worker[k].pc = "rebasing"
    /\ IF LiveMergeFence(w) /\ branch[w] # NoCommit /\ files[w] = "clean"
       THEN Goto(k, "rebase") /\ rebasing' = [rebasing EXCEPT ![w] = worker[k].target]
       ELSE Goto(k, "failing") /\ UNCHANGED rebasing
    /\ UNCHANGED <<entry, conflicts, gated, faults, interrupted, worktree>>
    /\ UNCHANGED <<history, target, branch, files, pushed>>

\* Git rewrites the commits of the worktree onto the commit it was given.
Rebase(w) ==
    LET onto == rebasing[w] IN
    /\ rebasing' = [rebasing EXCEPT ![w] = NoCommit]
    /\ \/ /\ onto \in history[branch[w]]
          /\ UNCHANGED <<history, branch>>
       \/ /\ branch[w] \in history[onto]
          /\ branch' = [branch EXCEPT ![w] = onto]
          /\ UNCHANGED history
       \/ /\ onto \notin history[branch[w]] /\ branch[w] \notin history[onto]
          /\ CanCommit
          /\ history' = Extended(onto)
          /\ branch' = [branch EXCEPT ![w] = NewCommit]
    /\ UNCHANGED <<target, files, pushed>>

\* What execute_rebase does next: the entry is queued again, or has a task.
RebasedTo(k, head) == worker' = [worker EXCEPT ![k].pc = "rebased", ![k].head = head]
Conflicted(k) == Goto(k, "conflict")

FinishRebase(k) ==
    LET w == On(k) IN
    /\ worker[k].pc = "rebase"
    /\ \/ /\ RebaseStateExists(w) /\ Rebase(w)
          /\ RebasedTo(k, branch'[w])
          /\ UNCHANGED <<faults, interrupted>>
       \/ /\ RebaseStateExists(w)              \* conflict: the rebase is aborted
          /\ AbortRebase(w)
          /\ Conflicted(k)
          /\ UNCHANGED <<faults, interrupted, history, branch, target, files, pushed>>
       \/ /\ ~RebaseStateExists(w)             \* someone else aborted it
          /\ Goto(k, "failing")
          /\ UNCHANGED <<faults, interrupted, repository>>
       \/ /\ RebaseStateExists(w)              \* time-out: git runs on by itself
          /\ Fault(k) /\ interrupted' = interrupted \cup {w}
          /\ Goto(k, "failing")
          /\ UNCHANGED repository
    /\ UNCHANGED <<entry, conflicts, gated, worktree>>

\* A rebase nobody waits for any more comes to its end.
OrphanRebase(w) ==
    /\ rebasing[w] # NoCommit
    /\ ~\E k \in Workers : worker[k].pc = "rebase" /\ On(k) = w
    /\ Rebase(w)
    /\ UNCHANGED <<wvars, mvars>>

SaveWorktreeHead(w, head) == worktree' = [worktree EXCEPT ![w].head = head]

\* Worktree head and entry change together; both gates start again.
RequeueAfterRebase(k) ==
    LET w == On(k) IN
    /\ worker[k].pc = "rebased"
    /\ IF EnsureMerging(w) /\ worktree[w].status = "ready"
       THEN /\ Requeued(w, worker[k].target, worker[k].head)
            /\ SaveWorktreeHead(w, worker[k].head)
            /\ Rest(k)
            /\ UNCHANGED interrupted
       ELSE /\ IF worker[k].mode = "execute" THEN Goto(k, "failing") ELSE Rest(k)
            /\ interrupted' = interrupted \cup {w}
            /\ UNCHANGED <<entry, worktree>>
    /\ UNCHANGED <<conflicts, gated, faults, repository>>

MarkConflict(w) == EnsureMerging(w) /\ entry' = SetStatus(w, "conflict")

\* One conflict task per entry: a second report returns the first task.
CreateConflictTask(k) ==
    LET w == On(k) IN
    /\ worker[k].pc = "conflict"
    /\ \/ w \in conflicts /\ Rest(k) /\ UNCHANGED <<entry, conflicts>>
       \/ /\ w \notin conflicts /\ MarkConflict(w)
          /\ conflicts' = conflicts \cup {w}
          /\ Rest(k)
       \/ /\ w \notin conflicts /\ ~EnsureMerging(w)
          /\ Goto(k, "failing")
          /\ UNCHANGED <<entry, conflicts>>
    /\ UNCHANGED <<gated, faults, interrupted, worktree, repository>>

-----------------------------------------------------------------------------
(* The target did not move: fast_forward, mark_merged, rollback. *)

\* `git update-ref` with the expected value: it moves the branch or reports a move.
FastForward(k) ==
    /\ worker[k].pc = "forwarding"
    /\ LET outcome == FastForwardOutcome(worker[k].target, worker[k].head) IN
       \/ outcome = "moved" /\ Goto(k, "moved") /\ UNCHANGED <<target, faults>>
       \/ outcome = "error" /\ Goto(k, "failing") /\ UNCHANGED <<target, faults>>
       \/ /\ outcome = "applied"
          /\ target' = worker[k].head
          /\ Goto(k, "applied") /\ UNCHANGED faults
       \/ Fault(k) /\ Goto(k, "failing") /\ UNCHANGED target
    /\ UNCHANGED <<entry, conflicts, gated, interrupted, worktree>>
    /\ UNCHANGED <<history, branch, files, rebasing, pushed>>

RequeueAfterTargetMove(k) ==
    LET w == On(k) IN
    /\ worker[k].pc = "moved"
    /\ IF EnsureMerging(w)
       THEN Requeued(w, entry[w].base, entry[w].head) /\ Rest(k)
       ELSE Goto(k, "failing") /\ UNCHANGED entry
    /\ UNCHANGED <<conflicts, gated, faults, interrupted, worktree, repository>>

\* When a merge cannot be recorded, execution takes it back; recovery gives up.
Unrecorded(k) == IF worker[k].mode = "execute" THEN Goto(k, "undoing") ELSE Rest(k)

ValidateMerged(k) ==
    /\ worker[k].pc = "applied"
    /\ IF LiveMergeFence(On(k)) THEN Goto(k, "marking") ELSE Unrecorded(k)
    /\ UNCHANGED <<entry, conflicts, gated, faults, interrupted, worktree, repository>>

MarkMerged(k) ==
    LET w == On(k) IN
    /\ worker[k].pc = "marking"
    /\ IF EnsureMerging(w)
       THEN entry' = SetStatus(w, "merged") /\ Rest(k)
       ELSE Unrecorded(k) /\ UNCHANGED entry
    /\ UNCHANGED <<conflicts, gated, faults, interrupted, worktree, repository>>

\* Fault: the target is set back whatever it points to by now.
RollbackAnyway(k) ==
    /\ worker[k].pc = "undoing"
    /\ target' = worker[k].target
    /\ Goto(k, "failing")
    /\ UNCHANGED <<entry, conflicts, gated, interrupted, faults, worktree>>
    /\ UNCHANGED <<history, branch, files, rebasing, pushed>>

\* Compare and swap back; a target that moved again stays where it is.
Rollback(k) ==
    /\ worker[k].pc = "undoing"
    /\ \/ /\ RollbackOutcome(worker[k].head) = "applied"
          /\ target' = worker[k].target
          /\ UNCHANGED faults
       \/ RollbackOutcome(worker[k].head) = "moved" /\ UNCHANGED <<target, faults>>
       \/ Fault(k) /\ UNCHANGED target
    /\ Goto(k, "failing")
    /\ UNCHANGED <<entry, conflicts, gated, interrupted, worktree>>
    /\ UNCHANGED <<history, branch, files, rebasing, pushed>>

\* Only an entry that is claimed or merging can fail.
FailEntry(w) ==
    IF Active(entry[w]) THEN entry' = SetStatus(w, "failed") ELSE UNCHANGED entry

\* mark_merge_failed, by the coordinator or by the loop around it.
MarkMergeFailed(k) ==
    LET w == On(k) IN
    /\ worker[k].pc = "failing"
    /\ FailEntry(w)
    /\ Rest(k)
    /\ UNCHANGED <<conflicts, gated, faults, interrupted, worktree, repository>>

-----------------------------------------------------------------------------
(* reconcile_stale: what the repository says about an entry left in merging. *)

\* Fault: only entries that were claimed and not begun are looked for.
StartRecoveryOfClaimed(k) ==
    /\ worker[k] = Waiting
    /\ \E w \in Worktrees :
          /\ entry[w].status = "claimed"
          /\ worker' = [worker EXCEPT ![k] = [Waiting EXCEPT
                 !.pc = "recovering", !.mode = "recover", !.on = w,
                 !.base = entry[w].base, !.head = entry[w].head]]
    /\ UNCHANGED <<entry, conflicts, gated, faults, interrupted, worktree, repository>>

StartRecovery(k) ==
    /\ worker[k] = Waiting
    /\ \E w \in Worktrees :
          /\ entry[w].status = "merging"
          /\ worker' = [worker EXCEPT ![k] = [Waiting EXCEPT
                 !.pc = "recovering", !.mode = "recover", !.on = w,
                 !.base = entry[w].base, !.head = entry[w].head]]
    /\ UNCHANGED <<entry, conflicts, gated, faults, interrupted, worktree, repository>>

\* Fault: a worktree that still has the head of the entry counts as merged.
RecoverBySource(k) ==
    LET w == On(k) IN
    /\ worker[k].pc = "recovering"
    /\ IF branch[w] = worker[k].head THEN Goto(k, "applied") ELSE Goto(k, "failing")
    /\ UNCHANGED <<entry, conflicts, gated, faults, interrupted, worktree, repository>>

Recover(k) ==
    LET seen == Observation(On(k), worker[k].head)
        Found(pc, head) == worker' = [worker EXCEPT ![k].pc = pc, ![k].head = head,
                                                    ![k].target = target]
    IN  /\ worker[k].pc = "recovering"
        /\ \/ seen = "merged" /\ Found("applied", worker[k].head)
           \/ seen = "rebased" /\ Found("rebased", branch[On(k)])
           \/ seen \in {"interrupted", "missing", "diverged"} /\ Goto(k, "failing")
        /\ IF seen = "interrupted" THEN AbortRebase(On(k)) ELSE UNCHANGED rebasing
        /\ UNCHANGED <<entry, conflicts, gated, faults, interrupted, worktree>>
        /\ UNCHANGED <<history, target, branch, files, pushed>>

CrashWorker(k) ==
    /\ worker[k] # Waiting
    /\ Fault(k)
    /\ Rest(k)
    /\ interrupted' = IF worker[k].on \in Worktrees
                      THEN interrupted \cup {worker[k].on} ELSE interrupted
    /\ UNCHANGED <<entry, conflicts, gated, worktree, repository>>

-----------------------------------------------------------------------------

WorkerStep(k) ==
    \/ BeginMerge(k) \/ StartMerge(k) \/ Inspect(k)
    \/ StartRebase(k) \/ FinishRebase(k) \/ RequeueAfterRebase(k) \/ CreateConflictTask(k)
    \/ FastForward(k) \/ RequeueAfterTargetMove(k)
    \/ ValidateMerged(k) \/ MarkMerged(k) \/ Rollback(k) \/ MarkMergeFailed(k)
    \/ Recover(k)

QueueStep ==
    \/ /\ \E w \in Worktrees :
             \/ Enqueue(w)
             \/ \E v \in {"passed", "failed"} : RecordReview(w, v) \/ RecordTests(w, v)
             \/ CancelMerge(w)
       /\ UNCHANGED <<wvars, repository>>
    \/ /\ \E k \in Workers :
             \/ ListCandidates(k) \/ TryCandidate(k)
             \/ WorkerStep(k)
             \/ StartRecovery(k) \/ CrashWorker(k)
       /\ UNCHANGED <<fenced, job, checking, working>>
    \/ \E w \in Worktrees : OrphanRebase(w)

MergeInit ==
    /\ WorktreeInit
    /\ entry = [w \in Worktrees |-> NoEntry]
    /\ conflicts = {}
    /\ worker = [k \in Workers |-> Waiting]
    /\ gated = {}
    /\ crowded = FALSE

\* Nothing in the code keeps these apart: two workers in the middle of their loops,
\* and a commit and a merge of one worktree.
Crowding ==
    \/ \E j, k \in Workers : j # k /\ worker[j] # Waiting /\ worker[k] # Waiting
    \/ \E w \in Worktrees : job[w].pc \in CommitSteps /\ Active(entry[w])

Remembered == crowded' = IF Crowding' THEN TRUE ELSE crowded

Next == /\ QueueStep \/ (WorktreeStep /\ UNCHANGED mvars)
        /\ Remembered

Spec == MergeInit /\ [][Next]_vars

Elsewhere == UNCHANGED <<fenced, job, checking, working>> /\ Remembered

\* The loop of a worker goes on after every error and every restart: it claims,
\* executes and reconciles in turn. Time-outs and crashes are bounded faults.
Fairness ==
    \A k \in Workers :
        /\ WF_vars(WorkerStep(k) /\ Elsewhere)
        /\ WF_vars((StartRecovery(k) \/ TryCandidate(k)) /\ Elsewhere)

FairSpec == Spec /\ Fairness

-----------------------------------------------------------------------------
(* Properties. *)

\* The tables, the repository and the worker's loop have their shapes.
TypeOK ==
    /\ worktree \in [Worktrees -> WorktreeRecords] /\ entry \in [Worktrees -> EntryRecords]
    /\ \A w \in Worktrees : worktree[w].status = "ready" => worktree[w].head \in Known
    /\ fenced \subseteq Worktrees /\ interrupted \subseteq Worktrees /\ conflicts \subseteq Worktrees
    /\ target \in Known /\ pushed \subseteq Known /\ gated \subseteq Known
    /\ branch \in [Worktrees -> 0 .. MaxCommits] /\ rebasing \in [Worktrees -> 0 .. MaxCommits]
    /\ files \in [Worktrees -> {"clean", "edited", "staged"}]
    /\ faults \in 0 .. MaxFaults

\* What others pushed to the target branch is never taken off it again, by a
\* fast-forward or by a rollback that came too late.
ForeignPushesKept == pushed \subseteq history[target]

\* The target branch only ever points to commits that others pushed or that
\* passed review and tests as the head of an entry, rebased heads included.
TargetIsGated == target \in gated \cup pushed

\* At most one entry is being merged, whoever claims and recovers.
OneActiveEntry == Cardinality({w \in Worktrees : Active(entry[w])}) <= 1

\* A record is ready only while its worktree is on disk, whatever allocation,
\* its retries, reconciliation and cleanup do at the same time.
ReadyHasDirectory ==
    \A w \in Worktrees : worktree[w].status = "ready" => branch[w] # NoCommit

\* An entry that is reported as merged stays on the target branch.
MergedHeadsAreOnTarget ==
    \A w \in Worktrees : entry[w].status = "merged" => entry[w].head \in history[target]

\* A worktree whose claim, commit or merge is not under way has its recorded
\* head checked out, unless a call on it was cut short.
Quiet(w) == job[w] = Idle /\ ~\E k \in Workers : On(k) = w
DurableHeadMatchesBranch ==
    \A w \in Worktrees :
        worktree[w].status = "ready" /\ Quiet(w) /\ w \notin interrupted
            => branch[w] = worktree[w].head

\* The tables of the queue and of the worktrees agree with each other and with the
\* repository, between any two steps of allocation, merge, crash and recovery; which
\* commit each has, until two workers or a commit and a merge have overlapped.
QueueMatchesGit ==
    /\ TypeOK
    /\ OneActiveEntry /\ ReadyHasDirectory
    /\ crowded = FALSE => MergedHeadsAreOnTarget /\ DurableHeadMatchesBranch

\* A rebased head is accepted only while the fence is live and the worktree still
\* has the head of the entry, as the queue's specification asks.
RebasedHeadsAreValidated ==
    [][\A w \in Worktrees :
          entry[w].status = "merging" /\ entry'[w].status = "queued" /\ entry'[w].head # entry[w].head
              => LiveMergeFence(w)]_vars

\* An entry left in merging by a dead worker is settled, as long as its fence lives.
MergingSettles ==
    \A w \in Worktrees :
        entry[w].status = "merging" ~> entry[w].status # "merging" \/ ~LiveMergeFence(w)

=============================================================================
