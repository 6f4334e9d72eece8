---------------------------- MODULE GitWorktrees ----------------------------
(* Worktrees of claims: the records of sessionweft-git(-sqlite), the Git        *)
(* repository they stand for, and the two services that change both             *)
(* (GitWorktreeService, GitWorktreeMutationService) around commands that no     *)
(* transaction covers.                                                          *)
EXTENDS Naturals, Sequences, FiniteSets

CONSTANTS Worktrees,    \* worktrees, one per scheduler claim
          Starts,       \* situations to start from, see WorktreeInit
          MaxCommits,   \* bound: commits of the repository
          MaxFaults     \* bound: crashes, time-outs and failing commands

\* A start names worktrees, and there is room for a first commit of each.
ASSUME WorktreeAssumption ==
    /\ IsFiniteSet(Worktrees)
    /\ MaxCommits \in Nat /\ Cardinality(Worktrees) < MaxCommits
    /\ MaxFaults \in Nat
    /\ \A start \in Starts :
          /\ start.working \subseteq Worktrees
          /\ start.prepared \in Seq(Worktrees)
          /\ Len(start.prepared) <= Cardinality(Worktrees)

VARIABLES worktree,     \* git_worktrees: status, base_commit, head_commit
          fenced,       \* worktrees whose lease is alive with the recorded token
          history,      \* history[c]: the ancestors of commit c, c included
          target,       \* the commit of the target branch
          branch,       \* HEAD of each worktree on disk
          files,        \* what is not committed in each worktree
          rebasing,     \* the commit a worktree is being rebased onto
          job,          \* the service call in flight for each worktree
          checking,     \* what reconciliation saw of a worktree before it writes
          pushed,       \* commits others put on the target branch
          working,      \* worktrees whose claim allocates, commits and cleans up
          interrupted,  \* worktrees where a fault cut a call short
          faults        \* faults so far

repository == <<history, target, branch, files, rebasing, pushed>>
wvars == <<worktree, fenced, job, checking, working, interrupted, faults>>

NoCommit == 0
Commits == 1 .. MaxCommits
Statuses == {"none", "provisioning", "ready", "failed", "abandoned", "cleaned"}
WorktreeRecords == [status : Statuses, base : 0 .. MaxCommits, head : 0 .. MaxCommits]
Idle == [pc |-> "idle", head |-> NoCommit, commit |-> NoCommit]

-----------------------------------------------------------------------------
(* Git, as the adapters use it. *)

Known == 1 .. Len(history)
NewCommit == Len(history) + 1
CanCommit == Len(history) < MaxCommits

\* History with one more commit on top of `parent`.
Extended(parent) == Append(history, history[parent] \cup {NewCommit})

\* A branch others work on moves forward (a push, another tool).
Push ==
    /\ CanCommit
    /\ history' = Extended(target)
    /\ target' = NewCommit
    /\ pushed' = pushed \cup {NewCommit}
    /\ UNCHANGED <<branch, files, rebasing>>
    /\ UNCHANGED wvars

Edit(w) ==
    /\ worktree[w].status = "ready"
    /\ branch[w] # NoCommit /\ rebasing[w] = NoCommit
    /\ files[w] = "clean"
    /\ CanCommit
    /\ files' = [files EXCEPT ![w] = "edited"]
    /\ UNCHANGED <<history, target, branch, rebasing, pushed>>
    /\ UNCHANGED wvars

\* The lease expires, or is released: its token never comes back to life.
LoseFence(w) ==
    /\ w \in fenced
    /\ fenced' = fenced \ {w}
    /\ UNCHANGED <<worktree, job, checking, working, interrupted, faults>>
    /\ UNCHANGED repository

-----------------------------------------------------------------------------
(* Transitions of a record. *)

Ready(w, head) == [worktree EXCEPT ![w].status = "ready", ![w].head = head]
WithStatus(w, status) == [worktree EXCEPT ![w].status = status]

MarkReady(w, head) ==
    IF worktree[w].status = "provisioning" THEN worktree' = Ready(w, head)
                                           ELSE UNCHANGED worktree
Abandonable(w) == worktree[w].status \in {"provisioning", "ready", "failed"}
Cleanable(w) == worktree[w].status \in {"abandoned", "failed"}
MarkFailed(w) ==
    IF worktree[w].status = "provisioning" THEN worktree' = WithStatus(w, "failed")
                                           ELSE UNCHANGED worktree

Step(w, pc) == job' = [job EXCEPT ![w].pc = pc]
Done(w) == job' = [job EXCEPT ![w] = Idle]

-----------------------------------------------------------------------------
(* What Git answers. *)

\* `git worktree add` of the base commit, refused if the path exists.
CreateWorktreeAt(w, base) ==
    IF branch[w] = NoCommit THEN branch' = [branch EXCEPT ![w] = base] ELSE UNCHANGED branch

\* Directory and branch go, whatever is in them.
RemoveWorktreeAt(w) ==
    /\ branch' = [branch EXCEPT ![w] = NoCommit]
    /\ files' = [files EXCEPT ![w] = "clean"]
    /\ rebasing' = [rebasing EXCEPT ![w] = NoCommit]

InspectHead(w) == IF branch[w] = NoCommit THEN "absent" ELSE "present"

\* An index that already holds changes refuses to stage more.
Stageable(w) == files[w] = "edited" /\ branch[w] # NoCommit /\ rebasing[w] = NoCommit
StagePaths(w) == files' = [files EXCEPT ![w] = "staged"]

Unstaged(w) ==
    files' = [files EXCEPT ![w] = IF @ = "staged" THEN "edited" ELSE @]

Committable(w) == files[w] = "staged" /\ branch[w] # NoCommit
CommitStaged(w) ==
    /\ CanCommit
    /\ history' = Extended(branch[w])
    /\ branch' = [branch EXCEPT ![w] = NewCommit]
    /\ files' = [files EXCEPT ![w] = "clean"]

\* `git reset --mixed`, only while HEAD is still the commit to take back.
ResetMixed(w, commit, head) ==
    IF branch[w] = commit
    THEN /\ branch' = [branch EXCEPT ![w] = head]
         /\ files' = [files EXCEPT ![w] = "edited"]
    ELSE UNCHANGED <<branch, files>>

-----------------------------------------------------------------------------
(* GitWorktreeService::allocate, abandon and cleanup. *)

\* A claim has one record: reserving again returns it, whatever became of it,
\* and allocation goes on to create the worktree in both cases.
Reserve(w) ==
    /\ job[w] = Idle
    /\ \/ /\ worktree[w].status = "none"
          /\ w \in fenced
          /\ worktree' = [worktree EXCEPT ![w] =
                             [status |-> "provisioning", base |-> target, head |-> NoCommit]]
       \/ worktree[w].status # "none" /\ UNCHANGED worktree
    /\ Step(w, "creating")
    /\ UNCHANGED <<fenced, checking, working, interrupted, faults>>
    /\ UNCHANGED repository

CreateWorktree(w) ==
    /\ job[w].pc = "creating"
    /\ CreateWorktreeAt(w, worktree[w].base)
    /\ job' = IF branch[w] = NoCommit
              THEN [job EXCEPT ![w].pc = "created", ![w].head = worktree[w].base]
              ELSE [job EXCEPT ![w].pc = "refused"]
    /\ UNCHANGED <<worktree, fenced, checking, working, interrupted, faults>>
    /\ UNCHANGED <<history, target, files, rebasing, pushed>>

Allocated(w) ==
    /\ \/ job[w].pc = "created" /\ MarkReady(w, job[w].head)
       \/ job[w].pc = "refused" /\ MarkFailed(w)
    /\ Done(w)
    /\ UNCHANGED <<fenced, checking, working, interrupted, faults>>
    /\ UNCHANGED repository

Abandon(w) ==
    /\ Abandonable(w)
    /\ worktree' = WithStatus(w, "abandoned")
    /\ UNCHANGED <<fenced, job, checking, working, interrupted, faults>>
    /\ UNCHANGED repository

\* Cleanup reads the record, removes directory and branch, then writes.
RemoveWorktree(w) ==
    /\ job[w] = Idle
    /\ Cleanable(w)
    /\ RemoveWorktreeAt(w)
    /\ Step(w, "removed")
    /\ UNCHANGED <<worktree, fenced, checking, working, interrupted, faults>>
    /\ UNCHANGED <<history, target, pushed>>

Cleaned(w) ==
    /\ job[w].pc = "removed"
    /\ IF Cleanable(w)
       THEN worktree' = WithStatus(w, "cleaned")
       ELSE UNCHANGED worktree
    /\ Done(w)
    /\ UNCHANGED <<fenced, checking, working, interrupted, faults>>
    /\ UNCHANGED repository

\* Reconciliation of records that stayed in provisioning: it looks at the disk ...
InspectStale(w) ==
    /\ checking[w] = "none"
    /\ worktree[w].status = "provisioning"
    /\ checking' = [checking EXCEPT ![w] = InspectHead(w)]
    /\ UNCHANGED <<worktree, fenced, job, working, interrupted, faults>>
    /\ UNCHANGED repository

\* ... and then writes what it saw.
ReconcileStale(w) ==
    /\ \/ /\ checking[w] = "present"
          /\ MarkReady(w, worktree[w].base)
       \/ checking[w] = "absent" /\ MarkFailed(w)
    /\ checking' = [checking EXCEPT ![w] = "none"]
    /\ UNCHANGED <<fenced, job, working, interrupted, faults>>
    /\ UNCHANGED repository

-----------------------------------------------------------------------------
(* GitWorktreeMutationService::commit_changes. *)

CommitSteps == {"staging", "staged", "committing", "recording", "undoing"}

ValidFence(w) == worktree[w].status = "ready" /\ w \in fenced

StartCommit(w) ==
    /\ job[w] = Idle
    /\ ValidFence(w)
    /\ job' = [job EXCEPT ![w] = [pc |-> "staging", head |-> worktree[w].head, commit |-> NoCommit]]
    /\ UNCHANGED <<worktree, fenced, checking, working, interrupted, faults>>
    /\ UNCHANGED repository

\* Nothing to stage, or an index in use, ends the call.
Stage(w) ==
    /\ job[w].pc = "staging"
    /\ IF Stageable(w) THEN StagePaths(w) /\ Step(w, "staged")
                       ELSE Done(w) /\ UNCHANGED files
    /\ UNCHANGED <<worktree, fenced, checking, working, interrupted, faults>>
    /\ UNCHANGED <<history, target, branch, rebasing, pushed>>

\* Fence and head are validated again, or the paths are unstaged.
Revalidate(w) ==
    /\ job[w].pc = "staged"
    /\ IF ValidFence(w) /\ worktree[w].head = job[w].head
       THEN Step(w, "committing") /\ UNCHANGED files
       ELSE Done(w) /\ Unstaged(w)
    /\ UNCHANGED <<worktree, fenced, checking, working, interrupted, faults>>
    /\ UNCHANGED <<history, target, branch, rebasing, pushed>>

Commit(w) ==
    /\ job[w].pc = "committing"
    /\ IF Committable(w)
       THEN /\ CommitStaged(w)
            /\ job' = [job EXCEPT ![w].pc = "recording", ![w].commit = NewCommit]
       ELSE Done(w) /\ UNCHANGED <<history, branch, files>>
    /\ UNCHANGED <<worktree, fenced, checking, working, interrupted, faults>>
    /\ UNCHANGED <<target, rebasing, pushed>>

\* Compare and swap of the durable head, under a live fence.
RecordCommit(w) ==
    /\ job[w].pc = "recording"
    /\ IF ValidFence(w) /\ worktree[w].head = job[w].head
       THEN worktree' = [worktree EXCEPT ![w].head = job[w].commit] /\ Done(w)
       ELSE Step(w, "undoing") /\ UNCHANGED worktree
    /\ UNCHANGED <<fenced, checking, working, interrupted, faults>>
    /\ UNCHANGED repository

RollbackCommit(w) ==
    /\ job[w].pc = "undoing"
    /\ ResetMixed(w, job[w].commit, job[w].head)
    /\ Done(w)
    /\ UNCHANGED <<worktree, fenced, checking, working, interrupted, faults>>
    /\ UNCHANGED <<history, target, rebasing, pushed>>

\* The caller dies: what it did stays, what it meant to do next does not happen.
CrashJob(w) ==
    /\ job[w] # Idle
    /\ faults < MaxFaults
    /\ faults' = faults + 1
    /\ Done(w)
    /\ interrupted' = interrupted \cup {w}
    /\ UNCHANGED <<worktree, fenced, checking, working>>
    /\ UNCHANGED repository

-----------------------------------------------------------------------------

\* Commit 1 is the target, the others belong to branches of worktrees. A start says which worktrees are allocated already, in the order of their
\* first commits, and which ones their claims go on working with.
Starting(start) ==
    LET FirstCommit(w) == 1 + CHOOSE i \in DOMAIN start.prepared : start.prepared[i] = w
        prepared == {start.prepared[i] : i \in DOMAIN start.prepared}
    IN  /\ worktree = [w \in Worktrees |->
                IF w \in prepared
                THEN [status |-> "ready", base |-> 1, head |-> FirstCommit(w)]
                ELSE [status |-> "none", base |-> NoCommit, head |-> NoCommit]]
        /\ branch = [w \in Worktrees |-> IF w \in prepared THEN FirstCommit(w) ELSE NoCommit]
        /\ history = [c \in 1 .. 1 + Cardinality(Worktrees) |-> {1, c}]
        /\ working = start.working

WorktreeInit ==
    /\ \E start \in Starts : Starting(start)
    /\ fenced = Worktrees
    /\ target = 1
    /\ files = [w \in Worktrees |-> "clean"]
    /\ rebasing = [w \in Worktrees |-> NoCommit]
    /\ job = [w \in Worktrees |-> Idle]
    /\ checking = [w \in Worktrees |-> "none"]
    /\ pushed = {1}
    /\ interrupted = {}
    /\ faults = 0

Allocation(w) ==
    \/ Reserve(w) \/ CreateWorktree(w) \/ Allocated(w)
    \/ Abandon(w) \/ RemoveWorktree(w) \/ Cleaned(w)
    \/ InspectStale(w) \/ ReconcileStale(w)

CommitCall(w) ==
    \/ StartCommit(w) \/ Stage(w) \/ Revalidate(w)
    \/ Commit(w) \/ RecordCommit(w) \/ RollbackCommit(w)

WorktreeStep ==
    \/ Push
    \/ \E w \in Worktrees : LoseFence(w)
    \/ \E w \in working : Edit(w) \/ Allocation(w) \/ CommitCall(w) \/ CrashJob(w)

=============================================================================
