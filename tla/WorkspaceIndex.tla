---------------------------- MODULE WorkspaceIndex ----------------------------
(***************************************************************************)
(* WorkspaceIntelligence and its polling watcher: an index of the files of *)
(* a workspace that follows them by re-reading what changed.  The files    *)
(* change under the watcher's hands; it reads them one by one.  A hash is  *)
(* modelled by what it is taken of.                                        *)
(***************************************************************************)
EXTENDS Naturals, FiniteSets, FiniteSetsExt, Functions

CONSTANTS
  Paths,       \* file paths, numbers in the order of the strings
  Contents,    \* contents of files
  Imports,     \* [Contents -> the paths its import statements resolve to]
  Unparsed,    \* contents index_file refuses: not UTF-8, too many symbols
  Oversized,   \* contents over max_file_bytes
  MaxEdits,    \* bound: changes to the files
  MaxReloads   \* bound: restarts of the process

ASSUME ImportsAreOfContents == Imports \in [Contents -> SUBSET Paths]
ASSUME PathsAreNumbers == Paths \subseteq Nat

VARIABLES
  disk,        \* [Paths -> Contents, or Absent]
  edits,       \* the changes so far
  reloads,     \* the restarts so far
  index,       \* the WorkspaceIntelligence: files, edges, revision
  poll,        \* the poll in progress, and how the last one ended
  snapshot,    \* what save_json wrote, or NoSnapshot
  abandoned    \* an update ended early since the index was last built as a
               \* whole; not in the code

indexVars == <<disk, edits, reloads, index, poll, snapshot, abandoned>>

Absent == "absent"
ASSUME ContentsArePresent == Absent \notin Contents

NoSnapshot == [files |-> <<>>, revision |-> <<>>]
Present(files) == {p \in Paths : files[p] # Absent}

-----------------------------------------------------------------------------
(* The graph.                                                              *)

(* build_edges; a file does not import itself.                             *)
BuildEdges(files) ==
  {e \in Present(files) \X Present(files) : e[1] # e[2] /\ e[2] \in Imports[files[e[1]]]}

(* workspace_revision: a hash of every path and the revision of its file.  *)
RevisionOf(files) == files

Fresh(files) == [files |-> files, edges |-> BuildEdges(files), revision |-> RevisionOf(files)]

(* reverse_dependents: whoever imports one of the changed, at any distance,*)
(* which is the least set that holds the importers of its members too.     *)
ReverseDependents(edges, changed) ==
  LET Closed(S) == \A e \in edges : e[2] \in changed \cup S => e[1] \in S IN
  {p \in Paths : \A S \in SUBSET Paths : Closed(S) => p \in S}

-----------------------------------------------------------------------------
(* The files.                                                              *)
Edit(p, content) ==
  /\ edits < MaxEdits /\ disk[p] # content
  /\ disk' = [disk EXCEPT ![p] = content]
  /\ edits' = edits + 1
  /\ UNCHANGED <<reloads, index, poll, snapshot, abandoned>>

Idle(outcome) == [at |-> "idle", outcome |-> outcome, todo |-> {}, seen |-> <<>>,
                  affected |-> {}, changed |-> {}, since |-> 0]
Finished(outcome) == poll' = [Idle(outcome) EXCEPT !.since = poll.since]

-----------------------------------------------------------------------------
(* detect_changes.                                                         *)

ScanFiles ==
  /\ poll.at = "idle"
  /\ poll' = [Idle("polling") EXCEPT !.at = "reading", !.todo = Present(disk), !.since = edits]
  /\ UNCHANGED <<disk, edits, reloads, index, snapshot, abandoned>>

(* revision_for: a file that is gone or too large ends the poll.           *)
ReadRevision ==
  LET p == Min(poll.todo) IN
  /\ poll.at = "reading" /\ poll.todo # {}
  /\ IF disk[p] \in Oversized \cup {Absent} THEN Finished("failed")
     ELSE poll' = [poll EXCEPT !.todo = @ \ {p},
                     !.seen = [q \in DOMAIN @ \cup {p} |-> IF q = p THEN disk[p] ELSE @[q]]]
  /\ UNCHANGED <<disk, edits, reloads, index, snapshot, abandoned>>

Changed ==
  {p \in DOMAIN poll.seen : index.files[p] # poll.seen[p]} \cup (Present(index.files) \ DOMAIN poll.seen)

Detected ==
  /\ poll.at = "reading" /\ poll.todo = {}
  /\ IF Changed = {} THEN Finished("updated")
     ELSE poll' = [poll EXCEPT !.at = "updating", !.changed = Changed, !.todo = Changed,
                     !.affected = ReverseDependents(index.edges, Changed)]
  /\ UNCHANGED <<disk, edits, reloads, index, snapshot, abandoned>>

-----------------------------------------------------------------------------
(* update_paths: index_file may refuse a file, which ends the update where *)
(* it is.                                                                  *)
IndexFile(p) ==
  IF disk[p] \in Unparsed \cup Oversized
  THEN Finished("failed") /\ abandoned' = TRUE /\ UNCHANGED index
  ELSE /\ index' = [index EXCEPT !.files[p] = disk[p]]
       /\ poll' = [poll EXCEPT !.todo = @ \ {p}]
       /\ UNCHANGED abandoned

UpdateFile ==
  LET p == Min(poll.todo) IN
  /\ poll.at = "updating" /\ poll.todo # {}
  /\ IF disk[p] # Absent THEN IndexFile(p)
     ELSE /\ index' = [index EXCEPT !.files[p] = Absent]
          /\ poll' = [poll EXCEPT !.todo = @ \ {p}]
          /\ UNCHANGED abandoned
  /\ UNCHANGED <<disk, edits, reloads, snapshot>>

RebuildEdges ==
  LET edges == BuildEdges(index.files)
      affected == poll.affected \cup ReverseDependents(edges, poll.changed) IN
  /\ poll.at = "updating" /\ poll.todo = {}
  /\ index' = [index EXCEPT !.edges = edges]
  /\ poll' = [poll EXCEPT !.at = "reindexing",
                !.todo = (affected \ poll.changed) \cap Present(index.files)]
  /\ UNCHANGED <<disk, edits, reloads, snapshot, abandoned>>

(* A dependent that is gone meanwhile is left as it was.                   *)
ReindexDependent ==
  LET p == Min(poll.todo) IN
  /\ poll.at = "reindexing" /\ poll.todo # {}
  /\ IF disk[p] # Absent THEN IndexFile(p)
     ELSE poll' = [poll EXCEPT !.todo = @ \ {p}] /\ UNCHANGED <<index, abandoned>>
  /\ UNCHANGED <<disk, edits, reloads, snapshot>>

FinishUpdate ==
  /\ poll.at = "reindexing" /\ poll.todo = {}
  /\ index' = [index EXCEPT !.edges = BuildEdges(index.files), !.revision = RevisionOf(index.files)]
  /\ Finished("updated") /\ abandoned' = FALSE
  /\ UNCHANGED <<disk, edits, reloads, snapshot>>

-----------------------------------------------------------------------------
(* save_json writes a file beside and renames it.                          *)
SaveSnapshot ==
  /\ poll.at = "idle"
  /\ snapshot' = [files |-> index.files, revision |-> index.revision]
  /\ UNCHANGED <<disk, edits, reloads, index, poll, abandoned>>

(* load_json.                                                              *)
Accepted == snapshot # NoSnapshot /\ RevisionOf(snapshot.files) = snapshot.revision

Loaded == Fresh(snapshot.files)

(* The process restarts in any state: it loads the snapshot, or builds the *)
(* index from the files if there is none that load_json accepts.           *)
RestartIndexer ==
  /\ reloads < MaxReloads /\ reloads' = reloads + 1
  /\ index' = IF Accepted THEN Loaded ELSE Fresh(disk)
  /\ ~Accepted => {disk[p] : p \in Present(disk)} \cap (Unparsed \cup Oversized) = {}
  /\ poll' = Idle("restarted") /\ abandoned' = FALSE
  /\ UNCHANGED <<disk, edits, snapshot>>

-----------------------------------------------------------------------------
IndexInit ==
  /\ disk \in [Paths -> (Contents \ (Unparsed \cup Oversized)) \cup {Absent}]
  /\ edits = 0 /\ reloads = 0
  /\ index = Fresh(disk)
  /\ poll = Idle("updated")
  /\ snapshot = NoSnapshot /\ abandoned = FALSE

PollNext ==
  \/ ScanFiles \/ ReadRevision \/ Detected
  \/ UpdateFile \/ RebuildEdges \/ ReindexDependent \/ FinishUpdate

IndexNext ==
  \/ \E p \in Paths, content \in Contents \cup {Absent} : Edit(p, content)
  \/ PollNext
  \/ SaveSnapshot
  \/ RestartIndexer

IndexSpec == IndexInit /\ [][IndexNext]_indexVars

-----------------------------------------------------------------------------
IndexTypeOK ==
  /\ index.files \in [Paths -> (Contents \ (Unparsed \cup Oversized)) \cup {Absent}]
  /\ index.edges \in SUBSET (Paths \X Paths)
  /\ poll.at \in {"idle", "reading", "updating", "reindexing"}
  /\ poll.outcome \in {"updated", "failed", "restarted", "polling"}
  /\ poll.todo \subseteq Paths /\ poll.changed \subseteq Paths /\ poll.affected \subseteq Paths

(* After a poll that succeeded over files nobody touched, the index holds  *)
(* these files; and it is the one a build from nothing would give, unless  *)
(* an update was given up since the last build: following changes loses    *)
(* none, whichever file changes between the reads of the others.           *)
PolledIsRebuilt ==
  poll.at = "idle" /\ poll.outcome = "updated" /\ poll.since = edits =>
    index.files = disk /\ (~abandoned => index = Fresh(disk))

(* Between polls the edges and the revision are those of the files in the  *)
(* index, so that a snapshot saved then can be loaded again.               *)
RevisionIsDerived ==
  poll.at = "idle" /\ ~abandoned => index = Fresh(index.files)

(* The index tells the truth: about its own files whenever no poll is at   *)
(* work, and about the files on disk after a poll they held still for.     *)
IndexTellsTheTruth == IndexTypeOK /\ RevisionIsDerived /\ PolledIsRebuilt

(* The same without the exception, as the specification has it ("the       *)
(* workspace revision is derived from the ordered set of file paths and    *)
(* file revisions").  The code gives no such promise: update_paths puts    *)
(* each file into the index as it reads it and leaves with the first that  *)
(* fails, and when that file is as it was again, the next poll finds       *)
(* nothing to do and succeeds, with the old edges and the old revision.    *)
RevisionIsAlwaysDerived ==
  poll.at = "idle" /\ poll.outcome = "updated" => index = Fresh(index.files)
=============================================================================
