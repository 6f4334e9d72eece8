---------------------------- MODULE NativeSessions ---------------------------
(***************************************************************************)
(* The launchers sw-codex and sw-claude in one working directory.  They    *)
(* keep, in plain files under .sessionweft, which Codex session belongs to *)
(* a SessionWeft Session, the visible conversation handed over to Claude,  *)
(* and the Claude session it was imported into.  Nothing locks the files:  *)
(* a launcher reads a file whole, works on its copy while the agent runs,  *)
(* and writes it back whole.  A launcher may be killed at any step; the    *)
(* agent it waits for then goes on without it.                             *)
(*                                                                         *)
(* A Codex session is named by its place in rollouts, a Claude session by  *)
(* its place in transcripts; 0 names none, and Unknown is a UUID that is   *)
(* the name of no rollout of this directory.  The context files both write *)
(* for the agent to read are left out.                                     *)
(***************************************************************************)
EXTENDS Integers, Sequences, SequencesExt

CONSTANTS
  WeftSessions,    \* SessionWeft Sessions
  CodexLaunches,   \* runs of sw-codex
  ClaudeLaunches,  \* runs of sw-claude
  LaunchedFor,     \* the Session each run selects
  MaxTurns         \* bound: turns of all Codex sessions

ASSUME LaunchAssumption ==
  /\ CodexLaunches \cap ClaudeLaunches = {}
  /\ LaunchedFor \in [CodexLaunches \cup ClaudeLaunches -> WeftSessions]

VARIABLES
  bindings,     \* native-session-bindings.json: [WeftSessions -> Codex session]
  rollouts,     \* Codex's own files: turns, time of the last, and whose they are
  turned,       \* the turns of all Codex sessions, which are the time
  handoffs,     \* handoffs/<session>-codex.md: the turns it holds, and of whom
  claudeState,  \* claude-native-sessions/<session>.json
  transcripts,  \* Claude's own files: what was imported, and for whom
  codex,        \* [CodexLaunches -> stage, copy of bindings, snapshot, session found]
  claude,       \* [ClaudeLaunches -> stage, handoff read, copy of the state]
  lastBound,    \* auxiliary: [WeftSessions -> the last binding made for it]
  disturbedBy   \* auxiliary: who came between the steps of a run of sw-codex

codexFiles == <<bindings, rollouts, turned, lastBound, disturbedBy>>
claudeFiles == <<claudeState, transcripts>>
nativeVars == <<codexFiles, handoffs, claudeFiles, codex, claude>>

Unknown == -1
NoHandoff == [from |-> 0, turns |-> 0]
NoState == [native |-> 0, imported |-> NoHandoff]

Put(f, k, v) == [f EXCEPT ![k] = v]
Session(l) == LaunchedFor[l]

\* Between reading the bindings and the end; between snapshot and discovery.
Active(p) == codex[p].at \notin {"new", "done", "orphaned"}
Watching(p) == codex[p].at \in {"running", "exited"}

-----------------------------------------------------------------------------
(* sw-codex.                                                               *)

LoadBindings(p) ==
  /\ codex[p].at = "new"
  /\ codex' = [codex EXCEPT ![p].at = "loaded", ![p].copy = bindings]
  /\ disturbedBy' = IF \E r \in CodexLaunches : Active(r) THEN disturbedBy \cup {"sw-codex"}
                    ELSE disturbedBy
  /\ UNCHANGED <<bindings, rollouts, turned, lastBound, handoffs, claudeFiles, claude>>

\* BindingStore::upsert writes the launcher's whole copy.
Upsert(p, n) ==
  /\ codex' = [codex EXCEPT ![p].copy = Put(@, Session(p), n),
                            ![p].at = IF codex[p].at = "loaded" THEN "linked" ELSE "done"]
  /\ bindings' = codex'[p].copy
  /\ lastBound' = Put(lastBound, Session(p), n)

\* --native-session: the user says which Codex session is meant.
LinkNative(p, n) ==
  /\ codex[p].at = "loaded"
  /\ Upsert(p, n)
  /\ rollouts' = IF n = Unknown THEN rollouts
                 ELSE [rollouts EXCEPT ![n].of = @ \cup {Session(p)}]
  /\ UNCHANGED <<turned, disturbedBy, handoffs, claudeFiles, claude>>

\* snapshot, then codex or codex resume.
StartCodex(p) ==
  /\ codex[p].at \in {"loaded", "linked"}
  /\ codex' = [codex EXCEPT ![p].at = "running", ![p].before = rollouts]
  /\ UNCHANGED <<codexFiles, handoffs, claudeFiles, claude>>

\* Codex goes on with a conversation or begins one.
Turn(n, users) ==
  /\ turned < MaxTurns
  /\ turned' = turned + 1
  /\ rollouts' =
       IF n \in DOMAIN rollouts
       THEN [rollouts EXCEPT ![n] = [turns |-> @.turns + 1, time |-> turned', of |-> @.of \cup users]]
       ELSE Append(rollouts, [turns |-> 1, time |-> turned', of |-> users])
  /\ UNCHANGED <<bindings, lastBound, handoffs, claudeFiles, codex, claude>>

\* The one resumed, a new one, or another the user has switched to.
CodexTurn(p, n) ==
  /\ codex[p].at = "running"
  /\ Turn(n, {Session(p)})
  /\ UNCHANGED disturbedBy

\* Codex without a launcher: the user's own, or one whose launcher was killed.
StrayTurn(n, users) ==
  /\ Turn(n, users)
  /\ disturbedBy' = IF \E r \in CodexLaunches : Watching(r) THEN disturbedBy \cup {"codex"}
                    ELSE disturbedBy

CodexExits(p) ==
  /\ codex[p].at \in {"running", "orphaned"}
  /\ codex' = [codex EXCEPT ![p].at = IF @ = "running" THEN "exited" ELSE "done"]
  /\ UNCHANGED <<codexFiles, handoffs, claudeFiles, claude>>

\* discover_new: what the directory shows as new or changed, whoever ran.
ChangedSince(p) ==
  {n \in DOMAIN rollouts : n \in DOMAIN codex[p].before => rollouts[n].time > codex[p].before[n].time}

\* find_by_id, or else the latest that discover_new finds.
Found(p) ==
  LET bound == codex[p].copy[Session(p)]
  IN  IF bound \in DOMAIN rollouts THEN {bound}
      ELSE {n \in ChangedSince(p) : \A m \in ChangedSince(p) : rollouts[m].time <= rollouts[n].time}

HandoffOf(n) == [from |-> n, turns |-> IF n \in DOMAIN rollouts THEN rollouts[n].turns ELSE 0]

\* A handoff that cannot be written is a warning.
HandOffCodex(p) ==
  /\ codex[p].at = "exited"
  /\ IF Found(p) = {}
     THEN codex' = [codex EXCEPT ![p].at = "done"] /\ UNCHANGED handoffs
     ELSE \E n \in Found(p) :
            /\ codex' = [codex EXCEPT ![p].at = "found", ![p].native = n]
            /\ handoffs' \in {handoffs, Put(handoffs, Session(p), HandoffOf(n))}
  /\ UNCHANGED <<codexFiles, claudeFiles, claude>>

BindCodex(p) ==
  /\ codex[p].at = "found"
  /\ Upsert(p, codex[p].native)
  /\ UNCHANGED <<rollouts, turned, disturbedBy, handoffs, claudeFiles, claude>>

\* Command::status waits for the child and does not end it.
CodexKilled(p) ==
  /\ Active(p)
  /\ codex' = [codex EXCEPT ![p].at = IF @ = "running" THEN "orphaned" ELSE "done"]
  /\ UNCHANGED <<codexFiles, handoffs, claudeFiles, claude>>

-----------------------------------------------------------------------------
(* sw-claude.                                                              *)

ClaudeGoesTo(q, at) == claude' = [claude EXCEPT ![q].at = at]

\* A binding or rollout that is missing, or a handoff that cannot be
\* written, leaves the handoff that is there; the rollout of a UUID unknown
\* here may be in another directory.
RefreshHandoff(q) ==
  /\ claude[q].at = "new"
  /\ LET bound == bindings[Session(q)]
     IN  handoffs' \in {handoffs} \cup
           IF bound = 0 THEN {} ELSE {Put(handoffs, Session(q), HandoffOf(bound))}
  /\ ClaudeGoesTo(q, "refreshed")
  /\ UNCHANGED <<codexFiles, claudeFiles, codex>>

LoadHandoff(q) ==
  /\ claude[q].at = "refreshed"
  /\ claude' = [claude EXCEPT ![q].handoff = handoffs[Session(q)],
                              ![q].at = IF handoffs[Session(q)] = NoHandoff THEN "done" ELSE "read"]
  /\ UNCHANGED <<codexFiles, handoffs, claudeFiles, codex>>

NeedsImport(q, state) ==
  state.imported # claude[q].handoff \/ state.native \notin DOMAIN transcripts

LoadState(q) ==
  /\ claude[q].at = "read"
  /\ LET state == claudeState[Session(q)]
     IN  claude' = [claude EXCEPT ![q].state = state,
                                  ![q].at = IF NeedsImport(q, state) THEN "importing" ELSE "ready"]
  /\ UNCHANGED <<codexFiles, handoffs, claudeFiles, codex>>

SaveState(q) == claudeState' = Put(claudeState, Session(q), claude'[q].state)

\* Fault: the state names the transcript before it is written.
SaveBeforeImport(q) ==
  /\ claude[q].at = "importing"
  /\ claude' = [claude EXCEPT ![q].at = "written",
       ![q].state = [native |-> Len(transcripts) + 1, imported |-> claude[q].handoff]]
  /\ SaveState(q)
  /\ UNCHANGED <<codexFiles, handoffs, transcripts, codex>>

\* The transcript is written beside its place and renamed.
ImportTranscript(q) ==
  /\ claude[q].at = "importing"
  /\ transcripts' = Append(transcripts, [imported |-> claude[q].handoff, of |-> Session(q)])
  /\ claude' = [claude EXCEPT ![q].at = "written",
       ![q].state = [native |-> Len(transcripts) + 1, imported |-> claude[q].handoff]]
  /\ UNCHANGED <<codexFiles, handoffs, claudeState, codex>>

\* After the import, before Claude starts and after it ends.
SaveClaudeState(q) ==
  /\ claude[q].at \in {"written", "ready", "running"}
  /\ ClaudeGoesTo(q, CASE claude[q].at = "written" -> "ready"
                       [] claude[q].at = "ready"   -> "running"
                       [] claude[q].at = "running" -> "done")
  /\ SaveState(q)
  /\ UNCHANGED <<codexFiles, handoffs, transcripts, codex>>

ClaudeKilled(q) ==
  /\ claude[q].at \notin {"new", "done"}
  /\ ClaudeGoesTo(q, "done")
  /\ UNCHANGED <<codexFiles, handoffs, claudeFiles, codex>>

-----------------------------------------------------------------------------
NativeInit ==
  /\ bindings = [s \in WeftSessions |-> 0] /\ lastBound = bindings /\ disturbedBy = {}
  /\ rollouts = <<>> /\ turned = 0 /\ transcripts = <<>>
  /\ handoffs = [s \in WeftSessions |-> NoHandoff]
  /\ claudeState = [s \in WeftSessions |-> NoState]
  /\ codex = [p \in CodexLaunches |->
                [at |-> "new", copy |-> bindings, before |-> <<>>, native |-> 0]]
  /\ claude = [q \in ClaudeLaunches |-> [at |-> "new", handoff |-> NoHandoff, state |-> NoState]]

\* The Sessions a Codex without a launcher was started for, if any.
StrayUsers == {{}} \cup {{Session(p)} : p \in {r \in CodexLaunches : codex[r].at = "orphaned"}}

NativeNext ==
  \/ \E p \in CodexLaunches :
       \/ LoadBindings(p) \/ StartCodex(p) \/ CodexExits(p)
       \/ HandOffCodex(p) \/ BindCodex(p) \/ CodexKilled(p)
       \/ \E n \in DOMAIN rollouts \cup {Unknown} : LinkNative(p, n)
       \/ \E n \in 1 .. Len(rollouts) + 1 : CodexTurn(p, n)
  \/ \E n \in 1 .. Len(rollouts) + 1, users \in StrayUsers : StrayTurn(n, users)
  \/ \E q \in ClaudeLaunches :
       \/ RefreshHandoff(q) \/ LoadHandoff(q) \/ LoadState(q) \/ ImportTranscript(q)
       \/ SaveClaudeState(q) \/ ClaudeKilled(q)

NativeSpec == NativeInit /\ [][NativeNext]_nativeVars

-----------------------------------------------------------------------------
NativeTypeOK ==
  /\ {bindings, lastBound} \subseteq [WeftSessions -> Unknown .. Len(rollouts)]
  /\ disturbedBy \subseteq {"sw-codex", "codex"}
  /\ \A s \in WeftSessions :
       /\ handoffs[s].from \in Unknown .. Len(rollouts)
       /\ claudeState[s].native \in 0 .. Len(transcripts)
  /\ \A p \in CodexLaunches :
       codex[p].at \in {"new", "loaded", "linked", "running", "exited", "found", "orphaned", "done"}
  /\ \A q \in ClaudeLaunches :
       claude[q].at \in {"new", "refreshed", "read", "importing", "written", "ready", "running", "done"}

(* The Claude session a Session's state names exists and holds exactly the *)
(* handoff the state says it imported, whoever was killed and whoever      *)
(* wrote an old copy back: claude --resume finds it.                       *)
StateHasTranscript ==
  \A s \in WeftSessions : claudeState[s].native # 0 =>
    /\ claudeState[s].native <= Len(transcripts)
    /\ transcripts[claudeState[s].native] = [imported |-> claudeState[s].imported, of |-> s]

(* Each Session is bound to the Codex session last bound to it, and that   *)
(* one, as the one handed over to Claude, was used for this very Session.  *)
ConversationsApart ==
  /\ bindings = lastBound
  /\ \A s \in WeftSessions :
       /\ bindings[s] \in DOMAIN rollouts => s \in rollouts[bindings[s]].of
       /\ handoffs[s].from \in DOMAIN rollouts => s \in rollouts[handoffs[s].from].of

(* This is so as long as no run of sw-codex begins during another, and no  *)
(* Codex without a launcher, such as the child of a killed one, has a turn *)
(* between a run's snapshot and its discovery.                             *)
ConversationsStayApart == disturbedBy = {} => ConversationsApart

(* False: that runs of sw-codex do not overlap is not enough for it, since *)
(* discover_new takes the conversation of whoever had the last turn.       *)
RunsKeepConversationsApart == "sw-codex" \notin disturbedBy => ConversationsApart

(* A Session resumes its own conversations and only those: the state file  *)
(* leads to the transcript it describes, and bindings and handoffs to      *)
(* Codex sessions used for this Session.                                   *)
SessionsResumeTheirOwn == NativeTypeOK /\ StateHasTranscript /\ ConversationsStayApart
=============================================================================
