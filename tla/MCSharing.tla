------------------------------ MODULE MCSharing -----------------------------
(***************************************************************************)
(* Two components that share no state, checked by one run: focus says    *)
(* which of them moves, and the others stay in their initial state.        *)
(*   scheduler: two workflows that share two agents, see MCScheduler.      *)
(*   codex:     two runs of sw-codex for two Sessions and one of sw-claude *)
(*              for the first of them.                                     *)
(*   claude:    a run of sw-codex and two of sw-claude for one Session; y1 *)
(*              is the one that starts first.                              *)
(***************************************************************************)
EXTENDS MCScheduler, NativeSessions

CONSTANTS s1, s2, x1, x2, y1, y2

VARIABLE focus

LaunchedForSessions == x1 :> s1 @@ x2 :> s2 @@ y1 :> s1 @@ y2 :> s1

-----------------------------------------------------------------------------
modelVars == <<vars, nativeVars, focus>>

ModelInit ==
    /\ focus \in {"scheduler", "codex", "claude"}
    /\ Init /\ NativeInit

SchedulerStep ==
    /\ focus = "scheduler" /\ Next
    /\ UNCHANGED <<nativeVars, focus>>

LaunchersStep ==
    /\ focus \in {"codex", "claude"} /\ NativeNext
    /\ focus = "codex" => claude'[y2].at = "new"
    /\ focus = "claude" => codex'[x2].at = "new"
    /\ claude'[y2].at # "new" => claude[y1].at # "new"
    /\ UNCHANGED <<vars, focus>>

ModelNext == SchedulerStep \/ LaunchersStep

ModelSpec == ModelInit /\ [][ModelNext]_modelVars
=============================================================================
