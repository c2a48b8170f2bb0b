-------------------------------- MODULE MCWork --------------------------------
(***************************************************************************)
(* The model-checking instance of the two workflows of an operation: the   *)
(* alerts with their decisions, and the requirements with their tasks.     *)
(* They share the commands and no records, so a behaviour is of one part.  *)
(* WorkProofs proves what holds of both.                                   *)
(***************************************************************************)
EXTENDS AlertWorkflow, TLC

CONSTANTS
  ann, agent, c1, c2, d1,
  Affected, Requests, Tasks, Requirement, Priorities, MissionLen  \* of the missions

VARIABLES
  part,   \* which of the two a behaviour is of
  mlog, mtodo, asking

M == INSTANCE MissionWorkflow WITH log <- mlog, todo <- mtodo, MaxLen <- MissionLen

ASSUME MissionsAssumption == M!MissionConstants

missionVars == <<mlog, mtodo, asking>>

MCInit == part \in {"alerts", "missions"} /\ Init /\ M!Init
MCNext ==
  /\ UNCHANGED part
  /\ \/ part = "alerts" /\ Next /\ UNCHANGED missionVars
     \/ part = "missions" /\ M!Next /\ UNCHANGED vars
MCSpec == MCInit /\ [][MCNext]_<<vars, missionVars, part>>

(* What moves from status to status, an alert or what is asked and done    *)
(* about it, moves along its table and from where it last came to.         *)
PathsHold == MovesAreConnected /\ M!PathsHold

(* A requirement that is folded keeps everything that was asked before.    *)
FoldsKeepEverything == M!FoldsKeepEverything

OneHuman     == {ann}
OneService   == {agent}
OneDecision  == {d1}
TwoCalls     == {c1, c2}
Symmetries   == Permutations(Calls)
=============================================================================
