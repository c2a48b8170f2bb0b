--------------------------- MODULE MCMissionStore ---------------------------
(***************************************************************************)
(* The model-checking instance of MissionStore.  A behaviour is of one     *)
(* part: deltas are imported between versions and ingestions, or alerts    *)
(* are raised between versions.                                            *)
(***************************************************************************)
EXTENDS MissionStore, TLC

CONSTANTS h1, h2, a

VARIABLE part

OfPart(kind) == IF part = "imports" THEN kind # "alert" ELSE kind \in {"version", "alert"}
Kept(h) ==
  /\ \A n \in DOMAIN want'[h] : OfPart(want'[h][n].kind)
  /\ pc'[h] = "import" => part = "imports" /\ \A n \in DOMAIN staged'[h] : OfPart(staged'[h][n].body.kind)

MCInit == part \in {"imports", "alerts"} /\ Init
MCNext == Next /\ UNCHANGED part /\ \A h \in Handles : Kept(h)
MCSpec == MCInit /\ [][MCNext]_<<vars, part>> /\ Fairness

TwoHandles == {h1, h2}
OneId      == {a}
=============================================================================
