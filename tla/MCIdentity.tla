------------------------------ MODULE MCIdentity ------------------------------
(***************************************************************************)
(* The model-checking instance of who may act and who may see: the key     *)
(* registry in the mission log, the sessions in the memory of the server,  *)
(* and the commands with the markings of what they write.  A behaviour is  *)
(* of one part; what sessions see of the registry, a key going out of use  *)
(* at any time, is in their own part, and commands see only whose they are.*)
(* Sessions and commands come with their theorems, for KeyRegistryProofs.  *)
(***************************************************************************)
EXTENDS KeyRegistry, Markings, TLC

CONSTANTS
  ann, bob, human, service, k1, k2, k3, c1, c2,
  Nonces, Ids, MaxPending, MaxSessions, ChallengeTtl, SessionTtl, MaxWait, MaxClock,
  b1, analyst, visitor, agency, partner, alpha, public, staff, system, Records, MaxCited, MaxRecords

VARIABLES
  part,  \* which of the three a behaviour is of
  now, active, pending, sessions, drawn, grants,
  scene, records, deciding

(* The analyst holds a compartment and sees what is public and what is for *)
(* the staff; the visitor sees what is public.  Other writers start from a *)
(* public, a restricted or a staff marking.                                *)
Mark(k, g, r) == [authority |-> agency, compartments |-> k, releasability |-> g, minRole |-> r]
Cleared ==
  (analyst :> [organisation |-> agency, compartments |-> {alpha}, releasability |-> {public, staff}, rank |-> 1]) @@
  (visitor :> [organisation |-> partner, compartments |-> {}, releasability |-> {public}, rank |-> 2])

S == INSTANCE ServerProofs WITH
       Principals <- Actors, Keys <- Actors, Owner <- [a \in Actors |-> a], SessionIds <- Ids, MaxTime <- MaxClock,
       log <- records, todo <- deciding, Calls <- {b1}, Ids <- Records, Actors <- {analyst, visitor}, Human <- {analyst},
       Clearance <- Cleared, System <- system,
       Default <- Mark({}, {public}, 0), Bases <- {Mark({alpha}, {public, staff}, 1), Mark({}, {staff}, 0)},
       MaxLen <- MaxRecords

ASSUME ServerAssumption == S!SessionConstants /\ S!WorkbenchConstants

sessionVars == <<now, active, pending, sessions, drawn, grants>>
benchVars == <<scene, records, deciding>>

(* The families of record that a behaviour of the third part is about. *)
Scenes ==
  {{"evidence", kind} : kind \in {"requirement", "task", "hypothesis", "watch", "view", "report", "annotation",
                                  "request", "proposal", "route"}}
  \cup {{"review"}, {"recommendation"}, {"forecast", "objective", "warning"}}
InScene(k) == k \in scene \cup {"transition"}

MCInit == part \in {"keys", "sessions", "markings"} /\ Init /\ S!Init /\ S!WorkbenchInit /\
          IF part = "markings" THEN scene \in Scenes ELSE scene = {}
MCNext ==
  /\ UNCHANGED <<part, scene>>
  /\ \/ part = "keys" /\ Next /\ UNCHANGED <<sessionVars, records, deciding>>
     \/ part = "sessions" /\ S!Next /\ UNCHANGED <<vars, records, deciding>>
     \/ /\ part = "markings" /\ S!WorkbenchNext /\ UNCHANGED <<vars, sessionVars>>
        /\ \A i \in DOMAIN records' : InScene(records'[i].kind)
        /\ \A i \in DOMAIN deciding'[b1] : InScene(deciding'[b1][i].kind)
MCSpec == MCInit /\ [][MCNext]_<<vars, sessionVars, benchVars, part>>

(* A challenge opens at most one session, for its own actor and in its     *)
(* time (sessions.py, authenticate).                                       *)
SingleUse == S!SingleUse

(* A full server takes nobody's place, challenge or right answer for the   *)
(* sake of somebody else (sessions.py, issue_challenge and authenticate).  *)
NothingIsTaken == S!NothingIsTaken

(* Whoever may see a record may see what it was before and what it cites   *)
(* (security.py, admit_marking, under the append lock).                    *)
NoWriteDown == S!NoWriteDown

TwoActors  == {ann, bob}
TwoKinds   == {human, service}
ThreeKeys  == {k1, k2, k3}
Organisations == {agency, partner}
OneCompartment == {alpha}
TwoGroups == {public, staff}
TwoCalls   == {c1, c2}
\* The tokens are the same model values as the keys, so that one symmetry serves both parts.
Symmetries == UNION {Permutations(T) : T \in {Calls, Keys, Actors, Kinds}}
=============================================================================
