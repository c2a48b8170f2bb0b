----------------------------- MODULE Association -----------------------------
(***************************************************************************)
(* Whether two objects are the same (association.py): an engine weighs     *)
(* what is known of both, proposes, and where it may, accepts; a person    *)
(* resolves; and what is resolved shows in two relations between the       *)
(* objects, in versions of their own, appended after the resolution.       *)
(***************************************************************************)
EXTENDS VersionedLog

CONSTANTS
  Things,  \* [objects -> type, refs, ids, time, place, attributes]
  Window,  \* the longest gap between times that are compatible
  Speed    \* the distance an object can cover in one unit of time

ASSUME AssociationAssumption == Window \in Nat /\ Speed \in Nat

(***************************************************************************)
(* What speaks for and against.  A thing has references into systems that  *)
(* issue identities, identifying attributes and others as sets of pairs,   *)
(* and the time (in quarters of an hour) and the place it was seen, where  *)
(* 0 is unknown.                                                           *)
(***************************************************************************)
Apart(x, y) == IF x < y THEN y - x ELSE x - y
Names(pairs) == {p[1] : p \in pairs}
Differ(p, q) == {n \in Names(p) \cap Names(q) : \E u \in p, v \in q : u[1] = n /\ v[1] = n /\ u[2] # v[2]}

IdentifierAgreement(x, y) ==
  CASE x.refs \cap y.refs # {}               -> "SYSTEM_MATCH"
    [] Names(x.refs) \cap Names(y.refs) # {} -> "CONFLICT"
    [] Names(x.ids) \cap Names(y.ids) = {}   -> "ABSENT"
    [] Differ(x.ids, y.ids) = {}             -> "ATTRIBUTE_MATCH"
    [] OTHER                                 -> "CONFLICT"
Temporal(x, y) ==
  CASE 0 \in {x.time, y.time}             -> "UNKNOWN"
    [] Apart(x.time, y.time) <= Window -> "COMPATIBLE"
    [] OTHER                              -> "INCOMPATIBLE"
Geospatial(x, y) ==
  CASE 0 \in {x.place, y.place, x.time, y.time} -> "UNKNOWN"
    [] Apart(x.place, y.place) <= Speed * Max({Apart(x.time, y.time), 1}) -> "COMPATIBLE"
    [] OTHER -> "IMPLAUSIBLE_SPEED"
Contradictory(x, y) == Differ(x.attributes, y.attributes) # {}

Outcome(left, right, against) ==
  LET x == Things[left]  y == Things[right]  agreement == IdentifierAgreement(x, y)
  IN  CASE x.type # y.type \/ against \/ agreement = "CONFLICT" -> "REJECT_ASSOCIATION"
        [] Geospatial(x, y) = "IMPLAUSIBLE_SPEED" /\ agreement # "SYSTEM_MATCH" -> "REJECT_ASSOCIATION"
        [] Contradictory(x, y) -> "UNKNOWN"
        [] agreement = "SYSTEM_MATCH" /\ Temporal(x, y) # "INCOMPATIBLE" -> "AUTO_ASSOCIATE"
        [] agreement = "ATTRIBUTE_MATCH" -> "PROPOSE_ASSOCIATION"
        [] Temporal(x, y) = "COMPATIBLE" /\ Geospatial(x, y) = "COMPATIBLE" -> "PROPOSE_ASSOCIATION"
        [] OTHER -> "UNKNOWN"

(***************************************************************************)
(* Proposals, resolutions and relations, all named by the pair in the      *)
(* order it was proposed in.                                               *)
(***************************************************************************)
Relation(kind, pair, status, cites) ==
  [type |-> "relation", id |-> <<kind>> \o pair, version |-> 1, status |-> status, cites |-> cites]
Related(l, kind, pair) == IF Known(l, "relation", <<kind>> \o pair) THEN Current(l, "relation", <<kind>> \o pair).status ELSE ""

Withheld(outcome, auto) == IF outcome = "AUTO_ASSOCIATE" /\ ~auto THEN "PROPOSE_ASSOCIATION" ELSE outcome

Resolution(pair, resolution, kind) == [type |-> "resolution", id |-> pair, resolution |-> resolution, kind |-> kind]
Evaluate(pair, against, auto) ==
  LET outcome == Withheld(Outcome(pair[1], pair[2], against), auto)
  IN  <<[type |-> "proposal", id |-> pair, outcome |-> outcome]>>
      \o (CASE outcome = "AUTO_ASSOCIATE" -> <<Resolution(pair, "ACCEPTED", "SERVICE"), Step("take effect", <<pair, "ACCEPTED">>)>>
            [] outcome = "PROPOSE_ASSOCIATION" -> <<Relation("POSSIBLY_SAME_AS", pair, "PROPOSED", {})>>
            [] OTHER -> <<>>)

(* The relations are read one after the other: the second, when what the   *)
(* first leads to is appended.                                             *)
Retired(l, kind, pair, resolution) ==
  IF Related(l, kind, pair) \notin {"ACTIVE", "PROPOSED"} THEN <<>>
  ELSE <<Relation(kind, pair, IF resolution = "REVERSED" THEN "RETIRED" ELSE "REJECTED", {})>>
TakeEffect(pair, resolution) ==
  IF resolution = "ACCEPTED" THEN <<Relation("SAME_AS", pair, "ACTIVE", {})>>
  ELSE <<Step("retire", <<"SAME_AS", pair, resolution>>), Step("retire", <<"POSSIBLY_SAME_AS", pair, resolution>>)>>

AssociationContinue(l, step) ==
  CASE step.what = "take effect" -> TakeEffect(step.id[1], step.id[2])
    [] step.what = "retire"      -> Retired(l, step.id[1], step.id[2], step.id[3])

Resolve(pair, resolution, kind) ==
  IF ~Known(log, "proposal", pair) THEN <<>>
  ELSE <<Resolution(pair, resolution, kind), Step("take effect", <<pair, resolution>>)>>

Proposed == {log[i].id : i \in Of("proposal")}
=============================================================================
