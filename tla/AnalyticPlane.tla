---------------------------- MODULE AnalyticPlane ----------------------------
(***************************************************************************)
(* What every engine of curunir_analytic is built on (substrate.py,        *)
(* basis.py): the basis of an object in the claims it rests on, and the    *)
(* acceptance of a model's proposal, which one object may spend.           *)
(***************************************************************************)
EXTENDS VersionedLog

CONSTANTS
  Claims,  \* claims of the semantic plane, recorded before
  Family,  \* [Claims -> families]: the source a claim was first seen in
  Offered  \* the claims that a model's candidate names

ASSUME AnalyticAssumption == IsFiniteSet(Claims) /\ Claims \subseteq DOMAIN Family /\ Offered \subseteq Claims

(***************************************************************************)
(* The basis of an object: the claims for and against it, how many of      *)
(* those for it have gone bad, the sources they were seen in and how often *)
(* they were seen.                                                         *)
(***************************************************************************)
Degraded(l)       == {c \in Claims : Known(l, "state", c) /\ Current(l, "state", c).degraded}
Seen(l, claims)   == {e \in Evidence(l, "seen") : e.id \in claims}

Basis(l, sup, con) ==
  [sup |-> sup, con |-> con, deg |-> Cardinality(sup \cap Degraded(l)),
   fam |-> {Family[c] : c \in sup} \cup {e.family : e \in Seen(l, sup)},
   obs |-> Cardinality(sup) + Cardinality(Seen(l, sup))]
Rebased(l, b)   == Basis(l, b.sup, b.con)
Widened(l, b, sup, con) == Basis(l, b.sup \cup sup, b.con \cup con)

(* BasisSummary refuses the rest: independence is bounded by reach. *)
BasisContract(b) == b.deg \in 0 .. Cardinality(b.sup) /\ Cardinality(b.fam) <= b.obs /\ b.sup \cup b.con \subseteq Claims

(* What the semantic plane reports of a claim: it goes bad or is restored, *)
(* and it is seen in another source.                                       *)
ClaimNews == {[type |-> "state", id |-> c, degraded |-> d] : c \in Claims, d \in BOOLEAN}
SeenIn(family, time) == {[type |-> "seen", id |-> c, family |-> family, time |-> time] : c \in Claims}
News(l, e) == CASE e.type = "state" -> e.degraded # (e.id \in Degraded(l))
                [] OTHER -> e \notin Evidence(l, e.type)

(* The changes about some claims; their digest names the cause of what a   *)
(* propagation records.                                                    *)
Changes(l, claims)   == {i \in DOMAIN l : l[i].type \in {"state", "seen"} /\ l[i].id \in claims}
Changeset(l, claims) == <<"changes", Changes(l, claims)>>
Resting(b)           == b.sup \cup b.con

(***************************************************************************)
(* Proposals of a model, which carry no version: the last record counts.   *)
(* An acceptance is spent by the first object that carries the proposal.   *)
(***************************************************************************)
Proposal(id, status) == [type |-> "proposal", id |-> id, status |-> status]
Spent(l, id)     == \E i \in DOMAIN l : "proposal" \in DOMAIN l[i] /\ l[i].proposal = id
(* Fault: an acceptance can be spent again. *)
SpendableAgain(l, id) == Known(l, "proposal", id) /\ Current(l, "proposal", id).status = "ACCEPTED"
Spendable(l, id) == /\ Known(l, "proposal", id)
                    /\ Current(l, "proposal", id).status = "ACCEPTED"
                    /\ ~Spent(l, id)
(* proposal = "" stands for an object of an analyst or of a rule. *)
Authorized(l, proposal) == proposal # "" => Spendable(l, proposal)

RecordCandidate(c, id) == Planned < MaxLen /\ Decide(c, <<Proposal(id, "PROPOSED")>>)

(* The action of the analyst is recorded before the proposal is resolved. *)
ResolveCandidate(c, kind, id, status) ==
  /\ Planned + 1 < MaxLen
  /\ Known(log, "proposal", id) /\ Current(log, "proposal", id).status = "PROPOSED"
  /\ status = "ACCEPTED" => kind = "HUMAN"
  /\ Decide(c, <<[type |-> "action", id |-> id, status |-> status, kind |-> kind], Proposal(id, status)>>)

CandidateCommand(c, id) ==
  \/ RecordCandidate(c, id)
  \/ \E kind \in {"HUMAN", "SERVICE"}, status \in {"ACCEPTED", "REJECTED"} : ResolveCandidate(c, kind, id, status)
=============================================================================
