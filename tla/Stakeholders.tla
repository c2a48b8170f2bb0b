----------------------------- MODULE Stakeholders -----------------------------
(***************************************************************************)
(* Stakeholders (stakeholders.py): what an entity is to one context, the   *)
(* positions it is reported to hold, and who influences whom.  A position  *)
(* said in public needs a claim that is the entity's own, and a judgment   *)
(* about its interests cannot be relabelled as something it said.          *)
(***************************************************************************)
EXTENDS AnalyticPlane

CONSTANTS
  Assessed,      \* assessments, each of one entity in one context
  Offers,        \* [position -> [kind, observed, claims]]: positions to be held
  Attributable,  \* claims about the entity itself or a site it controls
  Caveats,       \* review items about who the entity is
  Influences     \* [influence -> [of: assessment, claims, derived: a relation gives it]]

ASSUME StakeholdersAssumption ==
  /\ Attributable \subseteq Claims
  /\ \A p \in DOMAIN Offers :
       /\ Offers[p].claims \subseteq Claims
       /\ Offers[p].kind \in {"PUBLIC_POSITION", "INFERRED_INTEREST", "FORMAL_ROLE", "CAPABILITY", "DEPENDENCY"}
       /\ Offers[p].kind = "INFERRED_INTEREST" => ~Offers[p].observed
  /\ \A u \in DOMAIN Influences : Influences[u].claims \subseteq Claims /\ Influences[u].of \in Assessed

A == "assessment"
U == "influence"

OpenCaveats(l) == {k \in Caveats : IsOpen(l, <<"identity", k>>)}

(* Positions are <<name, superseded>>, in the order they were taken. *)
Assessment(l, id, proposal, positions, claims) ==
  [type |-> A, id |-> id, version |-> 0, proposal |-> proposal, positions |-> positions,
   basis |-> Basis(l, claims, {}), influences |-> {}, caveats |-> OpenCaveats(l)]
Assessed1(l, id)     == Current(l, A, id)
Held(r)        == {p[1] : p \in ToSet(r.positions)}
ClaimsOf(ps)   == UNION {Offers[p].claims : p \in ps}
InterestIn(ps) == ClaimsOf({p \in ps : Offers[p].kind = "INFERRED_INTEREST"})

(* What the three record types refuse is not in the log. *)
PositionContract(p) ==
  /\ Offers[p].kind \in {"PUBLIC_POSITION", "INFERRED_INTEREST", "FORMAL_ROLE", "CAPABILITY", "DEPENDENCY"}
  /\ Offers[p].kind = "PUBLIC_POSITION" => Offers[p].claims # {}
  /\ Offers[p].kind = "INFERRED_INTEREST" => ~Offers[p].observed
AssessmentContract(r) == r.type = A =>
  r.version >= 1 /\ (r.positions # <<>> \/ r.basis.sup # {}) /\ BasisContract(r.basis) /\ \A p \in Held(r) : PositionContract(p)
InfluenceContract(r) == r.type = U =>
  r.version >= 1 /\ r.status \in {"ACTIVE", "SUPERSEDED", "RETIRED"} /\ Influences[r.id].claims \subseteq Claims

(* An observed statement needs a claim of the entity's own that carries no *)
(* inferred interest; another one, more than the claims of such interests. *)
PublicEvidence(held, p) ==
  LET interest == InterestIn(held)
  IN  Offers[p].kind = "PUBLIC_POSITION" =>
        /\ Offers[p].claims # {}
        /\ IF Offers[p].observed THEN (Offers[p].claims \cap Attributable) \ interest # {}
           ELSE interest = {} \/ ~(Offers[p].claims \subseteq interest)

(***************************************************************************)
(* Commands on one assessment.                                             *)
(***************************************************************************)
Took(l, was, positions, p) ==
  [was EXCEPT !.positions = positions \o << <<p, FALSE>> >>, !.basis = Basis(l, @.sup \cup Offers[p].claims, {})]

AddPosition(l, id, p, cause) ==
  IF ~PublicEvidence(Held(Assessed1(l, id)), p) \/ p \in Held(Assessed1(l, id)) THEN <<>>
  ELSE <<Took(l, Assessed1(l, id), Assessed1(l, id).positions, p),
         Transition(id, IF Offers[p].kind = "INFERRED_INTEREST" THEN "INTEREST_INFERRED" ELSE "POSITION_ADDED", cause)>>

(* The old position stays, marked; a second call for the same replacement  *)
(* appends it again.                                                       *)
SupersedePosition(l, id, old, new) ==
  LET was    == Assessed1(l, id)
      marked == [n \in DOMAIN was.positions |-> <<was.positions[n][1], was.positions[n][2] \/ was.positions[n][1] = old>>]
  IN  IF old \notin Held(was) \/ ~PublicEvidence(Held(was), new) THEN <<>>
      ELSE <<Took(l, was, marked, new), Transition(id, "POSITION_CHANGED", <<"superseded", old, new>>)>>

Rechecked(l, id) == [Assessed1(l, id) EXCEPT !.basis = Rebased(l, @), !.caveats = OpenCaveats(l)]
RefreshAssessment(l, id, cause) ==
  LET was == Assessed1(l, id)  new == Rechecked(l, id)
  IN  IF new = was THEN <<>>
      ELSE <<new>> \o (IF new.basis.deg = was.basis.deg THEN <<>> ELSE <<Transition(id, "BASIS_DEGRADED", cause)>>)
                   \o (IF new.caveats = was.caveats THEN <<>> ELSE <<Transition(id, "IDENTITY_CAVEAT_CHANGED", cause)>>)

(* An existing assessment is rechecked, then takes the positions that are  *)
(* new to it one by one, then the claims; the claims go to what the last   *)
(* of those calls returned.                                                *)
CreateAssessment(l, id, proposal, ps, claims) ==
  CASE Known(l, A, id) -> <<Ensure(id, "CREATED", <<id>>), Step("recheck", [id |-> id, proposal |-> proposal, ps |-> ps, claims |-> claims])>>
    [] OTHER -> IF \/ proposal # "" /\ (~Spendable(l, proposal) \/ ps # <<>> \/ claims # Offered)
                   \/ \E n \in DOMAIN ps : ~PublicEvidence({ps[k] : k \in DOMAIN ps \ {n}}, ps[n])
                   \/ ps = <<>> /\ claims = {}
                THEN <<>>
                ELSE <<Assessment(l, id, proposal, [n \in DOMAIN ps |-> <<ps[n], FALSE>>], claims \cup ClaimsOf(ToSet(ps))),
                       Ensure(id, "CREATED", <<id>>)>>

Recheck(l, s) ==
  LET was  == Assessed1(l, s.id)
      new  == Only(s.ps, {n \in DOMAIN s.ps : s.ps[n] \notin Held(was)})
      more == s.claims \ was.basis.sup
  IN  IF s.proposal # "" /\ s.proposal # was.proposal THEN <<>>
      ELSE RefreshAssessment(l, s.id, <<s.id>>)
           \o IF s.proposal # "" /\ (new # <<>> \/ ~(more \subseteq Offered)) THEN <<>>
              ELSE <<Step("more", [was |-> Rechecked(l, s.id), ps |-> new, claims |-> more])>>

More(l, s) ==
  LET id == s.was.id
  IN  CASE s.ps = <<>> -> IF s.claims = {} THEN <<>>
             ELSE <<[s.was EXCEPT !.basis = Widened(l, @, s.claims, {})], Transition(id, "EVIDENCE_UPDATED", <<"fold", s.claims>>)>>
        [] s.ps # <<>> /\ ~PublicEvidence(Held(Assessed1(l, id)), Head(s.ps)) -> <<>>
        [] OTHER ->
             LET events == AddPosition(l, id, Head(s.ps), <<id>>)
             IN  events \o <<Step("more", [s EXCEPT !.ps = Tail(@), !.was = IF events = <<>> THEN Assessed1(l, id) ELSE events[1]])>>

(* What the propagation calls: every assessment as it was when it began.   *)
RefreshIdentityCaveats(l) ==
  LET known == SetToSeq({id \in Assessed : Known(l, A, id)})
  IN  [n \in DOMAIN known |-> Step("caveats", Assessed1(l, known[n]))]
Caveat(l, was) ==
  LET now == OpenCaveats(l)
  IN  IF now = was.caveats THEN <<>>
      ELSE <<[was EXCEPT !.caveats = now], Transition(was.id, "IDENTITY_CAVEAT_CHANGED", <<"propagate", was.id>>)>>

(***************************************************************************)
(* Influence.                                                              *)
(***************************************************************************)
Influence(l, u) == Current(l, U, u)
IsActive(l, u)  == Known(l, U, u) /\ Influence(l, u).status = "ACTIVE"

AssertInfluence(l, u, proposal) ==
  LET versions == Cardinality(Versions(l, U, u))
      new      == [type |-> U, id |-> u, version |-> versions, status |-> "ACTIVE", proposal |-> proposal]
  IN  CASE IsActive(l, u) ->
             IF proposal # "" /\ proposal # Influence(l, u).proposal THEN <<>> ELSE <<Ensure(u, "ASSERTED", <<u>>)>>
        [] ~IsActive(l, u) /\ ~Authorized(l, proposal) -> <<>>
        [] OTHER -> <<new, IF versions = 0 THEN Ensure(u, "ASSERTED", <<u>>)
                           ELSE Transition(u, "ASSERTED", <<"again", versions + 1>>)>>

SupersedeInfluence(l, u) ==
  (IF IsActive(l, u) THEN <<[Influence(l, u) EXCEPT !.status = "SUPERSEDED"]>> ELSE <<>>)
    \o <<Transition(u, "SUPERSEDED", <<"analyst">>)>>

LinkInfluence(l, id, u) ==
  IF ~Known(l, A, id) \/ u \in Assessed1(l, id).influences THEN <<>> ELSE <<[Assessed1(l, id) EXCEPT !.influences = @ \cup {u}]>>

(* A relation of the world model gives a role, and one of ownership also   *)
(* an influence, in three calls.                                           *)
Discover(u, p) ==
  <<Step("assess", [id |-> Influences[u].of, p |-> p])>>
    \o IF Influences[u].derived THEN <<Step("assert", u), Step("link", [id |-> Influences[u].of, u |-> u])>> ELSE <<>>

StakeholderSteps == {"recheck", "more", "caveats", "assess", "assert", "link"}
StakeholderContinue(l, step) ==
  CASE step.what = "recheck" -> Recheck(l, step.id)
    [] step.what = "more"    -> More(l, step.id)
    [] step.what = "caveats" -> Caveat(l, step.id)
    [] step.what = "assess"  -> CreateAssessment(l, step.id.id, "", <<step.id.p>>, {})
    [] step.what = "assert"  -> AssertInfluence(l, step.id, "")
    [] step.what = "link"    -> LinkInfluence(l, step.id.id, step.id.u)

(***************************************************************************)
(* The specification.                                                      *)
(***************************************************************************)
StakeholderDo(c, events) == Idle(c) /\ Do(StakeholderContinue, c, events)
AssessedNow == {id \in Assessed : Known(log, A, id)}
Roles       == {p \in DOMAIN Offers : Offers[p].kind = "FORMAL_ROLE"}
Batches     == {<<>>} \cup {<<p>> : p \in DOMAIN Offers} \cup {<<p, q>> : p \in DOMAIN Offers, q \in DOMAIN Offers}

Assess(c, proposals)  == \E id \in Assessed, proposal \in proposals, ps \in Batches, claims \in SUBSET Claims :
                           StakeholderDo(c, CreateAssessment(log, id, proposal, ps, claims))
TakePosition(c)       == \E id \in AssessedNow, p \in DOMAIN Offers : StakeholderDo(c, AddPosition(log, id, p, <<"analyst", p>>))
ChangePosition(c)     == \E id \in AssessedNow, old, new \in DOMAIN Offers : StakeholderDo(c, SupersedePosition(log, id, old, new))
RecheckAssessment(c)  == \E id \in AssessedNow : StakeholderDo(c, RefreshAssessment(log, id, Changeset(log, Resting(Assessed1(log, id).basis))))
RecheckCaveats(c)     == StakeholderDo(c, RefreshIdentityCaveats(log))
SayInfluence(c, proposals) == \E u \in DOMAIN Influences, proposal \in proposals : StakeholderDo(c, AssertInfluence(log, u, proposal))
DropInfluence(c)      == \E u \in DOMAIN Influences : Known(log, U, u) /\ StakeholderDo(c, SupersedeInfluence(log, u))
DiscoverStakeholders(c) == \E u \in DOMAIN Influences, p \in Roles : StakeholderDo(c, Discover(u, p))
StakeholderWrite(c)   == WriteAnd(StakeholderContinue, c)

(* The semantic plane opens and closes questions of identity. *)
Identity(k) == /\ Planned < MaxLen
               /\ Elsewhere([Item(<<"identity", k>>, IF k \in OpenCaveats(log) THEN "RESOLVED" ELSE "OPEN") EXCEPT !.version = 1])

StakeholderCommand(c) ==
  \/ Assess(c, {"", "candidate"}) \/ TakePosition(c) \/ ChangePosition(c) \/ RecheckAssessment(c) \/ RecheckCaveats(c)
  \/ SayInfluence(c, {"", "candidate"}) \/ DropInfluence(c) \/ DiscoverStakeholders(c)
  \/ Idle(c) /\ CandidateCommand(c, "candidate")

StakeholderNext == \/ \E c \in Calls : StakeholderCommand(c) \/ StakeholderWrite(c) \/ GiveUp(c)
                   \/ \E k \in Caveats : Identity(k)
                   \/ \E e \in ClaimNews : News(log, e) /\ Happen(e)

StakeholderSpec == CommandInit /\ [][StakeholderNext]_<<log, todo>>
=============================================================================
