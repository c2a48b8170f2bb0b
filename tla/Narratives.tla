------------------------------ MODULE Narratives ------------------------------
(***************************************************************************)
(* Narratives (narratives.py): a statement, the claims that carry it, the  *)
(* forms it is met in, where it was first seen, and how it got from one    *)
(* place to the next.  Who took it from whom is derived from families and  *)
(* wording, or is the judgment of a person.                                *)
(***************************************************************************)
EXTENDS AnalyticPlane

CONSTANTS
  Statements,  \* narratives are named by what they state
  Time,        \* [Claims -> Nat]: when a claim was first seen, no two at once
  Wording,     \* [Claims -> wordings]: what is stated, if long enough to compare
  Forms        \* [form -> [relation, claims]]: variants met

N == "narrative"
Supporting    == {"VERBATIM", "PARAPHRASE", "NARROWING", "BROADENING", "CERTAINTY_SHIFT", "FRAMING_SHIFT"}
Contradicting == {"COUNTER_NARRATIVE", "POLARITY_SHIFT"}
Relations     == Supporting \cup Contradicting \cup {"ATTRIBUTION_SHIFT", "CAUSALITY_SHIFT", "UNRESOLVED_RELATION"}

ASSUME NarrativesAssumption ==
  /\ \A c \in Claims : Time[c] \in Nat
  /\ \A c, d \in Claims : Time[c] = Time[d] => c = d
  /\ \A f \in DOMAIN Forms : Forms[f].claims \in (SUBSET Claims) \ {{}} /\ Forms[f].relation \in Relations

(* Where the claims were seen, and the earliest of it. *)
Manifestations(l, claims) ==
  {[claim |-> c, family |-> Family[c], time |-> Time[c]] : c \in claims}
    \cup {[claim |-> e.id, family |-> e.family, time |-> e.time] : e \in Seen(l, claims)}
Earliest(l, claims) ==
  CHOOSE m \in Manifestations(l, claims) : \A o \in Manifestations(l, claims) : m.time <= o.time

Narrative(l, s, proposal, sup, con) ==
  [type |-> N, id |-> s, version |-> 0, status |-> "ACTIVE", proposal |-> proposal,
   basis |-> Basis(l, sup, con), origin |-> Earliest(l, sup), variants |-> {}, counters |-> {}]
Variant(s, f, proposal) ==
  [type |-> "variant", id |-> <<s, f>>, version |-> 0, claims |-> Forms[f].claims, proposal |-> proposal]
Edge(s, from, to, relation, proposal) ==
  [type |-> "edge", id |-> <<s, from, to>>, version |-> 0, relation |-> relation, proposal |-> proposal]

(* What the three record types refuse is not in the log. *)
NarrativeContract(r) == r.type = N =>
  /\ r.status \in {"ACTIVE", "DORMANT", "CONTESTED", "RESOLVED", "SUPERSEDED"}
  /\ r.version >= 1 /\ r.basis.sup # {} /\ BasisContract(r.basis)
VariantContract(r) == r.type = "variant" => r.version >= 1 /\ r.claims # {} /\ Forms[r.id[2]].relation \in Relations
EdgeContract(r) == r.type = "edge" =>
  /\ r.version >= 1 /\ r.id[2] # r.id[3]
  /\ r.relation = "SAME_ORIGIN_FAMILY" => r.id[2].family = r.id[3].family
  /\ r.relation \in {"INDEPENDENT_ADOPTION", "LIKELY_DERIVATIVE"} => r.id[2].family # r.id[3].family

Told(l, s)  == Current(l, N, s)
Heard(l, s) == Known(l, N, s)

(***************************************************************************)
(* Commands on a narrative and its variants.                               *)
(***************************************************************************)
CreateNarrative(l, s, proposal, sup, con) ==
  CASE Heard(l, s) ->
         <<Ensure(s, "CREATED", <<s>>)>>
         \o (LET was == Told(l, s)
             IN  IF proposal # "" \/ (sup \subseteq was.basis.sup /\ con \subseteq was.basis.con) THEN <<>>
                 ELSE <<Step("retell", [was |-> was, sup |-> sup, con |-> con])>>)
    [] ~Heard(l, s) /\ (~Authorized(l, proposal) \/ (proposal # "" /\ sup # Offered)) -> <<>>
    [] OTHER -> <<Narrative(l, s, proposal, sup, con), Ensure(s, "CREATED", <<s>>)>>

FoldNarrative(l, was, sup, con) ==
  <<[was EXCEPT !.basis = Widened(l, @, sup, con)],
    Transition(was.id, "EVIDENCE_UPDATED", <<"fold", sup \ was.basis.sup, con \ was.basis.con>>)>>

(* A variant is recorded once, and then taken into its narrative, as that  *)
(* was read before the variant was recorded.                               *)
AddVariant(l, s, f, proposal) ==
  LET id   == <<s, f>>
      join == <<Step("join", [was |-> Told(l, s), form |-> f])>>
  IN  CASE Known(l, "variant", id) ->
             IF proposal # "" /\ proposal # Current(l, "variant", id).proposal THEN <<>> ELSE join
        [] OTHER -> IF Authorized(l, proposal) THEN <<Variant(s, f, proposal)>> \o join ELSE <<>>

Join(l, was, f) ==
  LET claims == Forms[f].claims
      b == Widened(l, was.basis, IF Forms[f].relation \in Supporting THEN claims ELSE {},
                                 IF Forms[f].relation \in Contradicting THEN claims ELSE {})
  IN  (IF f \in was.variants /\ b.sup = was.basis.sup /\ b.con = was.basis.con THEN <<>>
       ELSE <<[was EXCEPT !.variants = @ \cup {f}, !.basis = b]>>)
      \o <<Transition(was.id, "VARIANT_ADDED", <<"variant", f>>)>>

(* Both ways for one cause, which names the narrative the call names first. *)
LinkCounter(l, this, other, named) ==
  IF ~Heard(l, this) \/ other \in Told(l, this).counters THEN <<>>
  ELSE <<[Told(l, this) EXCEPT !.counters = @ \cup {other}],
         Transition(this, "COUNTER_NARRATIVE_LINKED", <<"counter", named>>)>>

(* The status follows the basis; what contradicts it comes first.          *)
RefreshedStatus(was, b) ==
  CASE b.con # {} -> "CONTESTED"
    [] b.con = {} /\ Cardinality(b.sup) <= b.deg -> "DORMANT"
    [] OTHER -> IF was \in {"DORMANT", "CONTESTED"} THEN "ACTIVE" ELSE was

RefreshNarrative(l, s, cause) ==
  LET was == Told(l, s)
      b   == Rebased(l, was.basis)
      new == [was EXCEPT !.basis = b, !.origin = Earliest(l, b.sup), !.status = RefreshedStatus(@, b)]
  IN  IF was.status \in {"RESOLVED", "SUPERSEDED"} \/ new = was THEN <<>>
      ELSE <<new>>
           \o (IF new.origin = was.origin THEN <<>> ELSE <<Transition(s, "ORIGIN_REVISED", cause)>>)
           \o (IF new.status = was.status THEN <<>>
               ELSE <<Transition(s, IF new.status = "ACTIVE" THEN "REEMERGED" ELSE new.status, cause)>>)

(***************************************************************************)
(* How a narrative got around.  The derived edges are worked out at once   *)
(* and appended one by one as first versions; a judgment is a next version *)
(***************************************************************************)
(* Fault: the wording is looked at before the family. *)
DerivedByWording(from, to) ==
  CASE Wording[from.claim] = Wording[to.claim] /\ from.time < to.time -> "LIKELY_DERIVATIVE"
    [] from.family = to.family -> "SAME_ORIGIN_FAMILY"
    [] OTHER -> "UNRESOLVED"
Derived(from, to) ==
  CASE from.family = to.family -> "SAME_ORIGIN_FAMILY"
    [] from.family # to.family /\ Wording[from.claim] = Wording[to.claim] /\ from.time < to.time -> "LIKELY_DERIVATIVE"
    [] OTHER -> "UNRESOLVED"

DerivePropagation(l, s) ==
  LET claims == Told(l, s).basis.sup \cup UNION {r.claims : r \in {v \in Evidence(l, "variant") : v.id[1] = s}}
      seen   == Manifestations(l, claims)
      pairs  == {p \in seen \X seen : p[1].time < p[2].time /\ ~Known(l, "edge", <<s, p[1], p[2]>>)}
      order  == Arranged(pairs, LAMBDA p, q : p[1].time < q[1].time \/ (p[1].time = q[1].time /\ p[2].time < q[2].time))
      Drawn(p) == Edge(s, p[1], p[2], Derived(p[1], p[2]), "")
      Said(p)  == Transition(s, "PROPAGATION_OBSERVED", <<"edge", Drawn(p).id>>)
  IN  [n \in 1 .. 2 * Len(order) |-> LET p == order[(n + 1) \div 2] IN IF n % 2 = 1 THEN Drawn(p) ELSE Said(p)]

Adoption(id) == Transition(id[1], "INDEPENDENT_ADOPTION_OBSERVED", <<"edge", id>>)
AssertAdoption(l, id, kind, proposal) ==
  LET old == IF Known(l, "edge", id) THEN <<Current(l, "edge", id)>> ELSE <<>>
      new == Edge(id[1], id[2], id[3], "INDEPENDENT_ADOPTION", proposal)
  IN  CASE old # <<>> /\ old[1].relation = "INDEPENDENT_ADOPTION" ->
             IF kind # "HUMAN" /\ (proposal = "" \/ proposal # old[1].proposal) THEN <<>> ELSE <<Adoption(id)>>
        [] OTHER -> IF (kind # "HUMAN" /\ (proposal = "" \/ ~Spendable(l, proposal))) \/ id[2].family = id[3].family
                    THEN <<>>
                    ELSE <<[new EXCEPT !.version = Len(old)]>>
                         \o (IF old = <<>> THEN <<>> ELSE <<Transition(id[1], "REVISED", <<"edge", id>>)>>)
                         \o <<Adoption(id)>>

NarrativeSteps == {"retell", "join", "counter"}
NarrativeContinue(l, step) ==
  CASE step.what = "retell"  -> FoldNarrative(l, step.id.was, step.id.sup, step.id.con)
    [] step.what = "join"    -> Join(l, step.id.was, step.id.form)
    [] step.what = "counter" -> LinkCounter(l, step.id[1], step.id[2], step.id[3])

(***************************************************************************)
(* The specification.                                                      *)
(***************************************************************************)
NarrativeDo(c, events) == Idle(c) /\ Do(NarrativeContinue, c, events)
Narratives == {s \in Statements : Heard(log, s)}
Pairs(s) == LET seen == Manifestations(log, Told(log, s).basis.sup) IN {p \in seen \X seen : p[1] # p[2]}

Tell(c, proposals) ==
  \E s \in Statements, proposal \in proposals, sup, con \in SUBSET Claims :
    sup # {} /\ sup \cap con = {} /\ NarrativeDo(c, CreateNarrative(log, s, proposal, sup, con))
Vary(c, proposals) == \E s \in Narratives, f \in DOMAIN Forms, proposal \in proposals :
                        NarrativeDo(c, AddVariant(log, s, f, proposal))
Counter(c)       == \E s, o \in Narratives : s # o /\ NarrativeDo(c, <<Step("counter", <<s, o, s>>), Step("counter", <<o, s, s>>)>>)
RecheckNarrative(c) == \E s \in Narratives : NarrativeDo(c, RefreshNarrative(log, s, Changeset(log, Resting(Told(log, s).basis))))
Derive(c)        == \E s \in Narratives : NarrativeDo(c, DerivePropagation(log, s))
Adopt(c, proposals) == \E s \in Narratives : \E p \in Pairs(s), kind \in {"HUMAN", "SERVICE"}, proposal \in proposals :
                         (kind = "HUMAN" => proposal = "")
                         /\ NarrativeDo(c, AssertAdoption(log, <<s, p[1], p[2]>>, kind, proposal))
NarrativeWrite(c) == WriteAnd(NarrativeContinue, c)

NarrativeCommand(c) ==
  \/ Tell(c, {"", "candidate"}) \/ Vary(c, {"", "candidate"}) \/ Counter(c) \/ RecheckNarrative(c)
  \/ Derive(c) \/ Adopt(c, {"", "candidate"})
  \/ Idle(c) /\ CandidateCommand(c, "candidate")

NarrativeNext == \/ \E c \in Calls : NarrativeCommand(c) \/ NarrativeWrite(c) \/ GiveUp(c)
                 \/ \E e \in ClaimNews \cup SeenIn("other", 0) : News(log, e) /\ Happen(e)

NarrativeSpec == CommandInit /\ [][NarrativeNext]_<<log, todo>>

(***************************************************************************)
(* Properties.                                                             *)
(***************************************************************************)
(* A judgment of independent adoption is not derived away: whichever of a  *)
(* person and a derivation comes first, the judgment is the edge's last    *)
(* (narratives.py:419).                                                    *)
AdoptionStands == \A r \in Revisions("edge") : log[r[2]].relation = "INDEPENDENT_ADOPTION"
=============================================================================
