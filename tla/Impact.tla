-------------------------------- MODULE Impact --------------------------------
(***************************************************************************)
(* Impact (impact.py): what a mission wants, what it takes for granted,    *)
(* and the paths along which events would reach an objective.  When an     *)
(* assumption falls, every path that rests on it goes stale and its        *)
(* objective is exposed: several appends, which a retry has to complete.   *)
(***************************************************************************)
EXTENDS AnalyticPlane

CONSTANTS
  Objectives,   \* [objective -> its priority]
  Assumptions,  \* [assumption -> [claims, objectives]] as people first record it
  Paths,        \* [path -> [objective, claims, assumptions, authorities]]
  ResponseOptions  \* [option -> [path: what it answers, claims]]

Authorities == <<"OBSERVED", "DERIVED", "ANALYST_ASSESSMENT", "SUPPORTED_INFERENCE", "MODEL_PROPOSAL", "CONTESTED", "UNRESOLVED">>

ASSUME ImpactAssumption ==
  /\ \A p \in DOMAIN Paths :
       /\ Paths[p].claims \subseteq Claims /\ Paths[p].objective \in DOMAIN Objectives
       /\ Paths[p].authorities \in (SUBSET ToSet(Authorities)) \ {{}}
  /\ \A a \in DOMAIN Assumptions : Assumptions[a].claims \subseteq Claims /\ IsFiniteSet(Assumptions[a].objectives)

Rank(level) == CHOOSE n \in DOMAIN Authorities : Authorities[n] = level
Weakest(levels) == Authorities[Max({Rank(level) : level \in levels})]

(* What the record types refuse is not in the log.  A path claims no more  *)
(* than the weakest of its edges.                                          *)
ObjectiveContract(r)  == r.type = "objective" => r.version >= 1 /\ r.status \in {"ACTIVE", "EXPOSED"} /\ r.id \in DOMAIN Objectives
AssumptionContract(r) == r.type = "assumption" =>
  r.version >= 1 /\ r.status \in {"HELD", "UNCERTAIN", "INVALIDATED"} /\ r.sup \cup r.con \subseteq Claims
PathContract(r) == r.type = "path" =>
  /\ r.version >= 1 /\ r.status \in {"ASSESSED", "STALE"}
  /\ Paths[r.id].authorities # {} /\ \A level \in Paths[r.id].authorities : Rank(level) <= Rank(r.authority)
OptionContract(r) == r.type = "option" =>
  r.version >= 1 /\ r.status \in {"PROPOSED", "ACCEPTED", "REJECTED"} /\ (r.status = "ACCEPTED" => r.actor # "")

(***************************************************************************)
(* Objectives and assumptions.                                             *)
(***************************************************************************)
CreateObjective(l, o) ==
  (IF Known(l, "objective", o) THEN <<>> ELSE <<[type |-> "objective", id |-> o, version |-> 0, status |-> "ACTIVE"]>>)
    \o <<Ensure(o, "CREATED", <<o>>)>>

Expose(l, o, cause) ==
  IF ~Known(l, "objective", o) THEN <<>>
  ELSE (IF Current(l, "objective", o).status = "EXPOSED" THEN <<>>
        ELSE <<[Current(l, "objective", o) EXCEPT !.status = "EXPOSED"]>>)
       \o <<Transition(o, "EXPOSED", cause)>>

RecordAssumption(l, a, claims, objectives) ==
  LET was  == Current(l, "assumption", a)
      more == <<claims \ was.sup, objectives \ was.objectives>>
  IN  CASE ~Known(l, "assumption", a) ->
             <<[type |-> "assumption", id |-> a, version |-> 0, status |-> "HELD",
                sup |-> claims, con |-> {}, objectives |-> objectives], Ensure(a, "HELD", <<a>>)>>
        [] OTHER ->
             <<Ensure(a, "HELD", <<a>>)>>
             \o (IF more = <<{}, {}>> THEN <<>>
                 ELSE <<Step("fold assumption", [id |-> a, claims |-> claims, objectives |-> objectives, was |-> was])>>)

FoldAssumption(s) ==
  <<[s.was EXCEPT !.sup = @ \cup s.claims, !.objectives = @ \cup s.objectives],
    Transition(s.id, "EVIDENCE_UPDATED", <<"fold", s.claims \ s.was.sup, s.objectives \ s.was.objectives>>)>>

QuestionAssumption(l, a, cause) ==
  LET was == Current(l, "assumption", a)
  IN  CASE was.status = "HELD"      -> <<[was EXCEPT !.status = "UNCERTAIN"], Transition(a, "QUESTIONED", cause)>>
        [] was.status = "UNCERTAIN" -> <<Transition(a, "QUESTIONED", cause)>>
        [] OTHER -> <<>>

(***************************************************************************)
(* What rests on what (DependencyIndex, for assumptions): an objective by  *)
(* the assumption's own list, a path by its edges, and every path of an    *)
(* objective that is affected.  The index is of the moment after the       *)
(* assumption's own events; each entry is dealt with at its own moment.    *)
(***************************************************************************)
Built(l)         == {p \in DOMAIN Paths : Known(l, "path", p)}
ExposedBy(l, a)  == Current(l, "assumption", a).objectives
AffectedBy(l, a) == {p \in Built(l) : a \in Paths[p].assumptions \/ Paths[p].objective \in ExposedBy(l, a)}

Fallout(l, a) ==
  LET paths == SetToSeq(AffectedBy(l, a))
  IN  [n \in DOMAIN paths |-> Step("stale", <<paths[n], a>>)]
      \o <<Step("expose each", <<SetToSeq(ExposedBy(l, a)), a>>)>>

(* An objective that nobody has recorded is an error: what was still to be *)
(* exposed after it is not.                                                *)
ExposeEach(l, objectives, a) ==
  IF objectives = <<>> \/ ~Known(l, "objective", Head(objectives)) THEN <<>>
  ELSE Expose(l, Head(objectives), <<"assumption", a>>) \o <<Step("expose each", <<Tail(objectives), a>>)>>

(* Fault: what the fall affects is looked up before the fall is recorded.  *)
InvalidateAssumptionEarly(l, a, con) ==
  <<[Current(l, "assumption", a) EXCEPT !.status = "INVALIDATED", !.con = @ \cup con],
    Transition(a, "INVALIDATED", <<"analyst">>)>> \o Fallout(l, a)

InvalidateAssumption(l, a, con) ==
  LET was == Current(l, "assumption", a)
  IN  (IF was.status = "INVALIDATED" THEN <<>> ELSE <<[was EXCEPT !.status = "INVALIDATED", !.con = @ \cup con]>>)
      \o <<Transition(a, "INVALIDATED", <<"analyst">>), Step("fallout", a)>>

Stale(l, p) == IF Current(l, "path", p).status = "STALE" THEN <<>> ELSE <<[Current(l, "path", p) EXCEPT !.status = "STALE"]>>
StaleByAssumption(l, p, a) ==
  Stale(l, p) \o <<Transition(p, "ASSUMPTION_INVALIDATED", <<"analyst">>),
                   Step("expose", <<Paths[p].objective, <<"path", p, a>>>>)>>

(***************************************************************************)
(* Paths and responses.                                                    *)
(***************************************************************************)
(* The assumptions of the edges must be known; they may be invalidated.    *)
BuildPath(l, p, proposal) ==
  LET new == [type |-> "path", id |-> p, version |-> 0, status |-> "ASSESSED",
              authority |-> Weakest(Paths[p].authorities), proposal |-> proposal]
      built == <<Ensure(p, "CONSTRUCTED", <<p>>)>>
  IN  CASE Known(l, "path", p) -> IF proposal # "" /\ proposal # Current(l, "path", p).proposal THEN <<>> ELSE built
        [] OTHER -> IF /\ Known(l, "objective", Paths[p].objective) /\ Authorized(l, proposal)
                       /\ \A a \in Paths[p].assumptions : Known(l, "assumption", a)
                    THEN <<new>> \o built ELSE <<>>

RefreshPath(l, p) ==
  LET bad == Paths[p].claims \cap Degraded(l)
  IN  IF bad = {} THEN <<>>
      ELSE Stale(l, p) \o <<Transition(p, "STALE", <<"finding", bad>>), Step("expose", <<Paths[p].objective, <<"finding", p, bad>>>>)>>

ProposeOption(l, o, proposal) ==
  IF Known(l, "option", o)
  THEN IF proposal # "" /\ proposal # Current(l, "option", o).proposal THEN <<>> ELSE <<Ensure(o, "PROPOSED", <<o>>)>>
  ELSE IF ~Authorized(l, proposal) THEN <<>>
       ELSE <<[type |-> "option", id |-> o, version |-> 0, status |-> "PROPOSED", actor |-> "", proposal |-> proposal],
              Ensure(o, "PROPOSED", <<o>>)>>

ReviewOption(l, o, status, kind) ==
  LET was == Current(l, "option", o)
      say == <<Transition(o, status, <<"review", status>>)>>
  IN  IF status = "ACCEPTED" /\ kind # "HUMAN" THEN <<>>
      ELSE IF was.status = "PROPOSED"
           THEN <<[was EXCEPT !.status = status, !.actor = IF status = "ACCEPTED" THEN kind ELSE @]>> \o say
           ELSE IF was.status = status THEN say ELSE <<>>

ImpactContinue(l, step) ==
  CASE step.what = "fold assumption" -> FoldAssumption(step.id)
    [] step.what = "fallout" -> Fallout(l, step.id)
    [] step.what = "stale"   -> StaleByAssumption(l, step.id[1], step.id[2])
    [] step.what = "expose"  -> Expose(l, step.id[1], step.id[2])
    [] step.what = "expose each" -> ExposeEach(l, step.id[1], step.id[2])

(***************************************************************************)
(* The specification.                                                      *)
(***************************************************************************)
ImpactDo(c, events) == Idle(c) /\ Do(ImpactContinue, c, events)
Assumed == {a \in DOMAIN Assumptions : Known(log, "assumption", a)}

SetObjective(c) == \E o \in DOMAIN Objectives : ImpactDo(c, CreateObjective(log, o))
Assume(c)       == \E a \in DOMAIN Assumptions :
                     ImpactDo(c, RecordAssumption(log, a, Assumptions[a].claims, Assumptions[a].objectives))
Question(c)     == \E a \in Assumed : ImpactDo(c, QuestionAssumption(log, a, <<"analyst">>))
Invalidate(c)   == \E a \in Assumed : ImpactDo(c, InvalidateAssumption(log, a, {}))
Construct(c, proposals) == \E p \in DOMAIN Paths, proposal \in proposals : ImpactDo(c, BuildPath(log, p, proposal))
RecheckPath(c)  == \E p \in Built(log) : ImpactDo(c, RefreshPath(log, p))
Respond(c, proposals) == \E o \in DOMAIN ResponseOptions, proposal \in proposals : ImpactDo(c, ProposeOption(log, o, proposal))
ReviewResponse(c) == \E o \in DOMAIN ResponseOptions, status \in {"ACCEPTED", "REJECTED"}, kind \in {"HUMAN", "SERVICE"} :
                       Known(log, "option", o) /\ ImpactDo(c, ReviewOption(log, o, status, kind))
ImpactWrite(c)  == WriteAnd(ImpactContinue, c)

ImpactCommand(c) ==
  \/ SetObjective(c) \/ Assume(c) \/ Question(c) \/ Invalidate(c) \/ Construct(c, {"", "candidate"}) \/ RecheckPath(c)
  \/ Respond(c, {"", "candidate"}) \/ ReviewResponse(c)
  \/ Idle(c) /\ CandidateCommand(c, "candidate")

ImpactNext == \/ \E c \in Calls : ImpactCommand(c) \/ ImpactWrite(c) \/ GiveUp(c)
              \/ \E e \in ClaimNews : News(log, e) /\ Happen(e)

ImpactSpec == CommandInit /\ [][ImpactNext]_<<log, todo>>

(***************************************************************************)
(* Properties.                                                             *)
(***************************************************************************)
(* An assumption that is recorded again before its mark was recorded goes  *)
(* on with the version that was read before the mark.                      *)
Reheld(n) == \E i \in Versions(log, "assumption", log[n].id) :
  /\ i < n /\ ~Marked(SubSeq(log, 1, i), log[n].id, "HELD")
  /\ log[n] = [log[i] EXCEPT !.version = log[n].version, !.sup = log[n].sup, !.objectives = log[n].objectives]

(* Nothing that has fallen stands up again by itself: no fold and no late  *)
(* refresh makes an invalidated assumption held, a stale path assessed or  *)
(* an exposed objective safe, and a response is decided once, by a person; *)
(* but for the assumption whose recording comes late to its mark.          *)
FallenStays ==
  /\ \A r \in Revisions("assumption") :
       log[r[1]].status = "INVALIDATED" => log[r[2]].status = "INVALIDATED" \/ Reheld(r[2])
  /\ \A r \in Revisions("path") : log[r[1]].status = "ASSESSED" /\ log[r[2]].status = "STALE"
  /\ \A r \in Revisions("objective") : log[r[2]].status = "EXPOSED"
  /\ \A r \in Revisions("option") : log[r[1]].status = "PROPOSED"
=============================================================================
