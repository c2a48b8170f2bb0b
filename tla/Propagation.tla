------------------------------ MODULE Propagation ------------------------------
(***************************************************************************)
(* The analytic plane as a whole (propagate.py, DependencyIndex of         *)
(* substrate.py): every engine on one log, and the pass that carries what  *)
(* the semantic plane reports of claims to everything that rests on them,  *)
(* one object after the other, each with its own appends, and raises an    *)
(* alert for what matters of it.                                           *)
(***************************************************************************)
EXTENDS Themes, Narratives, Stakeholders, Warnings, Analogues

CONSTANT RaiseAlerts

(***************************************************************************)
(* What can be said to have happened to what.  A transition of an edge is  *)
(* filed under its narrative here, one of an analogue under its episode    *)
(* and one of a warning under its objective.                               *)
(***************************************************************************)
EdgeTypes      == {"RECORDED", "REVISED"}
WarningTypes   == {"RAISED", "ESCALATED", "DOWNGRADED", "COMPONENT_CHANGED", "RESOLVED", "WITHDRAWN"}
AnalogueTypes  == {"RETRIEVED", "REVISED", "REJECTED", "EVIDENCE_DEGRADED"}
TransitionTypes ==
  [theme      |-> {"CREATED", "STRENGTHENED", "WEAKENED", "CONTRADICTION_ADDED", "SOURCE_DIVERSITY_CHANGED",
                   "SUBTHEME_EMERGED", "MEMBERSHIP_CHANGED", "EVIDENCE_UPDATED", "SPLIT_PROPOSED", "MERGE_PROPOSED",
                   "MERGED", "SPLIT", "STALE", "RESOLVED", "REVIVED"},
   narrative  |-> EdgeTypes \cup
                  {"CREATED", "VARIANT_ADDED", "PROPAGATION_OBSERVED", "INDEPENDENT_ADOPTION_OBSERVED",
                   "COUNTER_NARRATIVE_LINKED", "ORIGIN_REVISED", "STRENGTHENED", "WEAKENED", "DORMANT", "REEMERGED",
                   "CONTESTED", "RESOLVED", "EVIDENCE_UPDATED"},
   assessment |-> {"CREATED", "POSITION_ADDED", "POSITION_CHANGED", "ROLE_CHANGED", "INTEREST_INFERRED",
                   "ALIGNMENT_CHANGED", "BASIS_DEGRADED", "IDENTITY_CAVEAT_CHANGED", "SUPERSEDED", "EVIDENCE_UPDATED"},
   influence  |-> {"ASSERTED", "STRENGTHENED", "WEAKENED", "SUPERSEDED", "RETIRED"},
   objective  |-> WarningTypes \cup {"CREATED", "EXPOSED", "STATUS_CHANGED", "DEPENDENCY_CHANGED"},
   assumption |-> {"HELD", "QUESTIONED", "INVALIDATED", "RESTORED", "EVIDENCE_UPDATED"},
   path       |-> {"CONSTRUCTED", "EDGE_CHANGED", "ASSUMPTION_INVALIDATED", "UNCERTAINTY_CHANGED", "STALE",
                   "INVALIDATED", "RESOLVED"},
   option     |-> {"PROPOSED", "REVIEWED", "ACCEPTED", "REJECTED", "WITHDRAWN", "EVIDENCE_DEGRADED"},
   episode    |-> AnalogueTypes \cup {"RECORDED", "REVISED", "EVIDENCE_UPDATED", "EVIDENCE_DEGRADED"},
   forecast   |-> {"CREATED", "PROBABILITY_UPDATED", "UPDATE_REQUIRED", "INDICATOR_FIRED", "BASIS_DEGRADED",
                   "HORIZON_PASSED", "RESOLVED_TRUE", "RESOLVED_FALSE", "RESOLVED_VOID", "WITHDRAWN", "EVIDENCE_UPDATED"},
   indicator  |-> IndicatorStatuses]

Subjects == [theme |-> ThemeIds, narrative |-> Statements, assessment |-> Assessed, influence |-> DOMAIN Influences,
             objective |-> DOMAIN Objectives, assumption |-> DOMAIN Assumptions, path |-> DOMAIN Paths,
             option |-> DOMAIN ResponseOptions, episode |-> DOMAIN Episodes, forecast |-> {F},
             indicator |-> ToSet(Indicators)]
TransitionContract(r) == r.type = "transition" =>
  \E kind \in DOMAIN Subjects : r.id \in Subjects[kind] /\ r.what \in TransitionTypes[kind]

(***************************************************************************)
(* DependencyIndex: what rests on a claim, and what rests on that.         *)
(***************************************************************************)
Kinds == <<"assumption", F, N, T, "analogue", E, "path", U, "objective", "option", A, W>>
KindRank(kind)   == CHOOSE k \in DOMAIN Kinds : Kinds[k] = kind
Objects(l, kind) == {l[i].id : i \in {j \in DOMAIN l : l[j].type = kind}}

ClaimsUnder(l, kind, id) ==
  CASE kind \in {T, F} -> Resting(Current(l, kind, id).basis)
    [] kind = N -> Resting(Told(l, id).basis) \cup UNION {r.claims : r \in {v \in Evidence(l, "variant") : v.id[1] = id}}
    [] kind = A -> Resting(Assessed1(l, id).basis) \cup ClaimsOf(Held(Assessed1(l, id)))
    [] kind = "assumption" -> Current(l, kind, id).sup \cup Current(l, kind, id).con
    [] kind = "path" -> Paths[id].claims
    [] kind = E -> Current(l, kind, id).claims
    [] kind = U -> Influences[id].claims
    [] kind = "option" -> ResponseOptions[id].claims
    [] OTHER -> {}

RestsOn(l, above, below) ==
  \/ above[1] = T /\ below = <<T, Parent[above[2]]>>
  \/ above[1] = N /\ below[1] = N /\ below[2] \in Told(l, above[2]).counters
  \/ above[1] = A /\ below[1] = U /\ below[2] \in Assessed1(l, above[2]).influences
  \/ above[1] = "path" /\ below = <<"objective", Paths[above[2]].objective>>
  \/ above[1] = "option" /\ LET path == ResponseOptions[above[2]].path IN below \in {<<"path", path>>, <<"objective", Paths[path].objective>>}
  \/ above[1] = "analogue" /\ below = <<E, above[2][2]>>
  \/ above[1] = W /\ (below[1] = F \/ below = <<"objective", above[2]>> \/ (below[1] = "path" /\ below[2] \in Current(l, W, above[2]).is.paths))

Affected(l, claims) ==
  LET all == {<<l[i].type, l[i].id>> : i \in {j \in DOMAIN l : l[j].type \in ToSet(Kinds)}}
      Reach[n \in 0 .. Cardinality(all)] ==
        IF n = 0 THEN {o \in all : ClaimsUnder(l, o[1], o[2]) \cap claims # {}}
        ELSE LET r == Reach[n - 1] IN {o \in all : o \in r \/ \E b \in r : RestsOn(l, o, b)}
  IN  Reach[Cardinality(all)]

(***************************************************************************)
(* The pass.  Which object, which changes its refresh is said to come      *)
(* from, and what it is to question is worked out when it begins.          *)
(***************************************************************************)
(* Fault: a pass looks at the last change only. *)
PendingLast(l) == LET all == {i \in DOMAIN l : l[i].type \in {"state", "seen"}} IN Newest(all)
Pending(l) == {i \in DOMAIN l : l[i].type \in {"state", "seen"}}
Touching(l) == UNION {Affected(l, {l[i].id}) \X {i} : i \in Pending(l)}
InOrder(objects) == Arranged(objects, LAMBDA o, p : KindRank(o[1]) < KindRank(p[1]))

(* An assumption is questioned for the first change of one of its claims   *)
(* that tells against it: the claim is bad, or the change was for the bad. *)
(* Which assumptions hold, and on which claims, was read when the pass     *)
(* began.  An objective is exposed for each change.                        *)
Bad(l, id)    == Current(l, "assumption", id).sup \cap Degraded(l)
Trusted(l, o) == IF o[1] = "assumption" /\ Current(l, o[1], o[2]).status = "HELD" THEN Current(l, o[1], o[2]).sup ELSE {}
TellsAgainst(l, e) == e.id \in Degraded(l) \/ (e.type = "state" /\ e.degraded)
Questioned(l, id, changes, trusted) ==
  LET causes == {i \in changes : l[i].id \in trusted /\ TellsAgainst(l, l[i])}
  IN  IF causes = {} THEN <<>> ELSE QuestionAssumption(l, id, <<"change", Min(causes)>>)
Exposed(id, changes) ==
  LET order == Arranged(changes, <) IN [n \in DOMAIN order |-> Step("expose", <<id, <<"change", order[n]>>>>)]
(* What has no status of its own to refresh only has it said.              *)
Degrading(l, id, claims, what, kind) ==
  LET bad == claims \cap Degraded(l)
  IN  IF bad = {} THEN <<>> ELSE <<Transition(id, what, <<"degraded", kind, bad>>)>>

RefreshOne(l, o, changes, trusted) ==
  LET cause == <<"changes", changes>>  id == o[2]
  IN  IF ~Known(l, o[1], id) THEN <<>> ELSE
      CASE o[1] = "assumption" -> Questioned(l, id, changes, trusted)
        [] o[1] = F -> RefreshForecast(l)
        [] o[1] = N -> RefreshNarrative(l, id, cause)
        [] o[1] = T -> RefreshTheme(l, id, cause)
        [] o[1] = A -> RefreshAssessment(l, id, cause)
        [] o[1] = "path" -> RefreshPath(l, id)
        [] o[1] = "objective" -> Exposed(id, changes)
        [] o[1] = E -> Degrading(l, id, Current(l, E, id).claims, "EVIDENCE_DEGRADED", E)
        [] o[1] = "analogue" -> Degrading(l, id[2], Current(l, E, id[2]).claims, "EVIDENCE_DEGRADED", id[1])
        [] o[1] = U -> Degrading(l, id, Influences[id].claims, "WEAKENED", U)
        [] o[1] = "option" -> Degrading(l, id, ResponseOptions[id].claims, "EVIDENCE_DEGRADED", "option")
        [] OTHER -> <<>>

(* Alerts for what has been recorded since the object was begun. *)
Alertable == {"CONTRADICTION_ADDED", "STALE", "WEAKENED", "SOURCE_DIVERSITY_CHANGED", "CONTESTED", "ORIGIN_REVISED",
              "BASIS_DEGRADED", "POSITION_CHANGED", "ASSUMPTION_INVALIDATED", "EXPOSED", "QUESTIONED", "INVALIDATED",
              "EVIDENCE_DEGRADED", "RESOLVED_TRUE", "RESOLVED_FALSE", "ESCALATED"}
Alert(t) == [type |-> "alert", id |-> <<"alert", t.id, t.what, t.cause>>]
Alerts(l, since) ==
  LET new == Only(l, {i \in since + 1 .. Len(l) : l[i].type = "transition" /\ l[i].what \in Alertable})
  IN  IF RaiseAlerts THEN [n \in DOMAIN new |-> Alert(new[n])] ELSE <<>>

Propagate(l) ==
  LET touching == Touching(l)
      objects  == InOrder({t[1] : t \in touching})
      on(o)    == {t[2] : t \in {u \in touching : u[1] = o}}
  IN  [n \in DOMAIN objects |-> Step("object", <<objects[n], on(objects[n]), Trusted(l, objects[n])>>)]
      \o <<Step("all caveats", A), Step("plane", F)>>
Plane(l) == CheckIndicators(l) \o <<Step("refresh forecast", F), Step("all warnings", W), Step("alerts", Len(l))>>

PropagationContinue(l, step) ==
  CASE step.what = "object"      -> RefreshOne(l, step.id[1], step.id[2], step.id[3]) \o <<Step("alerts", Len(l))>>
    [] step.what = "alerts"      -> Alerts(l, step.id)
    [] step.what = "all caveats" -> RefreshIdentityCaveats(l)
    [] step.what = "plane"       -> Plane(l)
    [] step.what = "refresh forecast" -> RefreshForecast(l)
    [] step.what = "all warnings" -> RefreshWarnings(l)
    [] step.what \in {"part", "membership"} -> ThemeContinue(l, step)
    [] step.what \in NarrativeSteps   -> NarrativeContinue(l, step)
    [] step.what \in StakeholderSteps -> StakeholderContinue(l, step)
    [] step.what \in AnalogueSteps    -> AnalogueContinue(l, step)
    [] OTHER -> WarningContinue(l, step)

PropagateChanges(c) == Idle(c) /\ Do(PropagationContinue, c, Propagate(log))
AnalyticWrite(c)    == WriteAnd(PropagationContinue, c)

(***************************************************************************)
(* The specification: all engines on one log.                              *)
(***************************************************************************)
PlaneCommand(c) ==
  \/ ForecastCommand(c) \/ ThemeCommand(c) \/ NarrativeCommand(c) \/ StakeholderCommand(c) \/ ImpactCommand(c)
  \/ Warn(c) \/ RecheckWarnings(c) \/ Remember(c) \/ Compare(c) \/ PropagateChanges(c)

PlaneNext == \/ \E c \in Calls : PlaneCommand(c) \/ AnalyticWrite(c) \/ GiveUp(c)
             \/ \E k \in Caveats : Identity(k)
             \/ \E e \in SeenIn("other", 3) \cup World(log) : Report(e)

PlaneSpec == CommandInit /\ [][PlaneNext]_vars

(***************************************************************************)
(* Properties of the whole plane.                                          *)
(***************************************************************************)
(* No command dies halfway on a record that its own contract refuses       *)
(* (contracts.py, __post_init__ of every record), whatever arrived between *)
(* its check and its append.                                               *)
Contracts(r) ==
  /\ ThemeContract(r) /\ NarrativeContract(r) /\ VariantContract(r) /\ EdgeContract(r)
  /\ AssessmentContract(r) /\ InfluenceContract(r) /\ ObjectiveContract(r) /\ AssumptionContract(r)
  /\ IndicatorContract(r) /\ PathContract(r) /\ OptionContract(r) /\ WarningContract(r) /\ EpisodeContract(r) /\ AnalogueContract(r)
  /\ TransitionContract(r)

RecordsHold == ForecastContract /\ \A i \in DOMAIN log : Contracts(log[i])

(* What a person has decided, nothing that is worked out takes back,       *)
(* whichever of the two comes first: a judgment of independent adoption, a *)
(* theme that was ended, an assumption that has fallen and a response that *)
(* was decided on.                                                         *)
JudgmentStands == AdoptionStands /\ RetiredStays /\ FallenStays

(* A pass that would find nothing to do. *)
Quiet == (\A c \in Calls : Idle(c)) /\ Ahead(PropagationContinue, log, Propagate(log)) = <<>>

(* When a pass finds nothing to do, nothing that still counts rests on a   *)
(* basis that is out of date: the index misses no object.                  *)
PropagationReaches == Quiet =>
  /\ \A kind \in {T, N, A, F} : \A id \in Objects(log, kind) :
       LET r == Current(log, kind, id)
           over == CASE kind = T -> r.status \in Retired
                     [] kind = F -> r.status \in Terminal
                     [] kind = N -> r.status \in {"RESOLVED", "SUPERSEDED"}
                     [] OTHER -> FALSE
       IN  ~over => r.basis.deg = Cardinality(r.basis.sup \cap Degraded(log))
  /\ \A p \in Built(log) : Paths[p].claims \cap Degraded(log) # {} => Current(log, "path", p).status = "STALE"
  /\ \A a \in Objects(log, "assumption") : Current(log, "assumption", a).status = "HELD" => Bad(log, a) = {}

(* Running a pass again after a crash completes the history that the crash *)
(* has cut off: where a version has lost a claim, that is on record.       *)
HistoryCompletes == Quiet =>
  \A r \in Revisions(A) \cup Revisions(F) :
    log[r[1]].basis.deg < log[r[2]].basis.deg => Marked(log, log[r[2]].id, "BASIS_DEGRADED")
=============================================================================
