------------------------------ MODULE Forecasts ------------------------------
(***************************************************************************)
(* One forecast and the indicators that watch for it (forecasts.py and     *)
(* indicators.py of curunir_analytic): a probability somebody put on a     *)
(* question with a horizon, moved only by an authority, and settled by a   *)
(* person or by the rule it was made with.  The horizon is also the        *)
(* deadline of the indicators that wait for an absence.                    *)
(***************************************************************************)
EXTENDS AnalyticPlane

CONSTANTS
  Odds,        \* probabilities
  Target,      \* the probability the candidate names and indicators apply
  Outcomes,    \* how people settle it: RESOLVED_TRUE, ..._FALSE, ..._VOID, WITHDRAWN
  Rules,       \* resolution rules: CLAIM_PREDICATE, EVENT_OCCURRED, HUMAN_JUDGMENT
  Sources,     \* the sources whose search is the declared coverage
  Indicators,  \* in the order of their ids: a sequence
  Absence,     \* the indicators that wait for an absence; the rest for a presence
  Apply        \* the indicators that apply Target; the rest ask for a review

ASSUME ForecastsAssumption ==
  /\ Target \in Odds
  /\ Outcomes \subseteq {"RESOLVED_TRUE", "RESOLVED_FALSE", "RESOLVED_VOID", "WITHDRAWN"}
  /\ Rules \subseteq {"CLAIM_PREDICATE", "EVENT_OCCURRED", "HUMAN_JUDGMENT"}
  /\ Indicators \in Seq(ToSet(Indicators)) /\ Absence \cup Apply \subseteq ToSet(Indicators)

vars == <<log, todo>>

Terminal == {"RESOLVED_TRUE", "RESOLVED_FALSE", "RESOLVED_VOID", "WITHDRAWN"}
Statuses == Terminal \cup {"OPEN", "UPDATE_REQUIRED", "HORIZON_PASSED"}
IndicatorStatuses == {"ARMED", "FIRED", "COVERAGE_BLOCKED", "EXPIRED_UNFIRED", "RETIRED"}

(* A version of the forecast; "why" stands for its change reason and       *)
(* history note.                                                           *)
F == "forecast"
Forecast(rule, p, proposal, basis) ==
  [type |-> F, id |-> F, version |-> 0, status |-> "OPEN", rule |-> rule, p |-> p,
   proposal |-> proposal, basis |-> basis, indicators |-> {}, why |-> "created"]
Indicator(i, status) == [type |-> "indicator", id |-> i, version |-> 0, status |-> status]

Exists(l) == Known(l, F, F)
Now(l)    == Current(l, F, F)
(* Fault: no guard asks whether the forecast is settled. *)
LiveOnceMade(l) == Exists(l)
Live(l)   == Exists(l) /\ Now(l).status \notin Terminal
(* The clock: the moment the horizon passes has its place among the events. *)
Horizon   == [type |-> "horizon", id |-> F]
Late(l)   == Known(l, "horizon", F)

(***************************************************************************)
(* Resolution by rule.                                                     *)
(***************************************************************************)
(* Items: a gap in the coverage, a match after the horizon, a search that  *)
(* an absence waits for, a review an indicator asks for.                   *)
Coverage  == <<"coverage">>
LateMatch == <<"latematch">>
Search(i) == <<"search", i>>
Review(i) == <<"review", i>>
CloseItems(ids) == [n \in DOMAIN ids |-> Item(ids[n], "RESOLVED")]

Settled(l, status, why) ==
  <<[Now(l) EXCEPT !.status = status, !.why = why], Transition(F, status, <<why>>)>>
    \o CloseItems(<<Coverage, LateMatch>>)

Covered(l) == \A s \in Sources : \E e \in Evidence(l, "search") : e.source = s

(* Fault: the horizon alone makes it false. *)
FalseByHorizon(l) == Settled(l, "RESOLVED_FALSE", "machine")

FalseByAbsenceOrWait(l) ==
  IF Covered(l) THEN Settled(l, "RESOLVED_FALSE", "machine") ELSE <<Item(Coverage, "OPEN")>>

(* The claim the rule names, as its last record says; one that is degraded *)
(* is not current.  "after" is evidence from after the horizon.            *)
ClaimIs(l, value, after) ==
  /\ Known(l, "claim", "claim")
  /\ Current(l, "claim", "claim").value = value
  /\ Current(l, "claim", "claim").after = after

ResolveByClaim(l) ==
  CASE ClaimIs(l, "expected", FALSE) -> Settled(l, "RESOLVED_TRUE", "machine")
    [] ClaimIs(l, "expected", TRUE)  -> <<Item(LateMatch, "OPEN")>>
    [] ClaimIs(l, "other", TRUE)     -> Settled(l, "RESOLVED_FALSE", "machine")
    [] OTHER -> IF Late(l) THEN FalseByAbsenceOrWait(l) ELSE <<>>

ResolveByEvent(l) ==
  CASE Evidence(l, "activity") # {} -> Settled(l, "RESOLVED_TRUE", "machine")
    [] OTHER -> IF Late(l) THEN FalseByAbsenceOrWait(l) ELSE <<>>

TryMachineResolution(l) ==
  IF ~Live(l) \/ Now(l).rule = "HUMAN_JUDGMENT" \/ IsOpen(l, LateMatch) THEN <<>>
  ELSE IF Now(l).rule = "CLAIM_PREDICATE" THEN ResolveByClaim(l) ELSE ResolveByEvent(l)

(***************************************************************************)
(* Commands on the forecast.                                               *)
(***************************************************************************)
Moved(l, p, proposal, why, status) ==
  LET next == [Now(l) EXCEPT !.p = p, !.proposal = proposal, !.why = why, !.status = status]
  IN  <<next, Transition(F, "PROBABILITY_UPDATED", <<"version", NextVersion(l, next)>>)>>

Reviewed(l) == IF Now(l).status = "UPDATE_REQUIRED" THEN "OPEN" ELSE Now(l).status

Created == Ensure(F, "CREATED", <<F>>)

Fold(l, p, proposal, sup, con) ==
  IF ~Live(l) \/ (proposal # "" /\ proposal # Now(l).proposal) \/ p # Now(l).p
     \/ (sup \subseteq Now(l).basis.sup /\ con \subseteq Now(l).basis.con)
  THEN <<>> ELSE <<Step("evidence", [was |-> Now(l), sup |-> sup, con |-> con])>>
FoldEvidence(l, was, sup, con) ==
  <<[was EXCEPT !.basis = Widened(l, @, sup, con), !.why = "fold"],
    Transition(F, "EVIDENCE_UPDATED", <<"fold", sup \ was.basis.sup, con \ was.basis.con>>)>>

CreateForecast(l, rule, p, proposal, sup, con) ==
  CASE Exists(l) -> <<Created>> \o Fold(l, p, proposal, sup, con)
    [] ~Exists(l) /\ (~Authorized(l, proposal) \/ (proposal # "" /\ p # Target)) -> <<>>
    [] OTHER -> <<Forecast(rule, p, proposal, Basis(l, sup, con)), Created>>

(* A candidate that this version already carries only has its transition   *)
(* completed; otherwise it is spent.                                       *)
UpdateByModel(l, proposal) ==
  IF ~Live(l) THEN <<>>
  ELSE IF Now(l).proposal = proposal /\ Now(l).p = Target
       THEN <<Transition(F, "PROBABILITY_UPDATED", <<"version", Now(l).version>>)>>
       ELSE IF Spendable(l, proposal) THEN Moved(l, Target, proposal, "model", Reviewed(l)) ELSE <<>>

UpdateByHuman(l, p) == IF Live(l) THEN Moved(l, p, "", "human", Reviewed(l)) ELSE <<>>

Shaken(before, after) == before.deg # after.deg \/ before.con # after.con
Refreshed(l, basis) ==
  CASE Late(l) /\ Now(l).status \in {"OPEN", "UPDATE_REQUIRED"} -> "HORIZON_PASSED"
    [] ~Late(l) /\ Now(l).status = "OPEN" /\ Shaken(Now(l).basis, basis) -> "UPDATE_REQUIRED"
    [] OTHER -> Now(l).status

RefreshForecast(l) ==
  LET basis  == Rebased(l, Now(l).basis)
      status == Refreshed(l, basis)
      try    == IF Late(l) THEN <<Step("try", F)>> ELSE <<>>
  IN  IF ~Live(l) THEN <<>>
      ELSE IF basis = Now(l).basis /\ status = Now(l).status THEN try
      ELSE <<[Now(l) EXCEPT !.basis = basis, !.status = status, !.why = "refresh"]>>
             \o (IF Shaken(Now(l).basis, basis)
                 THEN <<Transition(F, "BASIS_DEGRADED", <<"degraded", basis.con, basis.deg>>)>> ELSE <<>>)
             \o (IF status = "HORIZON_PASSED" /\ status # Now(l).status
                 THEN <<Transition(F, "HORIZON_PASSED", <<"horizon">>)>> ELSE <<>>)
             \o try

ResolveByHuman(l, status) == IF Live(l) THEN Settled(l, status, "human") ELSE <<>>

(***************************************************************************)
(* Indicators.                                                             *)
(***************************************************************************)
Armed(i) == Ensure(i, "ARMED", <<i>>)
Fired(i) == Transition(F, "INDICATOR_FIRED", <<i>>)

FoldIn(l, i) == IF ~Live(l) \/ i \in Now(l).indicators THEN <<>>
                ELSE <<[Now(l) EXCEPT !.indicators = @ \cup {i}, !.why = "indicator"]>>

Arm(l, i) == CASE Known(l, "indicator", i) -> <<Armed(i), Step("fold", i)>>
               [] Live(l) -> <<Indicator(i, "ARMED"), Armed(i), Step("fold", i)>>
               [] OTHER -> <<>>

(* The effect landed if a version since the firing holds the target. *)
FiredAt(l, i)  == Max({n \in Versions(l, "indicator", i) : l[n].status = "FIRED"})
Executed(l, i) == \E v \in Versions(l, F, F) : FiredAt(l, i) < v /\ l[v].p = Target

(* Fault: the firing is marked before its effect is carried out. *)
ApplyEffectsMarked(l, i) ==
  IF ~Live(l) \/ Recorded(l, Fired(i)) THEN <<>>
  ELSE <<Fired(i)>> \o IF i \in Apply THEN Moved(l, Target, "", i, Now(l).status) ELSE <<Item(Review(i), "OPEN")>>

ApplyEffects(l, i) ==
  IF ~Live(l) \/ Recorded(l, Fired(i)) THEN <<>>
  ELSE IF i \in Apply
       THEN (IF Executed(l, i) \/ Now(l).p = Target THEN <<>>
             ELSE Moved(l, Target, "", i, Now(l).status)) \o <<Fired(i)>>
       ELSE (IF Now(l).status # "OPEN" THEN <<>>
             ELSE <<[Now(l) EXCEPT !.status = "UPDATE_REQUIRED", !.why = "indicator"]>>)
            \o <<Item(Review(i), "OPEN"), Fired(i)>>

Close(i) == CloseItems(<<Search(i)>>)
Change(seen, status) == <<[seen EXCEPT !.status = status], Transition(seen.id, status, <<seen.id>>)>>
Fire(seen) == Change(seen, "FIRED") \o <<Step("effects", seen.id)>> \o Close(seen.id)

(* An observation reports a state of before the arming, of since then, or  *)
(* of after the deadline.  It counts for a presence if it was recorded     *)
(* after the arming and its state is not earlier; against an absence if    *)
(* its state is not later than the deadline.                               *)
Present(l, i) == \E n, m \in DOMAIN l : /\ n < m /\ l[n].type = "indicator" /\ l[n].id = i
                                       /\ l[m].type = "observation" /\ l[m].of # "earlier"
Defeated(l)   == \E o \in Evidence(l, "observation") : o.of # "after"

CheckPresence(l, seen) == IF seen.status = "ARMED" /\ Present(l, seen.id) THEN Fire(seen) ELSE <<>>
CheckAbsence(l, seen) ==
  IF seen.status = "ARMED" /\ ~Late(l) THEN <<>>
  ELSE CASE Defeated(l) -> Change(seen, "RETIRED") \o Close(seen.id)
         [] ~Defeated(l) /\ Covered(l) -> Fire(seen)
         [] OTHER -> IF seen.status # "ARMED" THEN <<>>
                     ELSE Change(seen, "COVERAGE_BLOCKED") \o <<Item(Search(seen.id), "OPEN")>>

(* One indicator of a pass, as the pass saw it when it began. *)
Check(l, seen) ==
  CASE seen.status = "FIRED" -> <<Step("effects", seen.id)>> \o Close(seen.id)
    [] seen.status \notin {"ARMED", "COVERAGE_BLOCKED", "FIRED"} -> <<>>
    [] seen.status \in {"ARMED", "COVERAGE_BLOCKED"} /\ ~Live(l) ->
         Change(seen, "EXPIRED_UNFIRED") \o Close(seen.id)
    [] OTHER -> IF seen.id \in Absence THEN CheckAbsence(l, seen) ELSE CheckPresence(l, seen)

CheckIndicators(l) ==
  LET known == Only(Indicators, {n \in DOMAIN Indicators : Known(l, "indicator", Indicators[n])})
  IN  [n \in DOMAIN known |-> Step("check", Current(l, "indicator", known[n]))]

Continue(l, step) == CASE step.what = "try"     -> TryMachineResolution(l)
                       [] step.what = "evidence" -> FoldEvidence(l, step.id.was, step.id.sup, step.id.con)
                       [] step.what = "fold"    -> FoldIn(l, step.id)
                       [] step.what = "effects" -> ApplyEffects(l, step.id)
                       [] step.what = "check"   -> Check(l, step.id)

(***************************************************************************)
(* The specification.                                                      *)
(***************************************************************************)
ForecastDo(c, events) == Idle(c) /\ Do(Continue, c, events)

MakeForecast(c, proposals) ==
  \E rule \in Rules, p \in Odds, proposal \in proposals, sup, con \in SUBSET Claims :
    sup # {} /\ sup \cap con = {} /\ ForecastDo(c, CreateForecast(log, rule, p, proposal, sup, con))
MoveForecast(c)    == \E p \in Odds : ForecastDo(c, UpdateByHuman(log, p))
RecheckForecast(c) == ForecastDo(c, RefreshForecast(log))
SettleForecast(c)  == \E status \in Outcomes : ForecastDo(c, ResolveByHuman(log, status))
Watch(c, i)        == ForecastDo(c, Arm(log, i))
WatchPass(c)       == ForecastDo(c, CheckIndicators(log))
UseCandidate(c)    == ForecastDo(c, UpdateByModel(log, "candidate"))
ForecastWrite(c)   == WriteAnd(Continue, c)

(* Evidence of the world. *)
World(l) ==
  ClaimNews
    \cup {[type |-> "search", id |-> s, source |-> s] : s \in IF Late(l) THEN Sources ELSE {}}
    \cup {[type |-> "observation", id |-> "o", of |-> t] :
            t \in {"earlier", "since"} \cup IF Late(l) THEN {"after"} ELSE {}}
    \cup (IF "EVENT_OCCURRED" \in Rules THEN {[type |-> "activity", id |-> "a"]} ELSE {})
    \cup (IF "CLAIM_PREDICATE" \in Rules
          THEN {[type |-> "claim", id |-> "claim", value |-> v, after |-> a] :
                  v \in {"expected", "other"}, a \in IF Late(l) THEN BOOLEAN ELSE {FALSE}}
          ELSE {})
    \cup IF Late(l) THEN {} ELSE {Horizon}
Report(e) == News(log, e) /\ Happen(e)

ForecastCommand(c) ==
  \/ MakeForecast(c, {"", "candidate"}) \/ MoveForecast(c) \/ RecheckForecast(c) \/ SettleForecast(c)
  \/ \E i \in ToSet(Indicators) : Watch(c, i)
  \/ WatchPass(c) \/ UseCandidate(c)
  \/ Idle(c) /\ CandidateCommand(c, "candidate")

ForecastNext == \/ \E c \in Calls : ForecastCommand(c) \/ ForecastWrite(c) \/ GiveUp(c)
                \/ \E e \in World(log) : Report(e)

ForecastSpec == CommandInit /\ [][ForecastNext]_vars

(***************************************************************************)
(* Properties.                                                             *)
(***************************************************************************)
(* What a forecast and an indicator record can say. *)
ForecastContract ==
  \A i \in Versions(log, F, F) :
       /\ log[i].status \in Statuses /\ log[i].p \in Odds /\ log[i].rule \in Rules
       /\ log[i].indicators \subseteq ToSet(Indicators)
       /\ BasisContract(log[i].basis)
IndicatorContract(r) == r.type = "indicator" => r.version >= 1 /\ r.status \in IndicatorStatuses /\ r.id \in ToSet(Indicators)

(* A creation that is repeated before its mark was recorded goes on with   *)
(* the version that it read before it recorded the mark.                   *)
Refolded(n) == \E i \in Versions(log, F, F) :
  /\ i < n /\ ~Marked(SubSeq(log, 1, i), F, "CREATED")
  /\ log[n] = [log[i] EXCEPT !.version = log[n].version, !.basis = log[n].basis, !.why = "fold"]

(* A settled forecast is history: no call that had read it live revises it *)
(* after all, whatever it re-appends, but for the creation that comes late *)
(* to its mark.                                                            *)
SettledStands == \A r \in Revisions(F) : log[r[1]].status \notin Terminal \/ Refolded(r[2])

(* The number moves by a person, by the first use of an accepted candidate *)
(* or by an indicator, once for a firing and never over a move that came   *)
(* after it; no refresh, fold or retry puts an older number back, but for  *)
(* the creation that comes late to its mark.                               *)
MovesAreAuthorized == \A r \in Revisions(F) :
  LET before == log[r[1]]  after == log[r[2]]
      earlier == {i \in Versions(log, F, F) : i < r[2]}
  IN  after.p # before.p =>
        \/ after.why = "human"
        \/ /\ after.why = "model" /\ after.p = Target
           /\ \A i \in earlier : log[i].proposal = ""
           /\ \E i \in 1 .. r[2] : log[i] = Proposal("candidate", "ACCEPTED")
        \/ /\ after.why \in Apply /\ after.p = Target
           /\ \E f \in Versions(log, "indicator", after.why) :
                /\ f < r[2] /\ log[f].status = "FIRED"
                /\ \A i \in earlier : f < i => log[i].p # Target
        \/ Refolded(r[2])

(* A machine says FALSE only where somebody looked: every declared source  *)
(* searched after the horizon, or the claim itself seen different then.    *)
SilenceIsNotFalse == \A i \in Versions(log, F, F) :
  log[i].status = "RESOLVED_FALSE" /\ log[i].why = "machine" =>
    LET seen == SubSeq(log, 1, i)
    IN  Late(seen) /\ (Covered(seen) \/ \E e \in Evidence(seen, "claim") : e.value = "other" /\ e.after)

(* A firing is marked as carried out when it is: the target was standing,  *)
(* or the review was asked for, by then.                                   *)
FiringsAreComplete == \A m \in DOMAIN log, i \in ToSet(Indicators) : log[m] = Fired(i) =>
  LET seen == SubSeq(log, 1, m)
  IN  IF i \in Apply THEN \E v \in Versions(seen, F, F) : log[v].p = Target
      ELSE Known(seen, "item", Review(i))
=============================================================================
