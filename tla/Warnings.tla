------------------------------- MODULE Warnings -------------------------------
(***************************************************************************)
(* Warnings (warning.py): how much attention a forecast deserves from an   *)
(* objective.  The tier is worked out from four components by a fixed rule *)
(* and moves with them; nobody sets it.                                    *)
(***************************************************************************)
EXTENDS Forecasts, Impact

CONSTANTS
  Band,      \* [Odds -> band of the probability]
  Pressure,  \* how near the horizon is while it has not passed
  Watched    \* objectives that warnings are projected for


(* The tiers ROUTINE, ATTENTION, PRIORITY and CRITICAL are their ranks.    *)
Tiers == 1 .. 4

(* The tier table, by consequence and band. *)
TierTable ==
  [CRITICAL |-> [REMOTE |-> 2, POSSIBLE |-> 3, LIKELY |-> 4, VERY_LIKELY |-> 4],
   HIGH     |-> [REMOTE |-> 1, POSSIBLE |-> 2, LIKELY |-> 3, VERY_LIKELY |-> 4],
   MEDIUM   |-> [REMOTE |-> 1, POSSIBLE |-> 2, LIKELY |-> 2, VERY_LIKELY |-> 3],
   LOW      |-> [REMOTE |-> 1, POSSIBLE |-> 1, LIKELY |-> 2, VERY_LIKELY |-> 2]]

ASSUME WarningsAssumption ==
  /\ Watched \subseteq DOMAIN Objectives
  /\ \A o \in DOMAIN Objectives : Objectives[o] \in {"CRITICAL", "HIGH", "MEDIUM", "LOW"}
  /\ \A p \in Odds : Band[p] \in {"REMOTE", "POSSIBLE", "LIKELY", "VERY_LIKELY"}

(* Imminence raises one tier, once; weak evidence caps it. *)
DeriveTier(band, consequence, pressure, confidence) ==
  LET table  == TierTable[consequence][band]
      raised == IF pressure = "IMMINENT" /\ table < 4 THEN table + 1 ELSE table
  IN  IF confidence \in {"NONE", "WEAK"} /\ raised > 3 THEN 3 ELSE raised

EvidenceConfidence(b) ==
  LET families == Cardinality(b.fam) - (IF b.deg > 0 THEN 1 ELSE 0)
  IN  CASE b.fam = {} \/ families <= 0 -> "NONE"
        [] b.fam # {} /\ families = 1 -> "WEAK"
        [] b.fam # {} /\ families = 2 -> "MODERATE"
        [] OTHER -> "STRONG"

(* Paths of the objective that share a claim with the forecast. *)
LinkingImpactPaths(l, o) ==
  {p \in Built(l) : Paths[p].objective = o /\ Paths[p].claims \cap (Now(l).basis.sup \cup Now(l).basis.con) # {}}

W == "warning"
Components(l, o) ==
  LET band       == Band[Now(l).p]
      pressure   == IF Late(l) THEN "PASSED" ELSE Pressure
      confidence == EvidenceConfidence(Now(l).basis)
  IN  [band |-> band, pressure |-> pressure, confidence |-> confidence,
       tier |-> DeriveTier(band, Objectives[o], pressure, confidence), paths |-> LinkingImpactPaths(l, o)]

(* WarningRecord refuses the rest. *)
WarningContract(r) == r.type = W => /\ r.version >= 1 /\ r.tier \in Tiers
                                    /\ r.status \in {"ACTIVE", "ESCALATED", "DOWNGRADED", "RESOLVED"}

ProjectWarning(l, o) ==
  LET now  == Components(l, o)
      was  == Current(l, W, o)
      Moved1(status, what) ==
        LET new == [was EXCEPT !.is = now, !.tier = now.tier, !.status = status]
        IN  <<new, Transition(o, what, <<"move", NextVersion(l, new)>>)>>
      over == Now(l).status \in Terminal
  IN  CASE ~Exists(l) \/ ~Known(l, "objective", o) \/ (over /\ ~Known(l, W, o)) -> <<>>
        [] Exists(l) /\ Known(l, "objective", o) /\ ~over /\ ~Known(l, W, o) ->
             <<[type |-> W, id |-> o, version |-> 0, status |-> "ACTIVE", tier |-> now.tier, is |-> now],
               Transition(o, "RAISED", <<"warning">>)>>
        [] OTHER ->
             IF over THEN IF was.status = "RESOLVED" /\ was.is = now THEN <<>> ELSE Moved1("RESOLVED", "RESOLVED")
             ELSE IF was.is = now /\ was.status # "RESOLVED" THEN <<>>
                  ELSE IF now.tier > was.tier THEN Moved1("ESCALATED", "ESCALATED")
                       ELSE IF now.tier < was.tier THEN Moved1("DOWNGRADED", "DOWNGRADED")
                            ELSE Moved1(was.status, "COMPONENT_CHANGED")

RefreshWarnings(l) ==
  LET open == SetToSeq({o \in Watched : Known(l, W, o) /\ Current(l, W, o).status # "RESOLVED"})
  IN  [n \in DOMAIN open |-> Step("project", open[n])]

ForecastSteps == {"try", "evidence", "fold", "effects", "check"}
WarningContinue(l, step) ==
  CASE step.what = "project" -> ProjectWarning(l, step.id)
    [] step.what \in ForecastSteps -> Continue(l, step)
    [] OTHER -> ImpactContinue(l, step)

WarningDo(c, events) == Idle(c) /\ Do(WarningContinue, c, events)
Warn(c)         == \E o \in Watched : WarningDo(c, ProjectWarning(log, o))
RecheckWarnings(c) == WarningDo(c, RefreshWarnings(log))

=============================================================================
