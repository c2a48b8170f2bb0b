------------------------------ MODULE Collection ------------------------------
(***************************************************************************)
(* From a hypothesis to the evidence that would tell (hypotheses.py,       *)
(* collection.py): claims speak for and against hypotheses; a question     *)
(* names the observation that discriminates; routes are planned over the   *)
(* sources, run by the machine or handed to a person; and what a route     *)
(* brings back is processed and accounted for.                             *)
(***************************************************************************)
EXTENDS SemanticChanges

CONSTANTS
  Hypotheses,
  Questions,   \* [discriminators -> topic, claims, hypotheses]
  Sources,     \* [sources -> group, eligible, brings]
  SourceOrder  \* by score

ASSUME CollectionAssumption ==
  /\ SourceOrder \in Seq(DOMAIN Sources) /\ ToSet(SourceOrder) = DOMAIN Sources
  /\ \A s \in DOMAIN Sources : \A brought \in Sources[s].brings : brought.found \in Seq(DOMAIN Readings)
  /\ \A d \in DOMAIN Questions : IsFiniteSet(Questions[d].hypotheses)

(***************************************************************************)
(* Hypotheses.                                                             *)
(***************************************************************************)
Stances    == {"supporting", "contradicting", "unresolved"}
Unlinked   == [s \in Stances |-> {}]
Uncounted  == [status |-> "UNRESOLVED", independent |-> 0, active |-> 0, degraded |-> 0, against |-> 0, counted |-> FALSE]
Hypothesis(h, linked, is, questions) ==
  [type |-> "hypothesis", id |-> h, version |-> 1, linked |-> linked, is |-> is, questions |-> questions]
The(l, h) == Current(l, "hypothesis", h)
RecordHypothesis(l, h) ==
  IF Known(l, "hypothesis", h) THEN <<>> ELSE <<[Hypothesis(h, Unlinked, Uncounted, {}) EXCEPT !.version = 0]>>

(* A claim is linked in one stance at a time. *)
LinkClaim(l, h, k, stance) ==
  IF ~Known(l, "hypothesis", h) \/ ~Known(l, "claim", k) \/ k \in The(l, h).linked[stance] THEN <<>>
  ELSE <<[The(l, h) EXCEPT !.linked = [s \in Stances |-> IF s = stance THEN @[s] \cup {k} ELSE @[s] \ {k}]]>>

GroupsOf(l, claims) == UNION {Groups(Current(l, "claim", k)) : k \in {c \in claims : Known(l, "claim", c)}}
(* Fault: every claim counts, whoever published it. *)
IndependentEach(l, claims) == Cardinality(claims)
Independent(l, claims) == Cardinality(GroupsOf(l, claims))
Assess(l, linked) ==
  LET Live(stance) == {k \in linked[stance] : Known(l, "claim", k)}
      active   == {k \in Live("supporting") : Standing(l, k) = "CURRENT"}
      against  == {k \in Live("contradicting") : Standing(l, k) = "CURRENT"}
      n        == Independent(l, active)
      status   == CASE against # {} /\ (active # {} \/ Cardinality(against) < 2) -> "DISPUTED"
                    [] against # {} -> "REJECTED"
                    [] n >= 2 -> "SUPPORTED"
                    [] n = 1  -> "WEAKLY_SUPPORTED"
                    [] OTHER  -> "UNRESOLVED"
  IN  [status |-> status, independent |-> n, active |-> Cardinality(active), against |-> Cardinality(against),
       degraded |-> Cardinality(Live("supporting") \ active), counted |-> TRUE]
Degraded(l, h) == {k \in The(l, h).linked["supporting"] : Known(l, "claim", k) /\ Standing(l, k) # "CURRENT"}
RefreshHypothesis(l, h) ==
  LET now == The(l, h)  is == Assess(l, now.linked)  bad == Degraded(l, h)
  IN  IF is = now.is THEN <<>>
      ELSE <<[now EXCEPT !.is = is, !.linked["unresolved"] = @ \cup bad]>>
           \o (IF bad = {} THEN <<>> ELSE <<Item(<<"stale", h, bad>>, "OPEN")>>)
RefreshFor(l, claims) ==
  LET touched == SetToSeq({h \in Hypotheses : Known(l, "hypothesis", h)
                             /\ \E s \in Stances : The(l, h).linked[s] \cap claims # {}})
  IN  [n \in DOMAIN touched |-> Step("hypothesis", touched[n])]

(***************************************************************************)
(* Questions.  Where independence is asked for, what the question rested   *)
(* on when that was asked is kept, and only another origin answers it.     *)
(***************************************************************************)
Question(d, status, independent, basis, required) ==
  [type |-> "question", id |-> d, version |-> 1, status |-> status, independent |-> independent,
   basis |-> basis, required |-> required]
ExistingBasis(l, d) ==
  GroupsOf(l, Questions[d].claims
              \cup UNION {The(l, h).linked["supporting"] : h \in {g \in Questions[d].hypotheses : Known(l, "hypothesis", g)}})
ProposeQuestion(l, d, independent) ==
  LET hypotheses == SetToSeq(Questions[d].hypotheses)
      basis == IF independent THEN ExistingBasis(l, d) ELSE {}
  IN  (CASE ~Known(l, "question", d) -> <<[Question(d, "OPEN", independent, basis, FALSE) EXCEPT !.version = 0]>>
         [] Known(l, "question", d) /\ independent /\ ~Current(l, "question", d).independent
              -> <<[Current(l, "question", d) EXCEPT !.independent = TRUE, !.basis = basis]>>
         [] OTHER -> <<>>)
      \o [n \in DOMAIN hypotheses |-> Step("pose", <<hypotheses[n], d>>)]
Pose(l, h, d) ==
  IF ~Known(l, "hypothesis", h) \/ d \in The(l, h).questions THEN <<>>
  ELSE <<[The(l, h) EXCEPT !.questions = @ \cup {d}]>>

(* The requirement is opened first; the question is written back as it was *)
(* read before.                                                            *)
RequireQuestion(l, d) ==
  IF ~Known(l, "question", d) THEN <<>>
  ELSE LET now == Current(l, "question", d)
       IN  (IF Known(l, "requirement", d) THEN <<>> ELSE <<[type |-> "requirement", id |-> d, version |-> 0]>>)
           \o (IF now.required /\ now.status # "OPEN" THEN <<>>
               ELSE <<[now EXCEPT !.required = TRUE, !.status = IF @ = "OPEN" THEN "REQUESTED" ELSE @]>>)

Answers(l, d) ==
  LET now   == Current(l, "question", d)
      basis == IF ~now.independent THEN {} ELSE IF now.basis # {} THEN now.basis ELSE ExistingBasis(l, d)
      after == {i \in DOMAIN l : l[i].type = "observation" /\ i > Min(Versions(l, "question", d))}
  IN  {o \in {l[i].id : i \in after} : o[2] = Questions[d].topic /\ Group(o) \notin basis}

(***************************************************************************)
(* Routes.                                                                 *)
(***************************************************************************)
Route(r, status, execution) == [type |-> "route", id |-> r, version |-> 1, status |-> status, execution |-> execution]
Scores(l, d, s) == Current(l, "question", d).independent => Sources[s].group \notin ExistingBasis(l, d)
SettledRoute(l, r) == Known(l, "route", r) /\ Current(l, "route", r).status # "PROPOSED"
PlanRoutes(l, d) ==
  IF ~Known(l, "question", d) THEN <<>>
  ELSE LET new == Only(SourceOrder, {n \in DOMAIN SourceOrder : ~SettledRoute(l, <<d, SourceOrder[n]>>)})
       IN  [n \in DOMAIN new |-> Route(<<d, new[n]>>, IF Sources[new[n]].eligible THEN "PROPOSED" ELSE "HUMAN_REQUIRED", 0)]
           \o (IF \E s \in DOMAIN Sources : Scores(l, d, s) THEN <<>> ELSE <<Item(<<"coverage", d>>, "OPEN")>>)
AssignHuman(l, r) ==
  IF ~Known(l, "route", r) THEN <<>> ELSE <<[type |-> "task", id |-> r], Current(l, "route", r)>>

(* What the fabric brings back is in the log before the execution, and the *)
(* execution before the route says so.                                     *)
Executions(l, r) == Versions(l, "execution", <<r, r[2]>>)
Account(r, n)   == <<Step("process", r), Step("account", <<r, n>>)>>
ExecuteRoute(l, r, brought) ==
  LET now == Current(l, "route", r)  n == Cardinality(Executions(l, r)) + 1
  IN  IF ~Known(l, "route", r) \/ ~Sources[r[2]].eligible THEN <<>>
      ELSE IF now.status = "EXECUTED" THEN Account(r, now.execution)
      ELSE [i \in DOMAIN brought.found |-> [type |-> "manifestation", id |-> brought.found[i]]]
           \o <<[type |-> "execution", id |-> <<r, r[2]>>, n |-> n, outcome |-> brought.outcome],
                [now EXCEPT !.status = IF brought.outcome = "FAILED" THEN "FAILED" ELSE "EXECUTED", !.execution = n]>>
           \o Account(r, n)

RouteFailure(r, status) == [type |-> "route failure", id |-> r, version |-> 1, status |-> status]
RouteFails(l, r) == Known(l, "route failure", r) /\ Current(l, "route failure", r).status = "OPEN"
SettleAccount(l, r, n) ==
  LET d == r[1]  answered == Answers(l, d) # {}
      outcome == l[CHOOSE i \in Executions(l, r) : l[i].n = n].outcome
  IN  (CASE answered /\ Current(l, "question", d).status # "SATISFIED"
              -> <<[Current(l, "question", d) EXCEPT !.status = "SATISFIED"]>>
         [] ~answered /\ outcome = "EMPTY" -> <<Item(<<"expected">> \o r, "OPEN")>>
         [] OTHER -> <<>>)
      \o <<Step("touched", d), Step("accounted", <<r, RouteFails(l, r)>>)>>
Touched(l, d) ==
  LET known == {h \in Questions[d].hypotheses : Known(l, "hypothesis", h)}
  IN  RefreshFor(l, Questions[d].claims
                    \cup UNION {The(l, h).linked["supporting"] \cup The(l, h).linked["contradicting"] : h \in known})
Accounted(r, failed) == IF failed THEN <<RouteFailure(r, "RESOLVED")>> ELSE <<>>

(***************************************************************************)
(* Commands.                                                               *)
(***************************************************************************)
CollectionContinue(l, step) ==
  LET id == step.id IN
  CASE step.what = "hypothesis" -> RefreshHypothesis(l, id)
    [] step.what = "pose"      -> Pose(l, id[1], id[2])
    [] step.what = "process"   -> ProcessNewEvidence(l, {})
    [] step.what = "account"   -> SettleAccount(l, id[1], id[2])
    [] step.what = "touched"   -> Touched(l, id)
    [] step.what = "accounted" -> Accounted(id[1], id[2])
    [] OTHER -> SemanticContinue(l, step)
CollectionDo(c, events) == Idle(c) /\ Do(CollectionContinue, c, events)

Hypothesize(c) == \E h \in Hypotheses : Record(c, RecordHypothesis(log, h))
Link(c)     == \E h \in Hypotheses, k \in DOMAIN Topics, s \in Stances : Record(c, LinkClaim(log, h, k, s))
Refresh(c)  == \E h \in Hypotheses : Known(log, "hypothesis", h) /\ Record(c, RefreshHypothesis(log, h))
Ask(c)      == \E d \in DOMAIN Questions, i \in BOOLEAN : CollectionDo(c, ProposeQuestion(log, d, i))
Require(c)  == \E d \in DOMAIN Questions : Record(c, RequireQuestion(log, d))
Plan(c)     == \E d \in DOMAIN Questions : Record(c, PlanRoutes(log, d))
HandOver(c) == \E d \in DOMAIN Questions, s \in DOMAIN Sources : Record(c, AssignHuman(log, <<d, s>>))
Execute(c)  == \E d \in DOMAIN Questions, s \in DOMAIN Sources : \E brought \in Sources[s].brings :
                 CollectionDo(c, ExecuteRoute(log, <<d, s>>, brought))

(* An accounting that fails leaves an open item that says so. *)
InAccount(c) == {n \in DOMAIN todo[c] : todo[c][n].type = "step" /\ todo[c][n].what \in {"account", "accounted"}}
FailAccount(c) ==
  /\ Ready(c) /\ ~Fits(Head(todo[c])) /\ Understood(c) = {} /\ InAccount(c) # {}
  /\ LET r == todo[c][Min(InAccount(c))].id[1]
     IN  todo' = [todo EXCEPT ![c] = IF RouteFails(log, r) THEN <<>>
                                     ELSE <<[RouteFailure(r, "OPEN") EXCEPT !.version = NextVersion(log, RouteFailure(r, ""))]>>]
  /\ UNCHANGED log

(***************************************************************************)
(* Properties.                                                             *)
(***************************************************************************)
(* One publisher is one voice, however often it speaks and however the     *)
(* claims, the question and the collection race: a hypothesis is supported *)
(* only if two publishers or more stood behind its claims when they were   *)
(* last counted, and a question is satisfied only by an observation made   *)
(* after it was posed, from another origin than those it rested on where   *)
(* independence was asked for by then.  (A claim may be moved to another   *)
(* stance, and independence asked for, without a new count or answer.)     *)
TwoVoices(i) ==
  LET claims == {j \in Of("claim") : j < i /\ log[j].id \in log[i].linked["supporting"]}
      all    == UNION {log[j].obs : j \in claims}
  IN  \E o, p \in all : Group(o) # Group(p)
Answering(i) ==
  {j \in Of("observation") :
    /\ \E k \in Versions(log, "question", log[i].id) : k < j
    /\ j < i /\ log[j].id[2] = Questions[log[i].id].topic /\ Group(log[j].id) \notin log[i].basis}
SameBasis(q, r) == (q.basis = r.basis /\ q.independent = r.independent) \/ (r.independent /\ ~q.independent)
AnswersAreIndependent ==
  /\ \A i \in Of("hypothesis") : log[i].is.status = "SUPPORTED" =>
       \E j \in Versions(log, "hypothesis", log[i].id) : j <= i /\ log[j].is = log[i].is /\ TwoVoices(j)
  /\ \A i \in Of("question") : log[i].status = "SATISFIED" =>
       \E j \in Versions(log, "question", log[i].id) :
         j <= i /\ log[j].status = "SATISFIED" /\ SameBasis(log[j], log[i]) /\ Answering(j) # {}
=============================================================================
