--------------------------- MODULE AlertWorkflow ---------------------------
(***************************************************************************)
(* From an alert to the effect of a decision                               *)
(* (curunir_operational/workflow.py): detections raise an alert and raise  *)
(* it again, people move it, providers recommend, people decide, and the   *)
(* effect of a decision is a new version of an object, as is what an       *)
(* ingestion reports of it and that a detection disputes it.               *)
(***************************************************************************)
EXTENDS CommandLog

CONSTANTS
  Humans, Services,  \* principals, by actor_kind
  Qualified,         \* those who hold the role that the recommendation requires
  Decisions,         \* ids of decisions
  Moves, Outcomes,   \* bounds: the statuses and decision states that callers ask for
  MaxLen             \* bound on the log

Actors == Humans \cup Services

AlertStatuses  == {"OPEN", "ACKNOWLEDGED", "RESOLVED", "EXPIRED"}
DecisionStates == {"ACCEPTED", "REJECTED", "MODIFIED", "DEFERRED"}
Effective      == {"ACCEPTED", "MODIFIED"}

ASSUME AlertConstants ==
  /\ Humans \cap Services = {} /\ Qualified \subseteq Actors
  /\ Moves \subseteq AlertStatuses /\ Outcomes \subseteq DecisionStates /\ MaxLen \in Nat

vars == <<log, todo>>

(* retrigger marks the transition that records a repeated detection.       *)
Transitions ==
  [type : {"transition"}, from : AlertStatuses, to : AlertStatuses, actor : Actors, retrigger : BOOLEAN]

(* effects are the decisions whose patch the attributes carry; conflicting *)
(* is the mark of a dispute in quality and attributes; state is the        *)
(* epistemic_state, which each writer sets as it pleases.                  *)
ObjectVersions ==
  [type : {"object"}, version : Nat, effects : SUBSET Decisions, conflicting : BOOLEAN,
   state : {"REPORTED", "DISPUTED", "INFERRED"}]

(* A recommendation pins its evidence to the object version of the time,   *)
(* 0 if there is none, and a decision repeats it (evidence_snapshot_hash). *)
Recommendations == [type : {"recommendation"}, pinned : Nat]
DecisionRecords ==
  [type : {"decision"}, decision : Decisions, actor : Actors, state : DecisionStates, pinned : Nat]

Events ==
  [type : {"alert"}] \cup Transitions \cup ObjectVersions \cup Recommendations \cup DecisionRecords

Init == CommandInit

-----------------------------------------------------------------------------
(* What the log says now.                                                  *)

Alert  == Of("alert")
Object == {log[i] : i \in Newest(Of("object"))}

(* _alert_status as of position n: that of the last transition, if any.    *)
MovesTo(n)  == {i \in Of("transition") : i <= n}
StatusAt(n) == IF MovesTo(n) = {} THEN "OPEN" ELSE log[CHOOSE i \in Newest(MovesTo(n)) : TRUE].to
Status      == StatusAt(Len(log))

Recommended == {log[i] : i \in Newest(Of("recommendation"))}
DecidedAs(d) == {log[i] : i \in {j \in Of("decision") : log[j].decision = d}}

PinnedNow == IF Object = {} THEN {0} ELSE {o.version : o \in Object}

-----------------------------------------------------------------------------
(* Commands.                                                               *)

Retriggered(a) ==
  [type |-> "transition", from |-> Status, to |-> Status, actor |-> a, retrigger |-> TRUE]

(* raise_alert: a repeated detection records only that it was repeated.    *)
Raise(c, a) == Decide(c, <<IF Alert = {} THEN [type |-> "alert"] ELSE Retriggered(a)>>)

Move(c, a, to) ==
  /\ Alert # {}
  /\ to = "ACKNOWLEDGED" => a \in Humans
  /\ Decide(c, <<[type |-> "transition", from |-> Status, to |-> to, actor |-> a, retrigger |-> FALSE]>>)

(* An ingestion's version says what was ingested and nothing of before.    *)
Report(c) ==
  \E version \in PinnedNow :
    Decide(c, <<[type |-> "object", version |-> version + 1, effects |-> {}, conflicting |-> FALSE,
                 state |-> "REPORTED"]>>)

(* materialize, for a STATE_CANDIDATE proposal. *)
Dispute(c) ==
  \E o \in Object :
    /\ o.state # "DISPUTED"
    /\ Decide(c, <<[o EXCEPT !.version = @ + 1, !.conflicting = TRUE, !.state = "DISPUTED"]>>)

(* recommend, also out of materialize. *)
Recommend(c) ==
  /\ Recommended = {}
  /\ \E p \in PinnedNow : Decide(c, <<[type |-> "recommendation", pinned |-> p]>>)

(* decide; the id of a decision is a digest of who decided and when. *)
DecideOn(c, a, d, state) ==
  \E r \in Recommended :
    /\ a \in Humans \cap Qualified
    /\ DecidedAs(d) = {} /\ \A b \in Calls : \A i \in 1 .. Len(todo[b]) :
         todo[b][i].type = "decision" => todo[b][i].decision # d
    /\ Decide(c, <<[type |-> "decision", decision |-> d, actor |-> a, state |-> state,
                    pinned |-> r.pinned]>>)

(* Fault: a decision against an action has an effect too. *)
EnactAny(c, d) ==
  \E r \in DecidedAs(d), o \in Object :
    Decide(c, <<[o EXCEPT !.version = @ + 1, !.effects = @ \cup {d}, !.state = "INFERRED"]>>)

(* enact_decision_effect: the patch joins what the version said, but the   *)
(* state becomes INFERRED, also when the last version was disputed.        *)
Enact(c, d) ==
  \E r \in DecidedAs(d), o \in Object :
    /\ r.state \in Effective
    /\ Decide(c, <<[o EXCEPT !.version = @ + 1, !.effects = @ \cup {d}, !.state = "INFERRED"]>>)

-----------------------------------------------------------------------------
(* What happens to a decided event.                                        *)

(* Fault: raise_alert passes no condition. *)
FitsAlertsAnew(e) ==
  /\ e.type = "transition" => e.retrigger \/ e.from = Status
  /\ e.type = "object" => NextAfter(Object, e.version)

(* Fault: an object version may replace one it was not made from. *)
FitsAnyVersion(e) ==
  /\ e.type = "alert" => Alert = {}
  /\ e.type = "transition" => e.retrigger \/ e.from = Status

(* _still_unraised, _still_at, the version check of the store; a repeated  *)
(* detection, a recommendation and a decision carry no condition.          *)
Fits(e) ==
  /\ e.type = "alert" => Alert = {}
  /\ e.type = "transition" => e.retrigger \/ e.from = Status
  /\ e.type = "object" => NextAfter(Object, e.version)

Write(c) == Ready(c) /\ Len(log) < MaxLen /\ Fits(Head(todo[c])) /\ WriteNext(c)

(* _AlertRaisedConcurrently: the detection counts as a repeated one.       *)
RaisedElsewhere(c, a) ==
  /\ Ready(c) /\ Head(todo[c]).type = "alert" /\ Alert # {}
  /\ todo' = [todo EXCEPT ![c] = <<Retriggered(a)>>]
  /\ UNCHANGED log

Command(c) ==
  /\ ~Ready(c)
  /\ \/ \E a \in Services : Raise(c, a)
     \/ \E a \in Actors, to \in Moves : Move(c, a, to)
     \/ Report(c)
     \/ Dispute(c)
     \/ Recommend(c)
     \/ \E a \in Actors, d \in Decisions, state \in Outcomes : DecideOn(c, a, d, state)
     \/ \E d \in Decisions : Enact(c, d)

Next ==
  \E c \in Calls : Command(c) \/ Write(c) \/ (\E a \in Services : RaisedElsewhere(c, a)) \/ GiveUp(c)

Spec == Init /\ [][Next]_vars

-----------------------------------------------------------------------------
(* Properties.                                                             *)

TypeOK == log \in Seq(Events) /\ todo \in [Calls -> Seq(Events)]

(* One alert per deduplication key, however many detections meet, and      *)
(* nothing is said of an alert before it is raised.                        *)
RaisedOnce ==
  \A i \in Of("transition") \cup Alert : \E j \in Alert : j <= i /\ \A k \in Alert : k = j

(* A person or service that moves an alert moves it from the status it     *)
(* decided on, whatever other processes recorded in between.               *)
MovesAreConnected ==
  \A i \in Of("transition") : ~log[i].retrigger => log[i].from = StatusAt(i - 1)

(* An effect in an object goes back to a decision for it, recorded before  *)
(* by a person who holds the role, on a recommendation recorded before     *)
(* that and pinned to evidence recorded before it.                         *)
EffectsAreDecided ==
  \A i \in Of("object") : \A d \in log[i].effects : \E j \in Of("decision") :
    /\ j < i /\ log[j].decision = d
    /\ log[j].actor \in Humans \cap Qualified /\ log[j].state \in Effective
    /\ \E k \in Of("recommendation") :
         /\ k < j /\ log[k].pinned = log[j].pinned
         /\ log[k].pinned # 0 => \E m \in Of("object") : m < k /\ log[m].version = log[k].pinned

(* What decisions and disputes have put into an object stays in all its    *)
(* later versions, however many race, until an ingestion reports it anew:  *)
(* the patch of each decision, and the mark that reports conflict.  (Not   *)
(* so the state: the effect of a decision sets INFERRED over DISPUTED.)    *)
OnlyReportsReplace ==
  \A i, j \in Of("object") : i < j =>
    \/ \E k \in Of("object") : i < k /\ k <= j /\ log[k].state = "REPORTED"
    \/ log[i].effects \subseteq log[j].effects /\ (log[i].conflicting => log[j].conflicting)

(* workflow.py:118 says that only a human can acknowledge an alert: no     *)
(* event of a service makes an alert acknowledged that was not.            *)
OnlyHumansAcknowledge ==
  \A i \in Of("transition") :
    log[i].to = "ACKNOWLEDGED" /\ StatusAt(i - 1) # "ACKNOWLEDGED" => log[i].actor \in Humans
=============================================================================
