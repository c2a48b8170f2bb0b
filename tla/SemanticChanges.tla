--------------------------- MODULE SemanticChanges ---------------------------
(***************************************************************************)
(* What has changed between two readings of one target (changes.py and the *)
(* monitoring half of pipeline.py): the differences, what each does to the *)
(* claim it touches, the review item and the alert it leads to; and the    *)
(* passes of the semantic plane as commands that may meet each other.      *)
(***************************************************************************)
EXTENDS SemanticPlane

CONSTANT Retrievable  \* the sets of manifestations that a pass may fail to read

(***************************************************************************)
(* Differences, named by the pair, the class and the topic.                *)
(***************************************************************************)
AddedClass(cue, kind) ==
  CASE kind = "RELATION" -> "RELATION_ADDED"
    [] kind = "EVENT" -> "EVENT_ADDED"
    [] cue = "correction" -> "SOURCE_CORRECTION"
    [] OTHER -> "NEW_PROPOSITION"
RemovedClass(cue, kind) ==
  CASE cue = "retraction" -> "SOURCE_RETRACTION"
    [] kind = "RELATION" -> "RELATION_REMOVED"
    [] cue = "correction" -> "SOURCE_CORRECTION"
    [] OTHER -> "REMOVED_PROPOSITION"
ChangedClass(cue, kind) ==
  CASE cue = "correction" -> "SOURCE_CORRECTION"
    [] kind \in Attributes -> "ENTITY_ATTRIBUTE_CHANGED"
    [] kind = "ROLE" -> "ROLE_CHANGED"
    [] kind = "EVENT" -> "EVENT_UPDATED"
    [] OTHER -> "VALUE_CHANGED"

(* What the machine makes of a claim for a class of change: "" is nothing, *)
(* but a person is asked; the other classes concern no claim.              *)
StateFor == [SOURCE_CORRECTION |-> "CORRECTED", SOURCE_RETRACTION |-> "RETRACTED",
             ENTITY_ATTRIBUTE_CHANGED |-> "SUPERSEDED", VALUE_CHANGED |-> "STALE", ROLE_CHANGED |-> "STALE",
             REMOVED_PROPOSITION |-> "", RELATION_REMOVED |-> ""]

Difference(class, k, gone) == [class |-> class, topic |-> k, gone |-> gone]
Unresolved(m, d, prior) ==
  IF Readings[m].truncated /\ prior /\ d.class \in DOMAIN StateFor THEN [d EXCEPT !.class = "UNRESOLVED_CHANGE"] ELSE d
Classified(m, cue, how, order) ==
  LET Class(kind) == CASE how = "added" -> AddedClass(cue, kind)
                       [] how = "removed" -> RemovedClass(cue, kind)
                       [] how = "changed" -> ChangedClass(cue, kind)
  IN  [n \in DOMAIN order |-> Unresolved(m, Difference(Class(Topics[order[n]].kind), order[n], how = "removed"), how # "added")]
OrUnchanged(found) == IF found = <<>> THEN <<Difference("SEMANTICALLY_UNCHANGED", "", FALSE)>> ELSE found
ClassifyPairwise(l, p, m) ==
  LET before  == IF p = "" THEN {} ELSE Observed(l, p)
      after   == Observed(l, m)
      cue     == IF Known(l, "document", m) THEN Readings[m].cue ELSE ""
      changed == {k \in before \cap after : Value(<<p, k>>) # Value(<<m, k>>)}
  IN  OrUnchanged(Classified(m, cue, "added", Ordered(after \ before)) \o Classified(m, cue, "removed", Ordered(before \ after))
                  \o Classified(m, cue, "changed", Ordered(changed)))
Discovered(l, m) ==
  LET order == Ordered(Observed(l, m))
  IN  IF order = <<>> THEN <<Difference("HISTORICAL_STATE_DISCOVERED", "", FALSE)>>
      ELSE [n \in DOMAIN order |-> Difference("HISTORICAL_STATE_DISCOVERED", order[n], FALSE)]
Capped(found) ==
  IF Len(found) <= MaxRecords THEN found
  ELSE SubSeq(found, 1, MaxRecords) \o <<Difference("UNRESOLVED_CHANGE", "", FALSE)>>

(***************************************************************************)
(* Interpreting a pair.  What is recorded already is read at the start;    *)
(* the claims a change affects, just before it is appended.                *)
(***************************************************************************)
ChangeId(p, m, d) == <<p, m, d.class, d.topic>>
LastTold(l, id)  == Max(Versions(l, "change", id))
Affects(l, k)  == IF k # "" /\ Known(l, "claim", k) THEN {k} ELSE {}
RecordChange(l, id, gone) ==
  <<[type |-> "change", id |-> id, claims |-> Affects(l, id[4]),
     value |-> IF gone \/ id[4] = "" THEN "" ELSE Value(<<id[2], id[4]>>)],
    Step("recorded", id)>>
IsAlerted(id) == id[3] # "SEMANTICALLY_UNCHANGED"
RaiseAlerts(ids) == LET new == Only(ids, {n \in DOMAIN ids : IsAlerted(ids[n])})
                    IN [n \in DOMAIN new |-> [type |-> "alert", id |-> <<"semantic", new[n]>>]]
Interpretation(l, p, m, watched, found) ==
  LET ids == [n \in DOMAIN found |-> ChangeId(p, m, found[n])]
      old == {n \in DOMAIN found : Known(l, "change", ids[n])}
  IN  [n \in DOMAIN found |-> IF n \in old THEN Step("propagate", LastTold(l, ids[n])) ELSE Step("change", <<ids[n], found[n].gone>>)]
      \o (IF watched THEN RaiseAlerts(Only(ids, DOMAIN found \ old)) ELSE <<>>)
InterpretChange(l, p, m, watched) ==
  Interpretation(l, p, m, watched, Capped(IF p = "" /\ Readings[m].historical THEN Discovered(l, m) ELSE ClassifyPairwise(l, p, m)))

(* A change carries what it said when it was recorded, which another       *)
(* process may have done again since with what it knew.  A later change, a *)
(* later version or newer evidence stands above it.                        *)
Above(l, n, k) ==
  LET id == l[n].id  claim == Max(Versions(l, "claim", k))
  IN  \/ \E i \in Min(Versions(l, "change", id)) + 1 .. Len(l) :
           l[i].type = "change" /\ k \in l[i].claims /\ l[i].id[3] \in DOMAIN StateFor
      \/ claim > n
      \/ Readings[id[2]].time # 0 /\ LatestTime(l[claim].obs) > Readings[id[2]].time
(* Fault: the machine takes back what it may not judge. *)
MayMoveAlways(standing) == TRUE
MayMove(standing) == standing \in Bookkeeping
Propagated(l, n) ==
  LET change == l[n]  id == change.id
      Restate(k) == LET state == StateFor[id[3]] IN
        IF /\ state # "" /\ ~Above(l, n, k) /\ Current(l, "claim", k).value # change.value
           /\ MayMove(Standing(l, k)) /\ Standing(l, k) # state
        THEN <<SetStanding(k, state, id)>> ELSE <<>>
      claims == SetToSeq(change.claims)
  IN  IF id[3] \notin DOMAIN StateFor THEN <<>>
      ELSE Flat([i \in DOMAIN claims |-> Restate(claims[i]) \o <<Item(<<"change", claims[i], id>>, "OPEN")>>])

(* A pair that is interpreted already is only completed. *)
ChangesOf(l, p, m) ==
  Only([i \in DOMAIN l |-> i], {i \in DOMAIN l : l[i].type = "change" /\ l[i].id[1] = p /\ l[i].id[2] = m})
CompletePair(l, p, m, watched) ==
  LET all == ChangesOf(l, p, m)
  IN  [n \in DOMAIN all |-> Step("propagate", all[n])]
      \o (IF watched THEN RaiseAlerts([n \in DOMAIN all |-> l[all[n]].id]) ELSE <<>>)
Interpreted(l) == {<<l[i].id[1], l[i].id[2]>> : i \in {j \in DOMAIN l : l[j].type = "change"}}
(* Fault: what is interpreted is not completed. *)
PairOnce(l, p, m, seen, kept, bad, watched) ==
  IF seen THEN <<>> ELSE <<Process(m, bad), Step("interpret", <<p, m, watched>>)>>
Pair(l, p, m, seen, kept, bad, watched) ==
  IF seen THEN CompletePair(l, p, m, watched)
  ELSE (IF kept THEN <<Process(p, bad)>> ELSE <<>>)
       \o <<Process(m, bad), Step("interpret", <<IF kept THEN p ELSE "", m, watched>>)>>

ProcessFabricChanges(l, bad) ==
  LET all == Only(l, {i \in DOMAIN l : l[i].type = "fabric change" /\ l[i].failed = FALSE /\ Known(l, "manifestation", l[i].id[2])})
      Again(n) == all[n].id \in Interpreted(l) \/ \E i \in 1 .. n - 1 : all[i].id = all[n].id
  IN  [n \in DOMAIN all |-> Step("pair", <<all[n].id, Again(n), Known(l, "manifestation", all[n].id[1]), bad>>)]
InterpretDiscoveries(l, bad) ==
  LET came == Arrived(l)  all == Only(came, {n \in DOMAIN came : Readings[came[n]].historical})
  IN  [n \in DOMAIN all |-> Step("discovery", <<all[n], <<"", all[n]>> \in Interpreted(l), bad>>)]

(***************************************************************************)
(* Commands.                                                               *)
(***************************************************************************)
SemanticContinue(l, step) ==
  LET id == step.id IN
  CASE step.what = "manifestation" -> Normalize(l, id[1], id[2])
    [] step.what = "extract"    -> ExtractObservations(l, id)
    [] step.what = "integrate"  -> IntegrateDocument(l, id)
    [] step.what = "understood" -> ResolveFailure(l, id)
    [] step.what = "failed"     -> RecordFailure(l, id)
    [] step.what = "entity"     -> IntegrateEntity(l, id[1], id[2], id[3])
    [] step.what = "stub"       -> EnsureStub(l, id[1], id[2], id[3])
    [] step.what = "target"     -> EnsureStub(l, id[1], id[2], Topics[id[2]].other) \o <<Step("relate", id)>>
    [] step.what = "relate"     -> IntegrateRelation(l, id[1], id[2])
    [] step.what = "hearsay"    -> Hearsay(l, id[1], id[2])
    [] step.what = "claim"      -> IntegrateClaim(l, id)
    [] step.what = "standing"   -> EnsureStanding(l, id)
    [] step.what = "cross"      -> CrossScheme(l)
    [] step.what = "evaluate"   -> Evaluate(id, FALSE, FALSE) \o <<Ambiguity(id)>>
    [] step.what = "pair"       -> Pair(l, id[1][1], id[1][2], id[2], id[3], id[4], TRUE)
    [] step.what = "discovery"  -> Pair(l, "", id[1], id[2], FALSE, id[3], FALSE)
    [] step.what = "interpret"  -> InterpretChange(l, id[1], id[2], id[3])
    [] step.what = "change"     -> RecordChange(l, id[1], id[2])
    [] step.what = "propagate"  -> Propagated(l, id)
    [] step.what = "recorded"   -> Propagated(l, LastTold(l, id))
    [] OTHER -> AssociationContinue(l, step)

SemanticDo(c, events) == Do(SemanticContinue, c, events)
ProcessEvidence(c)   == Idle(c) /\ \E bad \in Retrievable : SemanticDo(c, ProcessNewEvidence(log, bad))
MonitorChanges(c)    == Idle(c) /\ \E bad \in Retrievable : SemanticDo(c, ProcessFabricChanges(log, bad))
DiscoverHistory(c)   == Idle(c) /\ \E bad \in Retrievable : SemanticDo(c, InterpretDiscoveries(log, bad))
ResolvePair(c) == Idle(c) /\ \E pair \in Proposed, r \in {"ACCEPTED", "REJECTED", "REVERSED"} :
                    SemanticDo(c, Resolve(pair, r, "HUMAN"))

(* A version that another process has taken is a failure to understand the *)
(* manifestation, which is recorded, and the pass goes on with the next.   *)
Understood(c) == {n \in DOMAIN todo[c] : todo[c][n].type = "step" /\ todo[c][n].what = "understood"}
Refuse(Continue(_, _), c) ==
  /\ Ready(c) /\ ~Fits(Head(todo[c])) /\ Understood(c) # {}
  /\ LET n == Min(Understood(c))
     IN  todo' = [todo EXCEPT ![c] = Ahead(Continue, log,
                    <<Step("failed", @[n].id)>> \o SubSeq(@, n + 1, Len(@)))]
  /\ UNCHANGED log

(***************************************************************************)
(* Properties.                                                             *)
(***************************************************************************)
NothingToDo(events) == Ahead(SemanticContinue, log, events) = <<>>
AllIdle  == \A c \in Calls : Idle(c)
Finished == AllIdle /\ NothingToDo(ProcessNewEvidence(log, {}))

(* A pass has nothing left to do only when everything that was retrieved   *)
(* is understood as far as it says something: observed, and either in the  *)
(* claim, older than what the claim rests on, said already by the same     *)
(* publisher, or before people as a contradiction.  What has failed too    *)
(* often is left.                                                          *)
Answered(m, k) ==
  LET all == {log[i] : i \in Versions(log, "claim", k)}  o == <<m, k>>
  IN  \E claim \in all :
        \/ o \in claim.obs
        \/ claim.value = Value(o) /\ Group(o) \in {Group(p) : p \in claim.obs}
        \/ claim.value # Value(o) /\ (Time(o) = 0 \/ \E p \in claim.obs : Time(p) = 0 \/ Time(p) >= Time(o))
        \/ Known(log, "item", <<"conflict", k, o>>)
EvidenceIsFinished == Finished =>
  \A m \in ToSet(Arrived(log)) : Attempts(log, m) < MaxAttempts =>
    \A k \in DOMAIN Readings[m].says :
      /\ k \in Observed(log, m)
      /\ Topics[k].kind \in Claimed => Answered(m, k)
      /\ Topics[k].kind = "EVENT" => Known(log, "activity", <<k, Value(<<m, k>>)>>)
      /\ Topics[k].kind = "RELATION" => Related(log, k, <<Topics[k].subject, Topics[k].other>>) = "ACTIVE"

(* In whatever order readings are found and processes meet, a claim takes  *)
(* another value only from a publisher it rests on, and only from a later  *)
(* state of it than any the claim rests on; and content that was cut off   *)
(* shows no removal: it lowers a claim only by a correction, and one that  *)
(* was read in it ("additions still count", changes.py, interpret_change). *)
OnlyEvidenceMoves ==
  /\ \A r \in Revisions("claim") : log[r[1]].value # log[r[2]].value =>
       /\ {Group(o) : o \in log[r[2]].obs} \subseteq {Group(o) : o \in log[r[1]].obs}
       /\ \A o \in log[r[1]].obs, p \in log[r[2]].obs : Time(p) > Time(o)
  /\ \A i \in Of("standing") :
       log[i].state \in {"CORRECTED", "RETRACTED", "STALE", "SUPERSEDED"} /\ Readings[log[i].cause[2]].truncated =>
         /\ log[i].state = "CORRECTED"
         /\ \E j \in Versions(log, "observation", <<log[i].cause[2], log[i].id>>) : j < i

(* The latest reading of a publisher that a claim rests on is not           *)
(* displaced by an earlier one.                                            *)
LatestReadingStands == Finished => \A k \in {log[i].id : i \in Of("claim")} :
  LET claim == Current(log, "claim", k)
      same  == {<<m, k>> : m \in {n \in ToSet(Arrived(log)) : k \in Observed(log, n) /\ Attempts(log, n) = 0}}
      of    == {o \in same : Group(o) \in Groups(claim)}
  IN  \A o \in of : Time(o) = LatestTime(of) /\ Time(o) # 0 => claim.value = Value(o)

(* What a person has to decide, the machine does not: a standing beyond    *)
(* its own bookkeeping is taken back only by what was on record before it, *)
(* a change or the claim's own advance, and that only if another process   *)
(* put it down meanwhile; and two objects are held to be the same on an    *)
(* asserted identifier only after a person has accepted it.                *)
Unjudged(l, i) == {j \in Versions(l, "standing", l[i].id) : j < i}
Stamped(i) ==
  LET before == Unjudged(log, i)
  IN  before # {} /\ log[i].state # "DISPUTED" /\ log[Max(before)].state \notin Bookkeeping
Grounds(i) == IF log[i].state = "CURRENT" THEN Versions(log, "claim", log[i].id) ELSE Versions(log, "change", log[i].cause)
PeopleDecide ==
  /\ \A i \in Of("standing") : Stamped(i) => \E j \in Grounds(i) : j < Max(Unjudged(log, i))
  /\ \A i \in Of("relation") : log[i].id[1] = "SAME_AS" /\ log[i].status = "ACTIVE" =>
       \E j \in 1 .. i - 1 : log[j].type = "resolution" /\ log[j].id = Tail(log[i].id)
                             /\ log[j].resolution = "ACCEPTED" /\ log[j].kind = "HUMAN"
NothingIsStamped == \A i \in Of("standing") : ~Stamped(i)

(* A pass over the changes has nothing left to do only when every change   *)
(* that touches a claim is before people, and every one of a watch has     *)
(* been alerted: whatever was cut off in between.                          *)
ChangesArrive ==
  AllIdle /\ NothingToDo(ProcessFabricChanges(log, {}) \o InterpretDiscoveries(log, {})) =>
    \A i \in Of("change") :
      /\ log[i].id[3] \in DOMAIN StateFor => \A k \in log[i].claims : Known(log, "item", <<"change", k, log[i].id>>)
      /\ log[i].id[1] # "" /\ log[i].id[3] # "SEMANTICALLY_UNCHANGED" => Known(log, "alert", <<"semantic", log[i].id>>)
=============================================================================
