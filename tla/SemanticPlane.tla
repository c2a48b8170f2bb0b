---------------------------- MODULE SemanticPlane ----------------------------
(***************************************************************************)
(* The semantic plane (pipeline.py, worldmodel.py, changes.py): what the   *)
(* fabric retrieves is normalized, read into observations and integrated   *)
(* into objects, relations, activities and claims; where two readings of   *)
(* one target differ, the difference is classified, carried to the claims  *)
(* it touches and put before people.  Every step is an append of its own,  *)
(* in one of several processes, and a pass begins again where it finds     *)
(* something missing.  What a manifestation says, and when it was so, is   *)
(* given; the time of a record is its place in the log.                    *)
(***************************************************************************)
EXTENDS Association

CONSTANTS
  Readings,    \* [manifestations -> group, time, historical, truncated, cue, says]
  Topics,      \* [what can be observed -> subject, kind, other]
  TopicOrder, SubjectOrder,  \* the orders in which a document is gone through
  MaxAttempts, \* failures in a row after which nothing is retried
  MaxRecords   \* differences that a pair is interpreted in one by one

ASSUME SemanticAssumption ==
  /\ MaxAttempts \in Nat \ {0} /\ MaxRecords \in Nat
  /\ \A m \in DOMAIN Readings : Readings[m].time \in Nat /\ DOMAIN Readings[m].says \subseteq DOMAIN Topics
  /\ TopicOrder \in Seq(DOMAIN Topics) /\ ToSet(TopicOrder) = DOMAIN Topics /\ "SAME_AS" \notin DOMAIN Topics
  /\ SubjectOrder \in Seq(ToSet(SubjectOrder)) /\ {Topics[k].subject : k \in DOMAIN Topics} \subseteq ToSet(SubjectOrder)

Attributes == {"NAME", "ATTRIBUTE", "IDENTIFIER"}
Claimed    == {"NAME", "STATEMENT", "ROLE"}
Value(o)   == Readings[o[1]].says[o[2]]
Group(o)   == Readings[o[1]].group
Time(o)    == Readings[o[1]].time
Ordered(topics) == Only(TopicOrder, {n \in DOMAIN TopicOrder : TopicOrder[n] \in topics})
Steps(what, m, topics) == LET order == Ordered(topics) IN [n \in DOMAIN order |-> Step(what, <<m, order[n]>>)]
Observed(l, m)  == {o[2] : o \in {p \in {l[i].id : i \in {j \in DOMAIN l : l[j].type = "observation"}} : p[1] = m}}

(***************************************************************************)
(* Failures of a manifestation, counted since it was last understood.      *)
(***************************************************************************)
Failure(m, status)  == [type |-> "failure", id |-> m, version |-> 1, status |-> status]
IsFailing(l, m)     == Known(l, "failure", m) /\ Current(l, "failure", m).status = "OPEN"
Attempts(l, m) ==
  LET all == Versions(l, "failure", m)
  IN  Cardinality({i \in all : \A j \in all : j >= i => l[j].status = "OPEN"})
RecordFailure(l, m)  == IF Attempts(l, m) >= MaxAttempts THEN <<>> ELSE <<Failure(m, "OPEN")>>
ResolveFailure(l, m) == IF IsFailing(l, m) THEN <<Failure(m, "RESOLVED")>> ELSE <<>>

(***************************************************************************)
(* Objects, relations and activities.                                      *)
(***************************************************************************)
Object(s, evidence) == [type |-> "object", id |-> s, version |-> 1, evidence |-> evidence]
Cited(l, s)         == UNION {l[i].evidence : i \in Versions(l, "object", s)}
IntegrateEntity(l, m, s, topics) ==
  IF Known(l, "object", s) /\ {m} \X topics \subseteq Cited(l, s) THEN <<>>
  ELSE <<Object(s, {m} \X topics)>> \o Steps("hearsay", m, {k \in topics : Topics[k].kind = "IDENTIFIER"})
EnsureStub(l, m, k, s) == IF Known(l, "object", s) THEN <<>> ELSE <<Object(s, {<<m, k>>})>>

Ambiguity(pair) == Item(<<"identity">> \o pair, "OPEN")
Hearsay(l, m, k) ==
  LET pair == <<Topics[k].subject, Topics[k].other>>
  IN  IF pair[1] = pair[2] \/ ~Known(l, "object", pair[2]) THEN <<>>
      ELSE Evaluate(pair, FALSE, FALSE) \o <<Ambiguity(pair)>>
IntegrateRelation(l, m, k) ==
  LET pair == <<Topics[k].subject, Topics[k].other>>  id == <<k>> \o pair
  IN  IF Related(l, k, pair) = "ACTIVE" /\ <<m, k>> \in Current(l, "relation", id).cites THEN <<>>
      ELSE <<Relation(k, pair, "ACTIVE", {<<m, k>>})>>
Activity(m, k) == [type |-> "activity", id |-> <<k, Value(<<m, k>>)>>]

(* Every two objects that share an identifier, once. *)
CrossScheme(l) ==
  LET objects == {l[i].id : i \in {j \in DOMAIN l : l[j].type = "object"}}
      known   == {l[i].id : i \in {j \in DOMAIN l : l[j].type = "proposal"}}
      Rank(s) == CHOOSE n \in DOMAIN SubjectOrder : SubjectOrder[n] = s
      new     == {p \in objects \X objects :
                    /\ Rank(p[1]) < Rank(p[2]) /\ Things[p[1]].refs \cap Things[p[2]].refs # {}
                    /\ {p, <<p[2], p[1]>>} \cap known = {}}
      again   == SetToSeq(known)  pairs == SetToSeq(new)
  IN  [n \in DOMAIN again |-> Ambiguity(again[n])] \o [n \in DOMAIN pairs |-> Step("evaluate", pairs[n])]

(***************************************************************************)
(* Claims: an observation starts one, adds a source to it, moves it on or  *)
(* contradicts it; only a newer state of a source that the claim rests on  *)
(* moves it on.                                                            *)
(***************************************************************************)
Claim(k, value, obs) == [type |-> "claim", id |-> k, version |-> 1, value |-> value, obs |-> obs]
Groups(claim)   == {Group(o) : o \in claim.obs}
LatestTime(obs) == Max({Time(o) : o \in obs})
Standing(l, k)  == IF Known(l, "standing", k) THEN Current(l, "standing", k).state ELSE "CURRENT"
SetStanding(k, state, cause) == [type |-> "standing", id |-> k, state |-> state, cause |-> cause]
Bookkeeping     == {"CURRENT", "STALE", "SUPERSEDED"}

OtherPublisher(claim, o) == Group(o) \notin Groups(claim)
(* Fault: the order in which readings are found decides. *)
NewerAlways(claim, o) == TRUE
Newer(claim, o) == Time(o) # 0 /\ LatestTime(claim.obs) # 0 /\ Time(o) > LatestTime(claim.obs)

Conflict(l, k, o) ==
  (IF Standing(l, k) = "DISPUTED" THEN <<>> ELSE <<SetStanding(k, "DISPUTED", o)>>) \o <<Item(<<"conflict", k, o>>, "OPEN")>>
LastAdvance(l, k, o) ==
  LET all == Versions(l, "claim", k)
      last == l[Max(all)]  before == l[Max(all \ {Max(all)})]
  IN  Cardinality(all) >= 2 /\ o \in last.obs \ before.obs /\ last.value # before.value
IntegrateClaim(l, o) ==
  LET k == o[2]  now == Current(l, "claim", k)
  IN  CASE ~Known(l, "claim", k) -> <<Claim(k, Value(o), {o})>>
        [] Known(l, "claim", k) /\ o \in UNION {l[i].obs : i \in Versions(l, "claim", k)}
             -> IF LastAdvance(l, k, o) THEN <<Step("standing", o)>> ELSE <<>>
        [] OTHER -> CASE now.value = Value(o) /\ Group(o) \in Groups(now) -> <<>>
                      [] now.value = Value(o) -> <<Claim(k, Value(o), now.obs \cup {o})>>
                      [] ~Newer(now, o) -> <<>>
                      [] OtherPublisher(now, o) -> Conflict(l, k, o)
                      [] OTHER -> <<Claim(k, Value(o), {o}), Step("standing", o)>>

(* What the machine has put down itself it clears when the claim moves on; *)
(* what it may not judge goes to a person.                                 *)
EnsureStanding(l, o) ==
  LET k == o[2]  claim == Max(Versions(l, "claim", k))
  IN  IF Known(l, "standing", k) /\ Max(Versions(l, "standing", k)) > claim THEN <<>>
      ELSE CASE Standing(l, k) = "CURRENT" -> <<>>
             [] Standing(l, k) \in Bookkeeping -> <<SetStanding(k, "CURRENT", o)>>
             [] OTHER -> <<Item(<<"moved", k, l[claim].version>>, "OPEN")>>

(***************************************************************************)
(* A manifestation: normalized, extracted and integrated subject by        *)
(* subject, what is recorded already being passed over.                    *)
(***************************************************************************)
Understand(m) == <<Step("extract", m), Step("integrate", m), Step("understood", m)>>
Normalize(l, m, readable) ==
  CASE Known(l, "document", m) -> Understand(m)
    [] readable -> <<[type |-> "document", id |-> m]>> \o Understand(m)
    [] OTHER    -> RecordFailure(l, m)
ExtractObservations(l, m) ==
  LET new == Ordered(DOMAIN Readings[m].says \ Observed(l, m))
  IN  [n \in DOMAIN new |-> [type |-> "observation", id |-> <<m, new[n]>>]]

IntegrateSubject(l, m, s) ==
  LET About(kinds) == {k \in Observed(l, m) : Topics[k].subject = s /\ Topics[k].kind \in kinds}
      anchors == Ordered(About({"RELATION"})) \o Ordered(About({"EVENT"})) \o Ordered(About({"STATEMENT", "ROLE"}))
      events  == Ordered({k \in About({"EVENT"}) : ~Known(l, "activity", <<k, Value(<<m, k>>)>>)})
  IN  (IF About(Attributes) # {} THEN <<Step("entity", <<m, s, About(Attributes)>>)>>
       ELSE IF anchors # <<>> THEN <<Step("stub", <<m, Head(anchors), s>>)>> ELSE <<>>)
      \o Steps("target", m, About({"RELATION"}))
      \o [n \in DOMAIN events |-> Activity(m, events[n])]
      \o Steps("claim", m, About({"NAME"})) \o Steps("claim", m, About({"STATEMENT", "ROLE"}))
IntegrateDocument(l, m) == Flat([n \in DOMAIN SubjectOrder |-> IntegrateSubject(l, m, SubjectOrder[n])])

(* A pass goes through what has no document or an open failure, unless it  *)
(* has failed too often.                                                   *)
Arrived(l) == LET all == Only(l, {i \in DOMAIN l : l[i].type = "manifestation"}) IN [n \in DOMAIN all |-> all[n].id]
(* Fault: a document is all that a pass looks for. *)
UnfinishedIfNew(l, m) == ~Known(l, "document", m) /\ Attempts(l, m) < MaxAttempts
Unfinished(l, m) == (Known(l, "document", m) => IsFailing(l, m)) /\ Attempts(l, m) < MaxAttempts
Process(m, bad)  == Step("manifestation", <<m, m \notin bad>>)
ProcessNewEvidence(l, bad) ==
  LET all == Arrived(l)  new == Only(all, {n \in DOMAIN all : Unfinished(l, all[n])})
  IN  [n \in DOMAIN new |-> Process(new[n], bad)] \o <<Step("cross", "")>>
=============================================================================
