------------------------------- MODULE Analogues -------------------------------
(***************************************************************************)
(* Historical analogues (analogues.py): episodes people have recorded, and *)
(* the ones a situation is like, by the actors they share, the kinds of    *)
(* events, and the order these came in.                                    *)
(***************************************************************************)
EXTENDS AnalyticPlane

CONSTANTS
  Episodes,    \* [episode -> [actors, types: sequence, setting: BOOLEAN]]
  Situations,  \* [situation -> [actors, types: sequence]]
  MinMatches

ASSUME AnaloguesAssumption == MinMatches \in Nat \ {0}

E == "episode"

RecordEpisode(l, e, claims) ==
  IF ~Known(l, E, e)
  THEN <<[type |-> E, id |-> e, version |-> 0, claims |-> claims], Ensure(e, "RECORDED", <<e>>)>>
  ELSE <<Ensure(e, "RECORDED", <<e>>)>>
       \o (IF claims \subseteq Current(l, E, e).claims THEN <<>>
           ELSE <<Step("add to episode", [was |-> Current(l, E, e), claims |-> claims])>>)
AddToEpisode(was, claims) ==
  <<[was EXCEPT !.claims = @ \cup claims], Transition(was.id, "EVIDENCE_UPDATED", <<"fold", claims \ was.claims>>)>>

(* The dimensions in which a situation is like an episode, and unlike it. *)
Like(q, e) ==
  LET s == Situations[q]  h == Episodes[e]
      shared == ToSet(s.types) \cap ToSet(h.types)
      InOrder(types) == SelectSeq(types, LAMBDA t : t \in shared)
  IN  (IF s.actors \cap h.actors # {} THEN {"ACTOR_CONFIGURATION"} ELSE {})
      \cup (IF shared # {} THEN {"EVENT_TYPE"} ELSE {})
      \cup (IF Cardinality(shared) >= 2 /\ InOrder(s.types) = InOrder(h.types) THEN {"TEMPORAL_SEQUENCE"} ELSE {})
Unlike(q, e) ==
  LET s == Situations[q]  h == Episodes[e]
      shared == ToSet(s.types) \cap ToSet(h.types)
      InOrder(types) == SelectSeq(types, LAMBDA t : t \in shared)
  IN  (IF s.actors \cap h.actors = {} THEN {"ACTOR_CONFIGURATION"} ELSE {})
      \cup (IF shared = {} /\ (s.types # <<>> \/ h.types # <<>>) THEN {"EVENT_TYPE"} ELSE {})
      \cup (IF Cardinality(shared) >= 2 /\ InOrder(s.types) # InOrder(h.types) THEN {"TEMPORAL_SEQUENCE"} ELSE {})
      \cup (IF h.setting THEN {"INSTITUTIONAL_SETTING"} ELSE {})

RetrieveAnalogues(l, q) ==
  LET near == SetToSeq({e \in DOMAIN Episodes : Known(l, E, e) /\ Cardinality(Like(q, e)) >= MinMatches})
  IN  [n \in DOMAIN near |-> Step("analogue", <<q, near[n]>>)]
Analogue(l, id) ==
  IF Known(l, "analogue", id) THEN <<>>
  ELSE <<[type |-> "analogue", id |-> id, version |-> 0, matched |-> Like(id[1], id[2]), mismatched |-> Unlike(id[1], id[2])],
         Transition(id[2], "RETRIEVED", <<"retrieved", id[1]>>)>>

(* What the two record types refuse is not in the log. *)
EpisodeContract(r)  == r.type = E => r.version >= 1 /\ r.claims # {}
AnalogueContract(r) == r.type = "analogue" => r.version = 1 /\ r.matched # {}

AnalogueSteps == {"add to episode", "analogue"}
AnalogueContinue(l, step) == IF step.what = "analogue" THEN Analogue(l, step.id) ELSE AddToEpisode(step.id.was, step.id.claims)

AnalogueDo(c, events) == Idle(c) /\ Do(AnalogueContinue, c, events)
Remember(c)      == \E e \in DOMAIN Episodes, claims \in (SUBSET Claims) \ {{}} : AnalogueDo(c, RecordEpisode(log, e, claims))
Compare(c)       == \E q \in DOMAIN Situations : AnalogueDo(c, RetrieveAnalogues(log, q))
AnalogueWrite(c) == WriteAnd(AnalogueContinue, c)

AnalogueNext == \E c \in Calls : Remember(c) \/ Compare(c) \/ AnalogueWrite(c) \/ GiveUp(c)
AnalogueSpec == CommandInit /\ [][AnalogueNext]_<<log, todo>>
=============================================================================
