------------------------------ MODULE WorkProofs ------------------------------
(***************************************************************************)
(* What holds of the two workflows of an operation for any number of       *)
(* people, services and commands, and of what MCWork composes of them: a   *)
(* behaviour of both is one of each, so that each keeps its theorems.      *)
(*                                                                         *)
(* Alerts, decisions and their effects: what a command decides rests on    *)
(* events that were in the log by then, and events stay; an object version *)
(* that fits was made from the newest one, because versions rise by one;   *)
(* and a transition that fits starts where the log has come to, because    *)
(* what came before a position never changes.                              *)
(*                                                                         *)
(* Requirements, requests and tasks, M of MCWork: a command decides one    *)
(* event, and what it found to decide it stays in the log.  A transition   *)
(* that fits starts where its subject stands; a requirement that fits was  *)
(* folded from the newest version; and a task is recorded once, so who it  *)
(* is assigned to is settled.                                              *)
(***************************************************************************)
EXTENDS MCWork, SequenceTheorems, TLAPS

-----------------------------------------------------------------------------
(***************************************************************************)
(* What an event rests on, as a fact about the first n events of a log.    *)
(***************************************************************************)
Before(l, n, type) == {i \in 1 .. n : l[i].type = type}

Succeeds(o, e) ==
  e.version = o.version + 1 /\ o.effects \subseteq e.effects /\ (o.conflicting => e.conflicting)

Pins(l, n, version) ==
  version # 0 => \E m \in Before(l, n, "object") : l[m].version = version

Authorizes(r, d) ==
  r.decision = d /\ r.actor \in Humans \cap Qualified /\ r.state \in Effective

Sound(l, n, e) ==
  /\ e.type = "transition" => Before(l, n, "alert") # {}
  /\ e.type = "object" =>
       /\ e.version # 0
       /\ e.state = "REPORTED" \/ \E i \in Before(l, n, "object") : Succeeds(l[i], e)
       /\ \A d \in e.effects : \E j \in Before(l, n, "decision") : Authorizes(l[j], d)
  /\ e.type = "recommendation" => Pins(l, n, e.pinned)
  /\ e.type = "decision" =>
       /\ e.actor \in Humans \cap Qualified
       /\ \E k \in Before(l, n, "recommendation") : l[k].pinned = e.pinned

LogSound  == \A i \in 1 .. Len(log) : Sound(log, i - 1, log[i])
TodoSound == \A c \in Calls : \A k \in 1 .. Len(todo[c]) : Sound(log, Len(log), todo[c][k])

HasNewest ==
  /\ Of("object") # {} => Newest(Of("object")) # {}
  /\ \A n \in 0 .. Len(log) : MovesTo(n) # {} => Newest(MovesTo(n)) # {}

(* What tells the newest version from all others of the object.            *)
VersionsRise == \A i, j \in Of("object") : i < j => log[i].version < log[j].version

(* The inductive invariant. *)
IInv ==
  /\ TypeOK /\ HasNewest /\ LogSound /\ TodoSound
  /\ RaisedOnce /\ VersionsRise /\ OnlyReportsReplace /\ MovesAreConnected

-----------------------------------------------------------------------------
(***************************************************************************)
(* Events stay.                                                            *)
(***************************************************************************)
(* What an event rests on is still there in every longer log. *)
LEMMA SoundStays ==
  ASSUME NEW l, NEW m, NEW n \in Nat, NEW k \in Nat, n <= k, \A i \in 1 .. n : m[i] = l[i],
         NEW e, Sound(l, n, e)
  PROVE  Sound(m, k, e)
<1>1. \A t : \A i \in Before(l, n, t) : i \in Before(m, k, t) /\ m[i] = l[i]
  BY DEF Before
<1>2. e.type = "transition" => Before(m, k, "alert") # {}
  BY <1>1 DEF Sound
<1>3. ASSUME e.type = "object"
      PROVE  /\ e.version # 0
             /\ e.state = "REPORTED" \/ \E i \in Before(m, k, "object") : Succeeds(m[i], e)
             /\ \A d \in e.effects : \E j \in Before(m, k, "decision") : Authorizes(m[j], d)
  <2>1. e.state = "REPORTED" \/ \E i \in Before(m, k, "object") : Succeeds(m[i], e)
    BY <1>1, <1>3 DEF Sound
  <2>2. \A d \in e.effects : \E j \in Before(m, k, "decision") : Authorizes(m[j], d)
    BY <1>1, <1>3 DEF Sound
  <2> QED  BY <1>3, <2>1, <2>2 DEF Sound
<1>4. e.type = "recommendation" => Pins(m, k, e.pinned)
  BY <1>1 DEF Sound, Pins
<1>5. e.type = "decision" =>
        /\ e.actor \in Humans \cap Qualified
        /\ \E i \in Before(m, k, "recommendation") : m[i].pinned = e.pinned
  BY <1>1 DEF Sound
<1> QED  BY <1>2, <1>3, <1>4, <1>5 DEF Sound

LEMMA AppendFacts ==
  ASSUME log \in Seq(Events), NEW e \in Events, log' = Append(log, e)
  PROVE  /\ Len(log) \in Nat /\ Len(log') = Len(log) + 1 /\ log' \in Seq(Events)
         /\ \A i \in 1 .. Len(log) : log'[i] = log[i]
         /\ log'[Len(log) + 1] = e
OBVIOUS

LEMMA SoundAfter ==
  ASSUME log \in Seq(Events), NEW e \in Events, log' = Append(log, e),
         NEW n \in 0 .. Len(log), NEW x, Sound(log, n, x)
  PROVE  Sound(log', n, x)
<1>1. n \in Nat /\ n <= n /\ \A i \in 1 .. n : log'[i] = log[i]
  BY AppendFacts
<1> QED  BY <1>1, SoundStays

LEMMA OfAfter ==
  ASSUME log \in Seq(Events), NEW e \in Events, log' = Append(log, e), NEW t
  PROVE  /\ \A i \in Of(t) : i \in Of(t)' /\ i \in Nat /\ 1 <= i /\ i <= Len(log) /\ log'[i] = log[i]
         /\ \A i \in Of(t)' : i \in Of(t) \/ (i = Len(log) + 1 /\ e.type = t)
         /\ e.type = t => Len(log) + 1 \in Of(t)'
         /\ e.type # t => Of(t)' = Of(t)
<1>1. Of(t) = {i \in 1 .. Len(log) : log[i].type = t} /\ Of(t)' = {i \in 1 .. Len(log') : log'[i].type = t}
  BY DEF Of
<1> QED  BY <1>1, AppendFacts

(* The status at a position is settled. *)
LEMMA StatusStays ==
  ASSUME log \in Seq(Events), HasNewest, NEW e \in Events, log' = Append(log, e), NEW n \in 0 .. Len(log)
  PROVE  MovesTo(n)' = MovesTo(n) /\ StatusAt(n)' = StatusAt(n)
<1>0. Len(log) \in Nat /\ n \in Nat /\ n <= Len(log)
  BY AppendFacts
<1>1. MovesTo(n)' = MovesTo(n)
  <2>1. \A i \in Of("transition") : i \in Of("transition")'
    BY OfAfter
  <2>2. \A i \in Of("transition")' : i <= n => i \in Of("transition")
    BY <1>0, OfAfter
  <2> QED  BY <2>1, <2>2 DEF MovesTo
<1>2. Newest(MovesTo(n))' = Newest(MovesTo(n))
  BY <1>1 DEF Newest
<1>3. CASE MovesTo(n) = {}
  BY <1>1, <1>3 DEF StatusAt
<1>4. CASE MovesTo(n) # {}
  <2> DEFINE j == CHOOSE i \in Newest(MovesTo(n)) : TRUE
  <2>1. j \in Newest(MovesTo(n))
    BY <1>4 DEF HasNewest
  <2>2. j \in Of("transition")
    BY <2>1 DEF Newest, MovesTo
  <2>3. log'[j] = log[j]
    BY <2>2, OfAfter
  <2>4. StatusAt(n) = log[j].to
    BY <1>4 DEF StatusAt
  <2>5. StatusAt(n)' = log'[CHOOSE i \in Newest(MovesTo(n))' : TRUE].to
    BY <1>1, <1>4 DEF StatusAt
  <2>6. (CHOOSE i \in Newest(MovesTo(n))' : TRUE) = j
    BY <1>2
  <2>7. StatusAt(n)' = log'[j].to
    BY <2>5, <2>6
  <2> HIDE DEF j
  <2> QED  BY <1>1, <2>3, <2>4, <2>7
<1> QED  BY <1>1, <1>3, <1>4

(* While the log stands, so does what is read from it. *)
LEMMA Unmoved ==
  ASSUME log' = log
  PROVE  /\ \A t : Of(t)' = Of(t)
         /\ \A n : MovesTo(n)' = MovesTo(n) /\ Newest(MovesTo(n))' = Newest(MovesTo(n)) /\ StatusAt(n)' = StatusAt(n)
<1>1. \A t : Of(t)' = Of(t)
  BY DEF Of
<1>2. ASSUME NEW n
      PROVE  MovesTo(n)' = MovesTo(n) /\ Newest(MovesTo(n))' = Newest(MovesTo(n)) /\ StatusAt(n)' = StatusAt(n)
  <2>1. MovesTo(n)' = MovesTo(n)
    BY <1>1 DEF MovesTo
  <2>2. Newest(MovesTo(n))' = Newest(MovesTo(n))
    BY <2>1 DEF Newest
  <2>3. (CHOOSE i \in Newest(MovesTo(n))' : TRUE) = (CHOOSE i \in Newest(MovesTo(n)) : TRUE)
    BY <2>2
  <2>4. StatusAt(n)' = IF MovesTo(n)' = {} THEN "OPEN" ELSE log'[CHOOSE i \in Newest(MovesTo(n))' : TRUE].to
    BY DEF StatusAt
  <2>5. StatusAt(n)' = StatusAt(n)
    BY <2>1, <2>3, <2>4 DEF StatusAt
  <2> QED  BY <2>1, <2>2, <2>5
<1> QED  BY <1>1, <1>2

LEMMA StatusTyped ==
  ASSUME log \in Seq(Events), HasNewest
  PROVE  Status \in AlertStatuses
<1> DEFINE n == Len(log)
<1>0. n \in 0 .. Len(log)
  OBVIOUS
<1>1. CASE MovesTo(n) = {}
  BY <1>1 DEF Status, StatusAt, AlertStatuses
<1>2. CASE MovesTo(n) # {}
  <2> DEFINE j == CHOOSE i \in Newest(MovesTo(n)) : TRUE
  <2>1. j \in Newest(MovesTo(n))
    BY <1>0, <1>2 DEF HasNewest
  <2>2. j \in 1 .. Len(log) /\ log[j].type = "transition"
    BY <2>1 DEF Newest, MovesTo, Of
  <2>3. log[j] \in Transitions
    BY <2>2 DEF Events, ObjectVersions, Recommendations, DecisionRecords
  <2>4. log[j].to \in AlertStatuses
    BY <2>3 DEF Transitions
  <2> QED  BY <1>2, <2>4 DEF Status, StatusAt
<1> QED  BY <1>1, <1>2

(* The object's current version is the newest one in the log. *)
LEMMA ObjectRecord ==
  ASSUME log \in Seq(Events), NEW o \in Object
  PROVE  o \in ObjectVersions /\ \E i \in Newest(Of("object")) : i \in Before(log, Len(log), "object") /\ log[i] = o
<1>1. PICK i \in Newest(Of("object")) : log[i] = o
  BY DEF Object
<1>2. i \in 1 .. Len(log) /\ log[i].type = "object"
  BY <1>1 DEF Newest, Of
<1>3. log[i] \in ObjectVersions
  BY <1>2 DEF Events, Transitions, Recommendations, DecisionRecords
<1> QED  BY <1>1, <1>2, <1>3 DEF Before

-----------------------------------------------------------------------------
(***************************************************************************)
(* What commands decide.                                                   *)
(***************************************************************************)
LEMMA OneEvent ==
  ASSUME NEW e \in Events, NEW l, NEW n, Sound(l, n, e)
  PROVE  <<e>> \in Seq(Events) /\ \A k \in 1 .. Len(<<e>>) : Sound(l, n, <<e>>[k])
<1>1. <<e>> \in Seq(Events) /\ Len(<<e>>) = 1 /\ <<e>>[1] = e
  OBVIOUS
<1> QED  BY <1>1

(* A version made from the current one keeps what that rested on. *)
LEMMA Remade ==
  ASSUME log \in Seq(Events), LogSound, NEW o \in Object, NEW e \in Events, e.type = "object", Succeeds(o, e),
         \A d \in e.effects \ o.effects : \E j \in Before(log, Len(log), "decision") : Authorizes(log[j], d)
  PROVE  Sound(log, Len(log), e)
<1>1. PICK i \in Newest(Of("object")) : i \in Before(log, Len(log), "object") /\ log[i] = o
  BY ObjectRecord
<1>2. i \in 1 .. Len(log) /\ i - 1 \in Nat /\ Len(log) \in Nat /\ i - 1 <= Len(log) /\ o.type = "object"
  BY <1>1 DEF Before
<1>3. Sound(log, i - 1, o)
  BY <1>1, <1>2 DEF LogSound
<1>4. Sound(log, Len(log), o)
  BY <1>2, <1>3, SoundStays
<1>5. \A d \in o.effects : \E j \in Before(log, Len(log), "decision") : Authorizes(log[j], d)
  BY <1>2, <1>4 DEF Sound
<1>6. \A d \in e.effects : \E j \in Before(log, Len(log), "decision") : Authorizes(log[j], d)
  BY <1>5
<1>7. e.version # 0
  BY ObjectRecord DEF Succeeds, ObjectVersions
<1> QED  BY <1>1, <1>6, <1>7 DEF Sound

LEMMA CommandSound ==
  ASSUME IInv, NEW c \in Calls, Command(c)
  PROVE  \E e \in Events : Sound(log, Len(log), e) /\ Decide(c, <<e>>)
<1>0. log \in Seq(Events) /\ HasNewest /\ LogSound /\ Humans \subseteq Actors /\ Services \subseteq Actors
  BY DEF IInv, TypeOK, Actors
<1>1. ASSUME NEW a \in Services, Raise(c, a)
      PROVE  \E e \in Events : Sound(log, Len(log), e) /\ Decide(c, <<e>>)
  <2>1. CASE Alert = {}
    <3> DEFINE e == [type |-> "alert"]
    <3>1. e \in Events /\ Sound(log, Len(log), e)
      BY DEF Events, Sound
    <3>2. Decide(c, <<e>>)
      BY <1>1, <2>1 DEF Raise
    <3> QED  BY <3>1, <3>2
  <2>2. CASE Alert # {}
    <3> DEFINE e == Retriggered(a)
    <3>1. e \in Events
      BY <1>0, StatusTyped DEF Retriggered, Events, Transitions
    <3>2. Sound(log, Len(log), e)
      BY <2>2 DEF Retriggered, Sound, Alert, Of, Before
    <3>3. Decide(c, <<e>>)
      BY <1>1, <2>2 DEF Raise
    <3> QED  BY <3>1, <3>2, <3>3
  <2> QED  BY <2>1, <2>2
<1>2. ASSUME NEW a \in Actors, NEW to \in Moves, Move(c, a, to)
      PROVE  \E e \in Events : Sound(log, Len(log), e) /\ Decide(c, <<e>>)
  <2> DEFINE e == [type |-> "transition", from |-> Status, to |-> to, actor |-> a, retrigger |-> FALSE]
  <2>1. e \in Events
    BY <1>0, StatusTyped, AlertConstants DEF Events, Transitions
  <2>2. Sound(log, Len(log), e)
    BY <1>2 DEF Move, Sound, Alert, Of, Before
  <2>3. Decide(c, <<e>>)
    BY <1>2 DEF Move
  <2> QED  BY <2>1, <2>2, <2>3
<1>3. ASSUME Dispute(c)
      PROVE  \E e \in Events : Sound(log, Len(log), e) /\ Decide(c, <<e>>)
  <2>1. PICK o \in Object :
          Decide(c, <<[o EXCEPT !.version = @ + 1, !.conflicting = TRUE, !.state = "DISPUTED"]>>)
    BY <1>3 DEF Dispute
  <2> DEFINE e == [o EXCEPT !.version = @ + 1, !.conflicting = TRUE, !.state = "DISPUTED"]
  <2>2. o \in ObjectVersions
    BY <1>0, ObjectRecord
  <2>3. e \in Events /\ e.type = "object" /\ Succeeds(o, e) /\ e.effects = o.effects
    <3> DEFINE next == [o EXCEPT !.version = @ + 1]
    <3>0. /\ next \in ObjectVersions /\ next.type = "object" /\ next.version = o.version + 1
          /\ next.effects = o.effects
      BY <2>2 DEF ObjectVersions
    <3>4. e = [next EXCEPT !.conflicting = TRUE, !.state = "DISPUTED"]
      OBVIOUS
    <3> HIDE DEF next, e
    <3>1. e = [type |-> "object", version |-> o.version + 1, effects |-> o.effects, conflicting |-> TRUE,
               state |-> "DISPUTED"]
      BY <3>0, <3>4 DEF ObjectVersions
    <3>2. o.version \in Nat /\ o.effects \subseteq Decisions
      BY <2>2 DEF ObjectVersions
    <3>3. e \in ObjectVersions
      BY <3>1, <3>2 DEF ObjectVersions
    <3> QED  BY <3>1, <3>3 DEF Events, Succeeds
  <2>4. Sound(log, Len(log), e)
    <3> HIDE DEF e
    <3> QED  BY <1>0, <2>3, Remade
  <2> QED  BY <2>1, <2>3, <2>4
<1>4. ASSUME Recommend(c)
      PROVE  \E e \in Events : Sound(log, Len(log), e) /\ Decide(c, <<e>>)
  <2>1. PICK p \in PinnedNow : Decide(c, <<[type |-> "recommendation", pinned |-> p]>>)
    BY <1>4 DEF Recommend
  <2>2. p \in Nat /\ Pins(log, Len(log), p)
    <3>1. CASE Object = {}
      BY <2>1, <3>1 DEF PinnedNow, Pins
    <3>2. CASE Object # {}
      <4>1. PICK o \in Object : p = o.version
        BY <2>1, <3>2 DEF PinnedNow
      <4> QED  BY <1>0, <4>1, ObjectRecord DEF Pins, ObjectVersions
    <3> QED  BY <3>1, <3>2
  <2> DEFINE e == [type |-> "recommendation", pinned |-> p]
  <2>3. e \in Events /\ Sound(log, Len(log), e)
    BY <2>2 DEF Events, Recommendations, Sound
  <2> QED  BY <2>1, <2>3
<1>5. ASSUME NEW a \in Actors, NEW d \in Decisions, NEW state \in Outcomes, DecideOn(c, a, d, state)
      PROVE  \E e \in Events : Sound(log, Len(log), e) /\ Decide(c, <<e>>)
  <2>1. PICK r \in Recommended :
          /\ a \in Humans \cap Qualified
          /\ Decide(c, <<[type |-> "decision", decision |-> d, actor |-> a, state |-> state, pinned |-> r.pinned]>>)
    BY <1>5 DEF DecideOn
  <2>2. PICK k \in 1 .. Len(log) : log[k] = r /\ log[k].type = "recommendation"
    BY <2>1 DEF Recommended, Newest, Of
  <2>3. r \in Recommendations
    BY <1>0, <2>2 DEF Events, Transitions, ObjectVersions, DecisionRecords
  <2>4. r.pinned \in Nat /\ state \in DecisionStates
    BY <2>3, AlertConstants DEF Recommendations
  <2> DEFINE e == [type |-> "decision", decision |-> d, actor |-> a, state |-> state, pinned |-> r.pinned]
  <2>5. e \in Events
    BY <2>4 DEF Events, DecisionRecords
  <2>6. Sound(log, Len(log), e)
    BY <2>1, <2>2 DEF Sound, Before
  <2> QED  BY <2>1, <2>5, <2>6
<1>6. ASSUME NEW d \in Decisions, Enact(c, d)
      PROVE  \E e \in Events : Sound(log, Len(log), e) /\ Decide(c, <<e>>)
  <2>1. PICK r \in DecidedAs(d), o \in Object :
          /\ r.state \in Effective
          /\ Decide(c, <<[o EXCEPT !.version = @ + 1, !.effects = @ \cup {d}, !.state = "INFERRED"]>>)
    BY <1>6 DEF Enact
  <2>2. PICK j \in 1 .. Len(log) : log[j] = r /\ log[j].type = "decision" /\ log[j].decision = d
    BY <2>1 DEF DecidedAs, Of
  <2>3. j \in Before(log, Len(log), "decision") /\ Authorizes(log[j], d)
    <3>1. Sound(log, j - 1, r)
      BY <1>0, <2>2 DEF LogSound
    <3>2. r.actor \in Humans \cap Qualified
      BY <2>2, <3>1 DEF Sound
    <3> QED  BY <2>1, <2>2, <3>2 DEF Before, Authorizes
  <2> DEFINE e == [o EXCEPT !.version = @ + 1, !.effects = @ \cup {d}, !.state = "INFERRED"]
  <2>4. o \in ObjectVersions
    BY <1>0, ObjectRecord
  <2>5. e \in Events /\ e.type = "object" /\ Succeeds(o, e) /\ e.effects = o.effects \cup {d}
    <3> DEFINE next == [o EXCEPT !.version = @ + 1]
    <3>0. /\ next \in ObjectVersions /\ next.type = "object" /\ next.version = o.version + 1
          /\ next.effects = o.effects /\ next.conflicting = o.conflicting
      BY <2>4 DEF ObjectVersions
    <3>4. e = [next EXCEPT !.effects = o.effects \cup {d}, !.state = "INFERRED"]
      BY <3>0
    <3> HIDE DEF next, e
    <3>1. e = [type |-> "object", version |-> o.version + 1, effects |-> o.effects \cup {d},
               conflicting |-> o.conflicting, state |-> "INFERRED"]
      BY <3>0, <3>4 DEF ObjectVersions
    <3>2. o.version \in Nat /\ o.effects \subseteq Decisions /\ o.conflicting \in BOOLEAN
      BY <2>4 DEF ObjectVersions
    <3>3. e \in ObjectVersions
      BY <3>1, <3>2 DEF ObjectVersions
    <3> QED  BY <3>1, <3>3 DEF Events, Succeeds
  <2>6. Sound(log, Len(log), e)
    <3> HIDE DEF e
    <3> QED  BY <1>0, <2>3, <2>5, Remade
  <2> QED  BY <2>1, <2>5, <2>6
<1>7. ASSUME Report(c)
      PROVE  \E e \in Events : Sound(log, Len(log), e) /\ Decide(c, <<e>>)
  <2>1. PICK version \in PinnedNow :
          Decide(c, <<[type |-> "object", version |-> version + 1, effects |-> {}, conflicting |-> FALSE,
                       state |-> "REPORTED"]>>)
    BY <1>7 DEF Report
  <2>2. version \in Nat
    BY <1>0, <2>1, ObjectRecord DEF PinnedNow, ObjectVersions
  <2> DEFINE e == [type |-> "object", version |-> version + 1, effects |-> {}, conflicting |-> FALSE,
                   state |-> "REPORTED"]
  <2>3. e \in Events /\ Sound(log, Len(log), e)
    BY <2>2 DEF Events, ObjectVersions, Sound
  <2> QED  BY <2>1, <2>3
<1> QED  BY <1>1, <1>2, <1>3, <1>4, <1>5, <1>6, <1>7 DEF Command

-----------------------------------------------------------------------------
(***************************************************************************)
(* The inductive invariant is kept.                                        *)
(***************************************************************************)
LEMMA InitKeeps == Init => IInv
<1> SUFFICES ASSUME Init PROVE IInv
  OBVIOUS
<1>1. log = <<>> /\ Len(log) = 0 /\ log \in Seq(Events)
  BY DEF Init, CommandInit
<1>2. \A t : Of(t) = {}
  BY <1>1 DEF Of
<1>3. todo \in [Calls -> Seq(Events)] /\ \A c \in Calls : Len(todo[c]) = 0
  BY DEF Init, CommandInit
<1>4. TypeOK
  BY <1>1, <1>3 DEF TypeOK
<1>5. HasNewest
  BY <1>2 DEF HasNewest, MovesTo
<1>6. LogSound /\ TodoSound
  BY <1>1, <1>3 DEF LogSound, TodoSound
<1>7. RaisedOnce /\ VersionsRise /\ OnlyReportsReplace /\ MovesAreConnected
  BY <1>2 DEF RaisedOnce, VersionsRise, OnlyReportsReplace, MovesAreConnected, Alert
<1> QED  BY <1>4, <1>5, <1>6, <1>7 DEF IInv

(* A decision, or the end of a command, leaves the log as it is. *)
LEMMA TodoKeeps ==
  ASSUME IInv, NEW c \in Calls, NEW events \in Seq(Events), log' = log, todo' = [todo EXCEPT ![c] = events],
         \A k \in 1 .. Len(events) : Sound(log, Len(log), events[k])
  PROVE  IInv'
<1>1. TypeOK'
  BY DEF IInv, TypeOK
<1>2. \A t : Of(t)' = Of(t)
  BY Unmoved
<1>3. \A n : MovesTo(n)' = MovesTo(n) /\ StatusAt(n)' = StatusAt(n)
  BY Unmoved
<1>4. HasNewest'
  BY <1>2, <1>3 DEF IInv, HasNewest, Newest
<1>5. LogSound'
  BY DEF IInv, LogSound
<1>6. RaisedOnce' /\ VersionsRise' /\ OnlyReportsReplace' /\ MovesAreConnected'
  BY <1>2, <1>3 DEF IInv, RaisedOnce, VersionsRise, OnlyReportsReplace, MovesAreConnected, Alert
<1>7. TodoSound'
  <2>1. SUFFICES ASSUME NEW x \in Calls, NEW k \in 1 .. Len(todo'[x])
                 PROVE  Sound(log, Len(log), todo'[x][k])
    BY DEF TodoSound
  <2>2. CASE x = c
    <3>1. todo'[x] = events
      BY <2>2 DEF IInv, TypeOK
    <3> QED  BY <2>1, <3>1
  <2>3. CASE x # c
    <3>1. todo'[x] = todo[x]
      BY <2>3 DEF IInv, TypeOK
    <3> QED  BY <2>1, <3>1 DEF IInv, TodoSound
  <2> QED  BY <2>2, <2>3
<1> QED  BY <1>1, <1>4, <1>5, <1>6, <1>7 DEF IInv

(* The next event arrives, and what it was decided on still stands. *)
LEMMA AppendKeeps ==
  ASSUME IInv, NEW e \in Events, Sound(log, Len(log), e), Fits(e), log' = Append(log, e)
  PROVE  HasNewest' /\ LogSound' /\ RaisedOnce' /\ VersionsRise' /\ OnlyReportsReplace' /\ MovesAreConnected'
<1> DEFINE n == Len(log) + 1
<1>0. /\ log \in Seq(Events) /\ Len(log) \in Nat /\ n \in Nat /\ Len(log') = n
      /\ log'[n] = e /\ \A i \in 1 .. Len(log) : log'[i] = log[i]
  BY AppendFacts DEF IInv, TypeOK
<1>1. ASSUME NEW t, NEW i \in Of(t)'
      PROVE  (i \in Of(t) /\ i < n /\ i \in Nat /\ 1 <= i /\ log'[i] = log[i]) \/ (i = n /\ e.type = t)
  <2>1. i \in Of(t) \/ (i = n /\ e.type = t)
    BY <1>0, OfAfter
  <2>2. i \in Of(t) => i < n /\ i \in Nat /\ 1 <= i /\ log'[i] = log[i]
    BY <1>0, OfAfter
  <2> QED  BY <2>1, <2>2
<1>2. ASSUME NEW t, NEW i \in Of(t)
      PROVE  i \in Of(t)' /\ i < n /\ i \in Nat /\ 1 <= i /\ log'[i] = log[i]
  BY <1>0, OfAfter
<1>3. HasNewest'
  <2>1. Of("object")' # {} => \E m \in Of("object")' : \A j \in Of("object")' : j <= m
    <3>1. CASE e.type = "object"
      <4>1. n \in Of("object")'
        BY <1>0, <3>1, OfAfter
      <4>2. \A j \in Of("object")' : j <= n
        BY <1>0, <1>1
      <4> QED  BY <4>1, <4>2
    <3>2. CASE e.type # "object"
      BY <1>0, <3>2, OfAfter DEF IInv, HasNewest, Newest
    <3> QED  BY <3>1, <3>2
  <2>2. ASSUME NEW k \in 0 .. n, MovesTo(k)' # {}
        PROVE  \E m \in MovesTo(k)' : \A j \in MovesTo(k)' : j <= m
    <3>1. CASE k \in 0 .. Len(log)
      <4>1. MovesTo(k)' = MovesTo(k)
        BY <1>0, <3>1, StatusStays DEF IInv
      <4> QED  BY <2>2, <3>1, <4>1 DEF IInv, HasNewest, Newest
    <3>2. CASE k = n /\ e.type = "transition"
      <4>1. n \in MovesTo(k)'
        BY <1>0, <3>2, OfAfter DEF MovesTo
      <4>2. \A j \in MovesTo(k)' : j <= n
        BY <3>2 DEF MovesTo
      <4> QED  BY <4>1, <4>2
    <3>3. CASE k = n /\ e.type # "transition"
      <4>1. MovesTo(k)' = MovesTo(Len(log))
        <5>1. Of("transition")' = Of("transition")
          BY <1>0, <3>3, OfAfter
        <5>2. \A i \in Of("transition") : i <= n /\ i <= Len(log)
          BY <1>0, <1>2
        <5> QED  BY <3>3, <5>1, <5>2 DEF MovesTo
      <4>2. Len(log) \in 0 .. Len(log)
        BY <1>0
      <4> QED  BY <2>2, <4>1, <4>2 DEF IInv, HasNewest, Newest
    <3> QED  BY <1>0, <3>1, <3>2, <3>3
  <2> QED  BY <1>0, <2>1, <2>2 DEF HasNewest, Newest
<1>4. LogSound'
  <2>1. SUFFICES ASSUME NEW i \in 1 .. n PROVE Sound(log', i - 1, log'[i])
    BY <1>0 DEF LogSound
  <2>2. CASE i = n
    <3>1. i - 1 = Len(log)
      BY <1>0, <2>2
    <3>2. Sound(log', Len(log), e)
      BY <1>0, SoundAfter
    <3> QED  BY <1>0, <2>2, <3>1, <3>2
  <2>3. CASE i # n
    <3>1. i \in 1 .. Len(log)
      BY <1>0, <2>1, <2>3
    <3>2. Sound(log, i - 1, log[i])
      BY <3>1 DEF IInv, LogSound
    <3>3. i - 1 \in 0 .. Len(log)
      BY <1>0, <3>1
    <3>4. Sound(log', i - 1, log[i])
      BY <1>0, <3>2, <3>3, SoundAfter
    <3> QED  BY <1>0, <3>1, <3>4
  <2> QED  BY <2>2, <2>3
<1>5. RaisedOnce'
  <2>1. SUFFICES ASSUME NEW i \in Of("transition")' \cup Of("alert")'
                 PROVE  \E j \in Of("alert")' : j <= i /\ \A k \in Of("alert")' : k = j
    BY DEF RaisedOnce, Alert
  <2>2. CASE Of("alert") = {}
    <3>1. ~(e.type = "transition") /\ Of("transition") = {}
      BY <2>2 DEF Sound, Before, Of, IInv, RaisedOnce, Alert
    <3>2. \A k \in Of("alert")' : k = n
      BY <1>1, <2>2
    <3>3. Of("transition")' = {}
      BY <1>1, <3>1
    <3>4. i \in Of("alert")' /\ i = n
      BY <2>1, <3>2, <3>3
    <3> QED  BY <1>0, <3>2, <3>4
  <2>3. CASE Of("alert") # {}
    <3>1. e.type # "alert"
      BY <2>3 DEF Fits, Alert
    <3>2. Of("alert")' = Of("alert")
      BY <1>0, <3>1, OfAfter
    <3>3. PICK j \in Of("alert") : \A k \in Of("alert") : k = j
      BY <2>3 DEF IInv, RaisedOnce, Alert
    <3>4. j <= i
      <4>1. CASE i = n
        BY <1>0, <1>2, <4>1
      <4>2. CASE i # n
        <5>1. i \in Of("transition") \cup Of("alert")
          BY <1>1, <2>1, <4>2
        <5> QED  BY <3>3, <5>1 DEF IInv, RaisedOnce, Alert
      <4> QED  BY <4>1, <4>2
    <3> QED  BY <3>2, <3>3, <3>4
  <2> QED  BY <2>2, <2>3
<1>6. VersionsRise' /\ OnlyReportsReplace'
  <2>1. SUFFICES ASSUME NEW i \in Of("object")', NEW j \in Of("object")', i < j
                 PROVE  /\ log'[i].version < log'[j].version
                        /\ \/ \E k \in Of("object")' : i < k /\ k <= j /\ log'[k].state = "REPORTED"
                           \/ log'[i].effects \subseteq log'[j].effects /\ (log'[i].conflicting => log'[j].conflicting)
    BY DEF VersionsRise, OnlyReportsReplace
  <2>2. i \in Of("object") /\ log'[i] = log[i]
    <3>1. i # n
      BY <1>0, <1>1, <2>1
    <3> QED  BY <1>1, <3>1
  <2>3. CASE j # n
    <3>1. j \in Of("object") /\ log'[j] = log[j]
      BY <1>1, <2>3
    <3>2. \A k \in Of("object") : k \in Of("object")' /\ log'[k] = log[k]
      BY <1>2
    <3>3. log[i].version < log[j].version
      BY <2>1, <2>2, <3>1 DEF IInv, VersionsRise
    <3>4. \/ \E k \in Of("object") : i < k /\ k <= j /\ log[k].state = "REPORTED"
          \/ log[i].effects \subseteq log[j].effects /\ (log[i].conflicting => log[j].conflicting)
      BY <2>1, <2>2, <3>1 DEF IInv, OnlyReportsReplace
    <3>5. CASE \E k \in Of("object") : i < k /\ k <= j /\ log[k].state = "REPORTED"
      BY <2>2, <3>1, <3>2, <3>3, <3>5
    <3> QED  BY <2>2, <3>1, <3>3, <3>4, <3>5
  <2>4. CASE j = n
    <3>0. e.type = "object" /\ log'[j] = e
      BY <1>0, <1>1, <2>4
    <3>1. PICK m \in Newest(Of("object")) : TRUE
      BY <2>2 DEF IInv, HasNewest
    <3>2. m \in Of("object") /\ i <= m /\ log[m] \in Object
      BY <2>2, <3>1 DEF Newest, Object
    <3>3. \A k \in Of("object") : log[k] \in ObjectVersions /\ k \in Nat /\ k <= m
      BY <1>0, <1>2, <3>1 DEF Of, Newest, Events, Transitions, Recommendations, DecisionRecords
    <3>4. e.version = log[m].version + 1
      BY <3>0, <3>2 DEF Fits, NextAfter
    <3>5. log[m].version \in Nat /\ log[i].version \in Nat
      BY <2>2, <3>2, <3>3 DEF ObjectVersions
    <3>6. log[i].version <= log[m].version
      <4>1. CASE i = m
        BY <3>5, <4>1
      <4>2. CASE i # m
        <5>1. i < m
          BY <2>2, <3>2, <3>3, <4>2
        <5>2. log[i].version < log[m].version
          BY <2>2, <3>2, <5>1 DEF IInv, VersionsRise
        <5> QED  BY <3>5, <5>2
      <4> QED  BY <4>1, <4>2
    <3>7. log[i].version < e.version
      BY <3>4, <3>5, <3>6
    <3>8. CASE e.state = "REPORTED"
      <4>1. j <= j
        BY <1>0, <2>4
      <4> QED  BY <2>1, <2>2, <3>0, <3>7, <3>8, <4>1
    <3>9. CASE e.state # "REPORTED"
      <4>1. Succeeds(log[m], e)
        <5>1. PICK k \in Before(log, Len(log), "object") : Succeeds(log[k], e)
          BY <3>0, <3>9 DEF Sound
        <5>2. k \in Of("object") /\ log[k].version \in Nat
          <6>1. k \in Of("object")
            BY <5>1 DEF Before, Of
          <6> QED  BY <3>3, <6>1 DEF ObjectVersions
        <5>3. log[k].version = log[m].version
          <6> DEFINE vk == log[k].version
                     vm == log[m].version
                     ve == e.version
          <6>1. vk \in Nat /\ vm \in Nat /\ ve = vk + 1 /\ ve = vm + 1
            BY <3>4, <3>5, <5>1, <5>2 DEF Succeeds
          <6> HIDE DEF vk, vm, ve
          <6>2. vk = vm
            BY <6>1
          <6> QED  BY <6>2 DEF vk, vm
        <5>4. k = m
          <6>1. k < m => log[k].version < log[m].version
            BY <3>2, <5>2 DEF IInv, VersionsRise
          <6>2. k \in Nat /\ m \in Nat /\ k <= m
            BY <3>2, <3>3, <5>2
          <6>3. ~ (k < m)
            BY <3>5, <5>3, <6>1
          <6> QED  BY <6>2, <6>3
        <5> QED  BY <5>1, <5>4
      <4>2. \/ \E k \in Of("object") : i < k /\ k <= m /\ log[k].state = "REPORTED"
            \/ log[i].effects \subseteq log[m].effects /\ (log[i].conflicting => log[m].conflicting)
        <5>1. i = m \/ i < m
          BY <2>2, <3>2, <3>3
        <5> QED  BY <2>2, <3>2, <5>1 DEF IInv, OnlyReportsReplace
      <4>3. CASE \E k \in Of("object") : i < k /\ k <= m /\ log[k].state = "REPORTED"
        <5>1. PICK k \in Of("object") : i < k /\ k <= m /\ log[k].state = "REPORTED"
          BY <4>3
        <5>2. k \in Of("object")' /\ k < n /\ log'[k] = log[k] /\ k \in Nat
          BY <1>2
        <5>3. k <= j
          BY <1>0, <2>4, <5>2
        <5> QED  BY <2>2, <3>0, <3>7, <5>1, <5>2, <5>3
      <4>4. CASE log[i].effects \subseteq log[m].effects /\ (log[i].conflicting => log[m].conflicting)
        <5>1. log[i].effects \subseteq e.effects /\ (log[i].conflicting => e.conflicting)
          BY <4>1, <4>4 DEF Succeeds
        <5> QED  BY <2>2, <3>0, <3>7, <5>1
      <4> QED  BY <4>2, <4>3, <4>4
    <3> QED  BY <3>8, <3>9
  <2> QED  BY <2>3, <2>4
<1>7. MovesAreConnected'
  <2>1. SUFFICES ASSUME NEW i \in Of("transition")', ~log'[i].retrigger
                 PROVE  log'[i].from = StatusAt(i - 1)'
    BY DEF MovesAreConnected
  <2>2. CASE i = n
    <3>1. e.type = "transition" /\ log'[i] = e
      BY <1>0, <1>1, <2>2
    <3>2. e.from = StatusAt(Len(log))
      BY <2>1, <3>1 DEF Fits, Status
    <3>3. i - 1 = Len(log) /\ i - 1 \in 0 .. Len(log)
      BY <1>0, <2>2
    <3>4. StatusAt(i - 1)' = StatusAt(i - 1)
      BY <1>0, <3>3, StatusStays DEF IInv
    <3> QED  BY <3>1, <3>2, <3>3, <3>4
  <2>3. CASE i # n
    <3>1. i \in Of("transition") /\ log'[i] = log[i] /\ i - 1 \in 0 .. Len(log)
      BY <1>0, <1>1, <2>3
    <3>2. StatusAt(i - 1)' = StatusAt(i - 1)
      BY <1>0, <3>1, StatusStays DEF IInv
    <3> QED  BY <2>1, <3>1, <3>2 DEF IInv, MovesAreConnected
  <2> QED  BY <2>2, <2>3
<1> QED  BY <1>3, <1>4, <1>5, <1>6, <1>7

(* What was decided stays sound when any event arrives. *)
LEMMA TodoStays ==
  ASSUME IInv, NEW e \in Events, log' = Append(log, e), NEW events,
         \A k \in 1 .. Len(events) : Sound(log, Len(log), events[k])
  PROVE  \A k \in 1 .. Len(events) : Sound(log', Len(log'), events[k])
<1>1. /\ log \in Seq(Events) /\ Len(log) \in Nat /\ Len(log') \in Nat /\ Len(log) <= Len(log')
      /\ \A i \in 1 .. Len(log) : log'[i] = log[i]
  BY AppendFacts DEF IInv, TypeOK
<1> QED  BY <1>1, SoundStays

LEMMA WriteKeeps ==
  ASSUME IInv, NEW c \in Calls, Write(c)
  PROVE  IInv'
<1> DEFINE e == Head(todo[c])
           rest == Tail(todo[c])
<1>1. /\ todo[c] \in Seq(Events) /\ e \in Events /\ e = todo[c][1] /\ rest \in Seq(Events)
      /\ Len(todo[c]) \in Nat /\ Len(todo[c]) >= 1 /\ Len(rest) = Len(todo[c]) - 1
      /\ \A k \in 1 .. Len(todo[c]) - 1 : rest[k] = todo[c][k + 1]
  BY DEF IInv, TypeOK, Write, Ready
<1>2. /\ log \in Seq(Events) /\ log' = Append(log, e) /\ Fits(e) /\ todo' = [todo EXCEPT ![c] = rest]
      /\ todo \in [Calls -> Seq(Events)]
  BY DEF IInv, TypeOK, Write, WriteNext
<1>3. \A x \in Calls : \A k \in 1 .. Len(todo[x]) : Sound(log, Len(log), todo[x][k])
  BY DEF IInv, TodoSound
<1> HIDE DEF e, rest
<1>4. TypeOK'
  BY <1>1, <1>2, AppendFacts DEF TypeOK
<1>5. Sound(log, Len(log), e)
  BY <1>1, <1>3
<1>6. HasNewest' /\ LogSound' /\ RaisedOnce' /\ VersionsRise' /\ OnlyReportsReplace' /\ MovesAreConnected'
  BY <1>1, <1>2, <1>5, AppendKeeps
<1>7. TodoSound'
  <2>1. \A k \in 1 .. Len(rest) : Sound(log, Len(log), rest[k])
    <3>1. \A k \in 1 .. Len(rest) : k + 1 \in 1 .. Len(todo[c]) /\ rest[k] = todo[c][k + 1]
      BY <1>1
    <3> QED  BY <1>3, <3>1
  <2>2. \A k \in 1 .. Len(rest) : Sound(log', Len(log'), rest[k])
    BY <1>1, <1>2, <2>1, TodoStays
  <2>3. SUFFICES ASSUME NEW x \in Calls PROVE \A k \in 1 .. Len(todo'[x]) : Sound(log', Len(log'), todo'[x][k])
    BY DEF TodoSound
  <2>4. CASE x = c
    BY <1>2, <2>2, <2>4
  <2>5. CASE x # c
    <3>1. todo'[x] = todo[x]
      BY <1>2, <2>5
    <3>2. \A k \in 1 .. Len(todo[x]) : Sound(log', Len(log'), todo[x][k])
      BY <1>1, <1>2, <1>3, TodoStays
    <3> QED  BY <3>1, <3>2
  <2> QED  BY <2>4, <2>5
<1> QED  BY <1>4, <1>6, <1>7 DEF IInv

LEMMA NextKeeps == IInv /\ [Next]_vars => IInv'
<1> SUFFICES ASSUME IInv, [Next]_vars PROVE IInv'
  OBVIOUS
<1>0. todo \in [Calls -> Seq(Events)] /\ log \in Seq(Events)
  BY DEF IInv, TypeOK
<1>1. ASSUME NEW c \in Calls, Command(c) PROVE IInv'
  <2>1. PICK e \in Events : Sound(log, Len(log), e) /\ Decide(c, <<e>>)
    BY <1>1, CommandSound
  <2>2. <<e>> \in Seq(Events) /\ \A k \in 1 .. Len(<<e>>) : Sound(log, Len(log), <<e>>[k])
    BY <2>1, OneEvent
  <2>3. log' = log /\ todo' = [todo EXCEPT ![c] = <<e>>]
    BY <2>1 DEF Decide
  <2> QED  BY <2>2, <2>3, TodoKeeps
<1>2. ASSUME NEW c \in Calls, Write(c) PROVE IInv'
  BY <1>2, WriteKeeps
<1>3. ASSUME NEW c \in Calls, NEW a \in Services, RaisedElsewhere(c, a) PROVE IInv'
  <2> DEFINE e == Retriggered(a)
  <2>1. e \in Events
    BY <1>0, StatusTyped DEF Retriggered, Events, Transitions, Actors, IInv
  <2>2. Sound(log, Len(log), e)
    BY <1>3 DEF RaisedElsewhere, Retriggered, Sound, Alert, Of, Before
  <2>3. log' = log /\ todo' = [todo EXCEPT ![c] = <<e>>]
    BY <1>3 DEF RaisedElsewhere
  <2> HIDE DEF e
  <2>4. <<e>> \in Seq(Events) /\ \A k \in 1 .. Len(<<e>>) : Sound(log, Len(log), <<e>>[k])
    BY <2>1, <2>2, OneEvent
  <2> QED  BY <2>3, <2>4, TodoKeeps
<1>4. ASSUME NEW c \in Calls, GiveUp(c) PROVE IInv'
  <2>1. log' = log /\ todo' = [todo EXCEPT ![c] = <<>>]
    BY <1>4 DEF GiveUp
  <2>2. <<>> \in Seq(Events) /\ Len(<<>>) = 0
    OBVIOUS
  <2>3. \A k \in 1 .. Len(<<>>) : Sound(log, Len(log), <<>>[k])
    BY <2>2
  <2> QED  BY <2>1, <2>2, <2>3, TodoKeeps
<1>5. CASE UNCHANGED vars
  <2>1. log' = log /\ todo' = todo
    BY <1>5 DEF vars
  <2>2. \A t : Of(t)' = Of(t)
    BY <2>1, Unmoved
  <2>3. \A n : MovesTo(n)' = MovesTo(n) /\ Newest(MovesTo(n))' = Newest(MovesTo(n))
    BY <2>1, Unmoved
  <2>5. \A n : StatusAt(n)' = StatusAt(n)
    BY <2>1, Unmoved
  <2>6. HasNewest'
    BY <2>1, <2>2, <2>3 DEF IInv, HasNewest, Newest
  <2>7. RaisedOnce' /\ VersionsRise' /\ OnlyReportsReplace' /\ MovesAreConnected'
    BY <2>1, <2>2, <2>5 DEF IInv, RaisedOnce, VersionsRise, OnlyReportsReplace, MovesAreConnected, Alert
  <2>8. TypeOK' /\ LogSound' /\ TodoSound'
    BY <2>1 DEF IInv, TypeOK, LogSound, TodoSound
  <2> QED  BY <2>6, <2>7, <2>8 DEF IInv
<1> QED  BY <1>1, <1>2, <1>3, <1>4, <1>5 DEF Next

-----------------------------------------------------------------------------
(* The inductive invariant: what is recorded or decided rests on what was  *)
(* recorded before (workflow.py).                                          *)
THEOREM AlertInvariant == Spec => []IInv
<1>1. Init => IInv
  BY InitKeeps
<1>2. IInv /\ [Next]_vars => IInv'
  BY NextKeeps
<1> QED  BY <1>1, <1>2, PTL DEF Spec

(* One alert is raised for a condition, however many detections meet, and  *)
(* nothing is said of it before (raise_alert, _still_unraised).            *)
THEOREM AlertsAreRaisedOnce == Spec => []RaisedOnce
<1>1. IInv => RaisedOnce
  BY DEF IInv
<1> QED  BY <1>1, AlertInvariant, PTL

(* Who moves an alert moves it from where it stands (transition_alert).    *)
THEOREM AlertsMoveFromWhereTheyStand == Spec => []MovesAreConnected
<1>1. IInv => MovesAreConnected
  BY DEF IInv
<1> QED  BY <1>1, AlertInvariant, PTL

(* What decisions and disputes put into an object stays until a report     *)
(* replaces all of it, whatever races (enact_decision_effect, materialize; *)
(* the versions of an ingestion).                                          *)
THEOREM EffectsAreKept == Spec => []OnlyReportsReplace
<1>1. IInv => OnlyReportsReplace
  BY DEF IInv
<1> QED  BY <1>1, AlertInvariant, PTL

(* Every effect goes back to a qualified person's decision, that to a      *)
(* recommendation, and that to the evidence of its time (decide,           *)
(* recommend, enact_decision_effect).                                      *)
THEOREM EffectsHaveADecision == Spec => []EffectsAreDecided
<1>1. IInv => EffectsAreDecided
  <2> SUFFICES ASSUME IInv, NEW i \in Of("object"), NEW d \in log[i].effects
               PROVE  \E j \in Of("decision") :
                        /\ j < i /\ log[j].decision = d
                        /\ log[j].actor \in Humans \cap Qualified /\ log[j].state \in Effective
                        /\ \E k \in Of("recommendation") :
                             /\ k < j /\ log[k].pinned = log[j].pinned
                             /\ log[k].pinned # 0 => \E m \in Of("object") : m < k /\ log[m].version = log[k].pinned
    BY DEF EffectsAreDecided
  <2>0. Len(log) \in Nat
    BY DEF IInv, TypeOK
  <2>1. ASSUME NEW t, NEW n \in 1 .. Len(log), NEW j \in Before(log, n - 1, t)
        PROVE  j \in Of(t) /\ j < n /\ j \in 1 .. Len(log) /\ log[j].type = t
    BY <2>0 DEF Before, Of
  <2>2. i \in 1 .. Len(log) /\ log[i].type = "object"
    BY DEF Of
  <2>3. PICK j \in Before(log, i - 1, "decision") : Authorizes(log[j], d)
    BY <2>2 DEF IInv, LogSound, Sound
  <2>4. j \in Of("decision") /\ j < i /\ j \in 1 .. Len(log) /\ log[j].type = "decision"
    BY <2>1, <2>2, <2>3
  <2>5. PICK k \in Before(log, j - 1, "recommendation") : log[k].pinned = log[j].pinned
    BY <2>4 DEF IInv, LogSound, Sound
  <2>6. k \in Of("recommendation") /\ k < j /\ k \in 1 .. Len(log) /\ log[k].type = "recommendation"
    BY <2>1, <2>4, <2>5
  <2>7. Pins(log, k - 1, log[k].pinned)
    BY <2>6 DEF IInv, LogSound, Sound
  <2>8. log[k].pinned # 0 => \E m \in Of("object") : m < k /\ log[m].version = log[k].pinned
    BY <2>1, <2>6, <2>7 DEF Pins
  <2> QED  BY <2>3, <2>4, <2>5, <2>6, <2>8 DEF Authorizes
<1> QED  BY <1>1, AlertInvariant, PTL

-----------------------------------------------------------------------------
(***************************************************************************)
(* The missions: what an event of theirs rests on.                         *)
(***************************************************************************)
Folds(r, e) ==
  e.version = r.version + 1 /\ r.affected \subseteq e.affected /\ r.priority <= e.priority

Allowed(e) ==
  /\ e.to \in M!Flow(e.subject, e.from)
  /\ e.to \in {"ANSWERED", "CLOSED_UNANSWERED", "DONE"} => e.actor \in Humans

MissionSound(l, n, e) ==
  /\ e.type = "transition" =>
       /\ Allowed(e)
       /\ e.to = "DONE" => \E j \in Before(l, n, "task") : l[j].subject = e.subject /\ l[j].assigned = e.actor
  /\ e.type = "requirement" =>
       e.version # 0 /\ (e.version = 1 \/ \E i \in Before(l, n, "requirement") : Folds(l[i], e))

MissionLogSound == \A i \in 1 .. Len(mlog) : MissionSound(mlog, i - 1, mlog[i])

(* A command has one event to append, if any. *)
MissionTodoSound ==
  \A c \in Calls : mtodo[c] # <<>> => Len(mtodo[c]) = 1 /\ MissionSound(mlog, Len(mlog), mtodo[c][1])

Pending(c, t) == mtodo[c] # <<>> /\ mtodo[c][1].type = "task" /\ mtodo[c][1].subject = t

(* A task is recorded, or about to be, once. *)
TasksOnce ==
  /\ \A i, j \in M!Of("task") : mlog[i].subject = mlog[j].subject => i = j
  /\ \A c \in Calls, t \in Tasks : Pending(c, t) =>
       (\A i \in M!Of("task") : mlog[i].subject # t) /\ \A d \in Calls : Pending(d, t) => c = d

MissionHasNewest ==
  /\ M!Of("requirement") # {} => M!Newest(M!Of("requirement")) # {}
  /\ \A s \in M!Subjects : \A n \in 0 .. Len(mlog) : M!MovesTo(s, n) # {} => M!Newest(M!MovesTo(s, n)) # {}

(* PathsHold, subject by subject. *)
PathsOfSubjects ==
  \A s \in M!Subjects : \A i \in M!Of("transition") : mlog[i].subject = s =>
    /\ mlog[i].from = M!StatusAt(s, i - 1) /\ mlog[i].to \in M!Flow(s, mlog[i].from)
    /\ mlog[i].to \in {"ANSWERED", "CLOSED_UNANSWERED", "DONE"} => mlog[i].actor \in Humans
    /\ mlog[i].to = "DONE" => \A j \in M!Of("task") : mlog[j].subject = s => mlog[j].assigned = mlog[i].actor

(* The inductive invariant. *)
MissionIInv ==
  /\ M!TypeOK /\ MissionHasNewest /\ MissionLogSound /\ MissionTodoSound /\ TasksOnce
  /\ M!FoldsKeepEverything /\ PathsOfSubjects

-----------------------------------------------------------------------------
(***************************************************************************)
(* Events stay.                                                            *)
(***************************************************************************)
(* What an event rests on is still there in every longer log. *)
LEMMA MissionSoundStays ==
  ASSUME NEW l, NEW m, NEW n \in Nat, NEW k \in Nat, n <= k, \A i \in 1 .. n : m[i] = l[i],
         NEW e, MissionSound(l, n, e)
  PROVE  MissionSound(m, k, e)
<1>1. \A t : \A i \in Before(l, n, t) : i \in Before(m, k, t) /\ m[i] = l[i]
  BY DEF Before
<1>2. ASSUME e.type = "transition"
      PROVE  /\ Allowed(e)
             /\ e.to = "DONE" => \E j \in Before(m, k, "task") : m[j].subject = e.subject /\ m[j].assigned = e.actor
  BY <1>1, <1>2 DEF MissionSound
<1>3. ASSUME e.type = "requirement"
      PROVE  e.version # 0 /\ (e.version = 1 \/ \E i \in Before(m, k, "requirement") : Folds(m[i], e))
  BY <1>1, <1>3 DEF MissionSound
<1> QED  BY <1>2, <1>3 DEF MissionSound

LEMMA MissionAppendFacts ==
  ASSUME mlog \in Seq(M!Events), NEW e \in M!Events, mlog' = Append(mlog, e)
  PROVE  /\ Len(mlog) \in Nat /\ Len(mlog') = Len(mlog) + 1 /\ mlog' \in Seq(M!Events)
         /\ \A i \in 1 .. Len(mlog) : mlog'[i] = mlog[i]
         /\ mlog'[Len(mlog) + 1] = e
OBVIOUS

LEMMA MissionSoundAfter ==
  ASSUME mlog \in Seq(M!Events), NEW e \in M!Events, mlog' = Append(mlog, e),
         NEW n \in 0 .. Len(mlog), NEW x, MissionSound(mlog, n, x)
  PROVE  MissionSound(mlog', n, x)
<1>1. n \in Nat /\ n <= n /\ \A i \in 1 .. n : mlog'[i] = mlog[i]
  BY MissionAppendFacts
<1> QED  BY <1>1, MissionSoundStays

LEMMA PendingStays ==
  ASSUME mlog \in Seq(M!Events), NEW e \in M!Events, mlog' = Append(mlog, e), NEW x, MissionSound(mlog, Len(mlog), x)
  PROVE  MissionSound(mlog', Len(mlog'), x)
<1>1. /\ Len(mlog) \in Nat /\ Len(mlog') \in Nat /\ Len(mlog) <= Len(mlog')
      /\ \A i \in 1 .. Len(mlog) : mlog'[i] = mlog[i]
  BY MissionAppendFacts
<1> QED  BY <1>1, MissionSoundStays

LEMMA MissionOfAfter ==
  ASSUME mlog \in Seq(M!Events), NEW e \in M!Events, mlog' = Append(mlog, e), NEW t
  PROVE  /\ \A i \in M!Of(t) : i \in M!Of(t)' /\ i \in Nat /\ 1 <= i /\ i <= Len(mlog) /\ mlog'[i] = mlog[i]
         /\ \A i \in M!Of(t)' : i \in M!Of(t) \/ (i = Len(mlog) + 1 /\ e.type = t)
         /\ e.type = t => Len(mlog) + 1 \in M!Of(t)'
         /\ e.type # t => M!Of(t)' = M!Of(t)
<1>1. M!Of(t) = {i \in 1 .. Len(mlog) : mlog[i].type = t} /\ M!Of(t)' = {i \in 1 .. Len(mlog') : mlog'[i].type = t}
  BY DEF M!Of
<1> QED  BY <1>1, MissionAppendFacts

(* The status of a subject at a position is settled. *)
LEMMA MissionStatusStays ==
  ASSUME mlog \in Seq(M!Events), MissionHasNewest, NEW e \in M!Events, mlog' = Append(mlog, e),
         NEW s \in M!Subjects, NEW n \in 0 .. Len(mlog)
  PROVE  M!MovesTo(s, n)' = M!MovesTo(s, n) /\ M!StatusAt(s, n)' = M!StatusAt(s, n)
<1>0. Len(mlog) \in Nat /\ n \in Nat /\ n <= Len(mlog)
  BY MissionAppendFacts
<1>1. M!MovesTo(s, n)' = M!MovesTo(s, n)
  <2>1. \A i \in M!Of("transition") : i \in M!Of("transition")' /\ mlog'[i] = mlog[i]
    BY MissionOfAfter
  <2>2. \A i \in M!Of("transition")' : i <= n => i \in M!Of("transition")
    BY <1>0, MissionOfAfter
  <2> QED  BY <2>1, <2>2 DEF M!MovesTo
<1>2. M!Newest(M!MovesTo(s, n))' = M!Newest(M!MovesTo(s, n))
  BY <1>1 DEF M!Newest
<1>3. CASE M!MovesTo(s, n) = {}
  BY <1>1, <1>3 DEF M!StatusAt
<1>4. CASE M!MovesTo(s, n) # {}
  <2> DEFINE j == CHOOSE i \in M!Newest(M!MovesTo(s, n)) : TRUE
  <2>1. j \in M!Newest(M!MovesTo(s, n))
    BY <1>4 DEF MissionHasNewest
  <2>2. j \in M!Of("transition")
    BY <2>1 DEF M!Newest, M!MovesTo
  <2>3. mlog'[j] = mlog[j]
    BY <2>2, MissionOfAfter
  <2>4. M!StatusAt(s, n) = mlog[j].to
    BY <1>4 DEF M!StatusAt
  <2>5. M!StatusAt(s, n)' = mlog'[CHOOSE i \in M!Newest(M!MovesTo(s, n))' : TRUE].to
    BY <1>1, <1>4 DEF M!StatusAt
  <2>6. (CHOOSE i \in M!Newest(M!MovesTo(s, n))' : TRUE) = j
    BY <1>2
  <2>7. M!StatusAt(s, n)' = mlog'[j].to
    BY <2>5, <2>6
  <2> HIDE DEF j
  <2> QED  BY <1>1, <2>3, <2>4, <2>7
<1> QED  BY <1>3, <1>4

(* While the log stands, so does what is read from it. *)
LEMMA MissionUnmoved ==
  ASSUME mlog' = mlog
  PROVE  /\ \A t : M!Of(t)' = M!Of(t)
         /\ \A s, n : /\ M!MovesTo(s, n)' = M!MovesTo(s, n) /\ M!Newest(M!MovesTo(s, n))' = M!Newest(M!MovesTo(s, n))
                      /\ M!StatusAt(s, n)' = M!StatusAt(s, n)
<1>1. \A t : M!Of(t)' = M!Of(t)
  BY DEF M!Of
<1>2. ASSUME NEW s, NEW n
      PROVE  /\ M!MovesTo(s, n)' = M!MovesTo(s, n) /\ M!Newest(M!MovesTo(s, n))' = M!Newest(M!MovesTo(s, n))
             /\ M!StatusAt(s, n)' = M!StatusAt(s, n)
  <2>1. M!MovesTo(s, n)' = M!MovesTo(s, n)
    BY <1>1 DEF M!MovesTo
  <2>2. M!Newest(M!MovesTo(s, n))' = M!Newest(M!MovesTo(s, n))
    BY <2>1 DEF M!Newest
  <2>3. (CHOOSE i \in M!Newest(M!MovesTo(s, n))' : TRUE) = (CHOOSE i \in M!Newest(M!MovesTo(s, n)) : TRUE)
    BY <2>2
  <2>4. M!StatusAt(s, n)' = IF M!MovesTo(s, n)' # {} THEN mlog'[CHOOSE i \in M!Newest(M!MovesTo(s, n))' : TRUE].to
                          ELSE IF s \in Tasks THEN "ASSIGNED" ELSE "OPEN"
    BY DEF M!StatusAt
  <2>5. M!StatusAt(s, n)' = M!StatusAt(s, n)
    BY <2>1, <2>3, <2>4 DEF M!StatusAt
  <2> QED  BY <2>1, <2>2, <2>5
<1> QED  BY <1>1, <1>2

(* An event is typed by the fields of its kind. *)
LEMMA Fields ==
  ASSUME NEW e \in M!Events
  PROVE  /\ e.type = "requirement" => e \in M!Requirements
         /\ e.type = "task" => e \in M!TaskRecords
         /\ e.type = "transition" => e \in M!Transitions
BY DEF M!Events, M!Requirements, M!RequestRecords, M!TaskRecords, M!Transitions

LEMMA MissionStatusTyped ==
  ASSUME mlog \in Seq(M!Events), MissionHasNewest, NEW s \in M!Subjects
  PROVE  M!Status(s) \in M!Statuses
<1> DEFINE n == Len(mlog)
<1>0. n \in 0 .. Len(mlog)
  OBVIOUS
<1>1. CASE M!MovesTo(s, n) = {}
  BY <1>1 DEF M!Status, M!StatusAt, M!Statuses
<1>2. CASE M!MovesTo(s, n) # {}
  <2> DEFINE j == CHOOSE i \in M!Newest(M!MovesTo(s, n)) : TRUE
  <2>1. j \in M!Newest(M!MovesTo(s, n))
    BY <1>0, <1>2 DEF MissionHasNewest
  <2>2. j \in 1 .. Len(mlog) /\ mlog[j].type = "transition"
    BY <2>1 DEF M!Newest, M!MovesTo, M!Of
  <2>3. mlog[j].to \in M!Statuses
    BY <2>2, Fields DEF M!Transitions
  <2> QED  BY <1>2, <2>3 DEF M!Status, M!StatusAt
<1> QED  BY <1>1, <1>2

-----------------------------------------------------------------------------
(***************************************************************************)
(* What commands decide.                                                   *)
(***************************************************************************)
LEMMA OpenSound ==
  ASSUME M!MissionConstants, MissionIInv, NEW c \in Calls, NEW p \in Priorities, NEW affected \in SUBSET Affected, M!OpenRequirement(c, p, affected)
  PROVE  \E e \in M!Events : MissionSound(mlog, Len(mlog), e) /\ e.type # "task" /\ M!Decide(c, <<e>>)
<1>0. mlog \in Seq(M!Events) /\ Priorities \subseteq Nat
  BY DEF MissionIInv, M!TypeOK, M!MissionConstants
<1>1. CASE M!Decide(c, <<[type |-> "requirement", version |-> 1, priority |-> p, affected |-> affected]>>)
  <2> DEFINE e == [type |-> "requirement", version |-> 1, priority |-> p, affected |-> affected]
  <2>1. e \in M!Events /\ MissionSound(mlog, Len(mlog), e) /\ e.type # "task"
    BY DEF M!Events, M!Requirements, MissionSound
  <2> QED  BY <1>1, <2>1
<1>2. CASE \E r \in M!Latest : M!Decide(c, <<M!Folded(r, p, affected)>>)
  <2>1. PICK r \in M!Latest : M!Decide(c, <<M!Folded(r, p, affected)>>)
    BY <1>2
  <2>2. PICK i \in M!Newest(M!Of("requirement")) : mlog[i] = r
    BY <2>1 DEF M!Latest
  <2>3. i \in 1 .. Len(mlog) /\ mlog[i].type = "requirement"
    BY <2>2 DEF M!Newest, M!Of
  <2>4. r \in M!Requirements
    BY <1>0, <2>2, <2>3, Fields
  <2>5. /\ r.type = "requirement" /\ r.version \in Nat /\ r.priority \in Nat /\ r.priority \in Priorities
        /\ r.affected \in SUBSET Affected /\ p \in Nat
    BY <1>0, <2>4 DEF M!Requirements
  <2> DEFINE e == M!Folded(r, p, affected)
             larger == M!Larger(r.priority, p)
  <2>6. larger \in Priorities /\ larger \in Nat /\ r.priority <= larger
    BY <2>5 DEF M!Larger
  <2>7. e = [type |-> "requirement", version |-> r.version + 1, priority |-> larger, affected |-> r.affected \cup affected]
    <3> DEFINE one == [r EXCEPT !.version = @ + 1]
               two == [one EXCEPT !.priority = larger]
    <3>1. one \in [type : {"requirement"}, version : Nat, priority : Priorities, affected : SUBSET Affected]
          /\ one.version = r.version + 1 /\ one.priority = r.priority /\ one.affected = r.affected
      BY <2>4, <2>5 DEF M!Requirements
    <3>2. e = [two EXCEPT !.affected = r.affected \cup affected]
      BY <3>1 DEF M!Folded
    <3> HIDE DEF one, larger, e
    <3>3. two \in [type : {"requirement"}, version : Nat, priority : Priorities, affected : SUBSET Affected]
          /\ two.version = r.version + 1 /\ two.priority = larger /\ two.affected = r.affected
      BY <2>6, <3>1
    <3> HIDE DEF two
    <3> QED  BY <3>2, <3>3
  <2> HIDE DEF e, larger
  <2>8. e \in M!Events /\ e.type = "requirement" /\ Folds(r, e) /\ e.version # 0
    BY <2>5, <2>6, <2>7 DEF M!Events, M!Requirements, Folds
  <2>9. MissionSound(mlog, Len(mlog), e)
    BY <2>2, <2>3, <2>8 DEF MissionSound, Before
  <2> QED  BY <2>1, <2>8, <2>9 DEF e
<1> QED  BY <1>1, <1>2 DEF M!OpenRequirement

LEMMA TransitionSound ==
  ASSUME M!MissionConstants, MissionIInv, NEW c \in Calls, NEW a \in M!Actors, NEW s \in M!Subjects, NEW to \in M!Statuses, M!Transition(c, a, s, to)
  PROVE  \E e \in M!Events : MissionSound(mlog, Len(mlog), e) /\ e.type # "task" /\ M!Decide(c, <<e>>)
<1> DEFINE e == [type |-> "transition", subject |-> s, from |-> M!Status(s), to |-> to, actor |-> a]
<1>0. M!MissionConstants /\ M!Status(s) \in M!Statuses
  BY MissionStatusTyped DEF MissionIInv, M!TypeOK
<1>1. e \in M!Events
  BY <1>0 DEF M!Events, M!Transitions
<1>2. to \in M!Flow(s, M!Status(s)) /\ (to \in M!HumanOnly(s) => a \in Humans) /\ (to = "DONE" => a \in M!Assigned(s))
  BY DEF M!Transition, M!MayMove
<1>3. to \in {"ANSWERED", "CLOSED_UNANSWERED", "DONE"} => a \in Humans
  <2>1. CASE s = Requirement
    BY <1>2, <2>1 DEF M!HumanOnly, M!Flow
  <2>2. CASE s \in Requests
    <3>1. s # Requirement
      BY <1>0, <2>2 DEF M!MissionConstants
    <3>2. to \in IF M!Status(s) = "OPEN" THEN {"FULFILLED", "FAILED"} ELSE {}
      BY <1>2, <2>2, <3>1 DEF M!Flow
    <3> QED  BY <3>2
  <2>3. CASE s \in Tasks
    <3>1. s # Requirement /\ s \notin Requests
      BY <1>0, <2>3 DEF M!MissionConstants
    <3> QED  BY <1>2, <2>3, <3>1 DEF M!HumanOnly, M!Flow
  <2> QED  BY <2>1, <2>2, <2>3 DEF M!Subjects
<1>4. Allowed(e)
  BY <1>2, <1>3 DEF Allowed
<1>5. to = "DONE" => \E j \in Before(mlog, Len(mlog), "task") : mlog[j].subject = s /\ mlog[j].assigned = a
  BY <1>2 DEF M!Assigned, M!Of, Before
<1>6. MissionSound(mlog, Len(mlog), e) /\ e.type # "task"
  BY <1>4, <1>5 DEF MissionSound
<1>7. M!Decide(c, <<e>>)
  BY DEF M!Transition
<1> QED  BY <1>1, <1>6, <1>7

LEMMA RequestSound ==
  ASSUME MissionIInv, NEW c \in Calls, NEW q \in Requests, M!RequestEvidence(c, q)
  PROVE  \E e \in M!Events : MissionSound(mlog, Len(mlog), e) /\ e.type # "task" /\ M!Decide(c, <<e>>)
<1> DEFINE e == [type |-> "request", subject |-> q]
<1>1. e \in M!Events /\ MissionSound(mlog, Len(mlog), e) /\ e.type # "task"
  BY DEF M!Events, M!RequestRecords, MissionSound
<1> QED  BY <1>1 DEF M!RequestEvidence

LEMMA AwaitSound ==
  ASSUME MissionIInv, NEW c \in Calls, NEW a \in M!Actors, M!AwaitEvidence(c, a)
  PROVE  \/ UNCHANGED <<mlog, mtodo>>
         \/ \E e \in M!Events : MissionSound(mlog, Len(mlog), e) /\ e.type # "task" /\ M!Decide(c, <<e>>)
<1>1. M!Awaiting(a) \in M!Events
  BY DEF M!Awaiting, M!Events, M!Transitions, M!Subjects, M!Statuses
<1>2. Allowed(M!Awaiting(a)) /\ M!Awaiting(a).to # "DONE" /\ M!Awaiting(a).type = "transition"
  BY DEF M!Awaiting, Allowed, M!Flow
<1>3. MissionSound(mlog, Len(mlog), M!Awaiting(a)) /\ M!Awaiting(a).type # "task"
  BY <1>2 DEF MissionSound
<1> QED  BY <1>1, <1>3 DEF M!AwaitEvidence

-----------------------------------------------------------------------------
(***************************************************************************)
(* A decision keeps the invariant, and so does what ends a command.        *)
(***************************************************************************)
LEMMA StandingKeeps ==
  ASSUME MissionIInv, mlog' = mlog
  PROVE  MissionHasNewest' /\ MissionLogSound' /\ M!FoldsKeepEverything' /\ PathsOfSubjects'
<1>1. MissionHasNewest'
  BY MissionUnmoved DEF MissionIInv, MissionHasNewest, M!Newest
<1>2. MissionLogSound'
  BY DEF MissionIInv, MissionLogSound
<1>3. M!FoldsKeepEverything'
  BY MissionUnmoved DEF MissionIInv, M!FoldsKeepEverything
<1>4. PathsOfSubjects'
  BY MissionUnmoved DEF MissionIInv, PathsOfSubjects
<1> QED  BY <1>1, <1>2, <1>3, <1>4

LEMMA DecideKeeps ==
  ASSUME MissionIInv, NEW c \in Calls, NEW e \in M!Events, MissionSound(mlog, Len(mlog), e), M!Decide(c, <<e>>), asking' \subseteq Calls,
         e.type = "task" => /\ \A i \in M!Of("task") : mlog[i].subject # e.subject
                            /\ \A d \in Calls : ~Pending(d, e.subject)
  PROVE  MissionIInv'
<1>1. mlog' = mlog /\ mtodo' = [mtodo EXCEPT ![c] = <<e>>] /\ mtodo \in [Calls -> Seq(M!Events)]
  BY DEF M!Decide, MissionIInv, M!TypeOK
<1>2. mtodo'[c] = <<e>> /\ \A d \in Calls : d # c => mtodo'[d] = mtodo[d]
  BY <1>1
<1>3. M!TypeOK'
  BY <1>1 DEF MissionIInv, M!TypeOK
<1>4. MissionTodoSound'
  BY <1>1, <1>2 DEF MissionIInv, MissionTodoSound
<1>5. TasksOnce'
  <2>1. M!Of("task")' = M!Of("task")
    BY <1>1, MissionUnmoved
  <2>2. ASSUME NEW d \in Calls, NEW t \in Tasks, Pending(d, t)'
        PROVE  (d = c /\ e.type = "task" /\ e.subject = t) \/ (d # c /\ Pending(d, t))
    BY <1>2, <2>2 DEF Pending
  <2>3. \A i, j \in M!Of("task")' : mlog'[i].subject = mlog'[j].subject => i = j
    BY <1>1, <2>1 DEF MissionIInv, TasksOnce
  <2>4. ASSUME NEW d \in Calls, NEW t \in Tasks, Pending(d, t)'
        PROVE  (\A i \in M!Of("task") : mlog[i].subject # t) /\ \A b \in Calls : Pending(b, t)' => d = b
    <3>1. CASE d = c
      <4>1. e.type = "task" /\ e.subject = t
        BY <2>2, <2>4, <3>1
      <4> QED  BY <2>2, <3>1, <4>1
    <3>2. CASE d # c
      <4>1. Pending(d, t)
        BY <2>2, <2>4, <3>2
      <4>2. \A b \in Calls : Pending(b, t)' => Pending(b, t)
        BY <2>2, <4>1
      <4> QED  BY <4>1, <4>2 DEF MissionIInv, TasksOnce
    <3> QED  BY <3>1, <3>2
  <2> QED  BY <1>1, <2>1, <2>3, <2>4 DEF TasksOnce
<1> QED  BY <1>1, <1>3, <1>4, <1>5, StandingKeeps DEF MissionIInv

LEMMA TaskKeeps ==
  ASSUME MissionIInv, NEW c \in Calls, NEW t \in Tasks, NEW a \in M!Actors, M!AssignTask(c, t, a), asking' \subseteq Calls,
         M!MissionConstants
  PROVE  MissionIInv'
<1> DEFINE e == [type |-> "task", subject |-> t, assigned |-> a]
<1>1. e \in M!Events /\ MissionSound(mlog, Len(mlog), e) /\ M!Decide(c, <<e>>) /\ e.type = "task" /\ e.subject = t
  BY DEF M!Events, M!TaskRecords, MissionSound, M!AssignTask
<1>2. \A i \in M!Of("task") : mlog[i].subject # t
  BY DEF M!AssignTask, M!Recorded, M!MissionConstants
<1>3. ASSUME NEW d \in Calls
      PROVE  ~Pending(d, t)
  <2>1. SUFFICES ASSUME Pending(d, t) PROVE FALSE
    OBVIOUS
  <2>2. Len(mtodo[d]) = 1 /\ mtodo[d][1].type = "task" /\ mtodo[d][1].subject = t
    BY <2>1 DEF MissionIInv, MissionTodoSound, Pending
  <2>3. 1 \in 1 .. Len(mtodo[d])
    BY <2>2
  <2> QED  BY <2>2, <2>3 DEF M!AssignTask
<1> HIDE DEF e
<1> QED  BY <1>1, <1>2, <1>3, DecideKeeps

LEMMA FailKeeps ==
  ASSUME MissionIInv, NEW c \in Calls, M!Fail(c)
  PROVE  MissionIInv'
<1>1. mlog' = mlog /\ mtodo' = [mtodo EXCEPT ![c] = <<>>] /\ mtodo \in [Calls -> Seq(M!Events)] /\ asking' \subseteq Calls
  BY DEF M!Fail, MissionIInv, M!TypeOK
<1>2. mtodo'[c] = <<>> /\ \A d \in Calls : d # c => mtodo'[d] = mtodo[d]
  BY <1>1
<1>3. M!TypeOK'
  BY <1>1 DEF MissionIInv, M!TypeOK
<1>4. MissionTodoSound'
  BY <1>1, <1>2 DEF MissionIInv, MissionTodoSound
<1>5. TasksOnce'
  <2>1. M!Of("task")' = M!Of("task")
    BY <1>1, MissionUnmoved
  <2>2. \A d \in Calls, t \in Tasks : Pending(d, t)' => Pending(d, t)
    BY <1>2 DEF Pending
  <2> QED  BY <1>1, <2>1, <2>2 DEF MissionIInv, TasksOnce
<1> QED  BY <1>1, <1>3, <1>4, <1>5, StandingKeeps DEF MissionIInv

-----------------------------------------------------------------------------
(***************************************************************************)
(* An append keeps the invariant.                                          *)
(***************************************************************************)
(* What is known of the event that is appended. *)
Fitting(c, e) ==
  /\ e \in M!Events /\ MissionSound(mlog, Len(mlog), e) /\ M!Fits(e)
  /\ mlog' = Append(mlog, e) /\ mtodo[c] # <<>> /\ mtodo[c][1] = e /\ mtodo' = [mtodo EXCEPT ![c] = <<>>]

LEMMA WriteFits ==
  ASSUME MissionIInv, NEW c \in Calls, M!Write(c)
  PROVE  \E e \in M!Events : Fitting(c, e)
<1>1. mtodo \in [Calls -> Seq(M!Events)] /\ mtodo[c] # <<>> /\ Len(mtodo[c]) = 1 /\ MissionSound(mlog, Len(mlog), mtodo[c][1])
  BY DEF MissionIInv, M!TypeOK, MissionTodoSound, M!Write, M!Ready
<1>2. mtodo[c] \in Seq(M!Events)
  BY <1>1
<1> DEFINE e == mtodo[c][1]
<1>3. e \in M!Events /\ Head(mtodo[c]) = e /\ Tail(mtodo[c]) = <<>>
  <2>1. Head(mtodo[c]) = e /\ e \in M!Events
    BY <1>1, <1>2
  <2>2. Tail(mtodo[c]) \in Seq(M!Events) /\ Len(Tail(mtodo[c])) = 0
    BY <1>1, <1>2
  <2>3. Tail(mtodo[c]) = <<>>
    BY <2>2, EmptySeq
  <2> QED  BY <2>1, <2>3
<1>4. M!Fits(e) /\ mlog' = Append(mlog, e) /\ mtodo' = [mtodo EXCEPT ![c] = <<>>]
  BY <1>1, <1>3 DEF M!Write, M!WriteNext
<1> QED  BY <1>1, <1>3, <1>4 DEF Fitting

LEMMA WriteTyped ==
  ASSUME MissionIInv, NEW c \in Calls, NEW e \in M!Events, Fitting(c, e), asking' \subseteq Calls
  PROVE  M!TypeOK' /\ mtodo'[c] = <<>> /\ \A d \in Calls : d # c => mtodo'[d] = mtodo[d]
<1>1. mlog \in Seq(M!Events) /\ mtodo \in [Calls -> Seq(M!Events)]
  BY DEF MissionIInv, M!TypeOK
<1>2. mlog' \in Seq(M!Events)
  BY <1>1, MissionAppendFacts DEF Fitting
<1>3. mtodo' \in [Calls -> Seq(M!Events)]
  BY <1>1 DEF Fitting
<1> QED  BY <1>1, <1>2, <1>3 DEF Fitting, M!TypeOK

LEMMA NewestKeeps ==
  ASSUME MissionIInv, NEW c \in Calls, NEW e \in M!Events, Fitting(c, e)
  PROVE  MissionHasNewest'
<1>0. mlog \in Seq(M!Events) /\ mlog' = Append(mlog, e) /\ Len(mlog) \in Nat /\ Len(mlog') = Len(mlog) + 1 /\ MissionHasNewest
  BY MissionAppendFacts DEF MissionIInv, M!TypeOK, Fitting
<1>1. PICK n \in Nat : n = Len(mlog)
  BY <1>0
<1>2. M!Of("requirement")' # {} => M!Newest(M!Of("requirement"))' # {}
  <2>1. CASE e.type = "requirement"
    <3>1. n + 1 \in M!Of("requirement")' /\ \A i \in M!Of("requirement")' : i <= n + 1
      BY <1>1, <1>0, <2>1, MissionOfAfter DEF M!Of
    <3> QED  BY <3>1 DEF M!Newest
  <2>2. CASE e.type # "requirement"
    <3>1. M!Of("requirement")' = M!Of("requirement")
      BY <1>1, <1>0, <2>2, MissionOfAfter
    <3> QED  BY <1>1, <1>0, <3>1 DEF MissionHasNewest, M!Newest
  <2> QED  BY <2>1, <2>2
<1>3. ASSUME NEW s \in M!Subjects, NEW m \in 0 .. Len(mlog'), M!MovesTo(s, m)' # {}
      PROVE  M!Newest(M!MovesTo(s, m))' # {}
  <2>1. CASE m \in 0 .. n
    <3>1. M!MovesTo(s, m)' = M!MovesTo(s, m)
      BY <1>1, <1>0, <2>1, MissionStatusStays
    <3> QED  BY <1>1, <1>0, <1>3, <2>1, <3>1 DEF MissionHasNewest, M!Newest
  <2>2. CASE m = n + 1 /\ n + 1 \in M!MovesTo(s, m)'
    <3>1. \A i \in M!MovesTo(s, m)' : i <= n + 1
      BY <2>2 DEF M!MovesTo
    <3> QED  BY <2>2, <3>1 DEF M!Newest
  <2>3. CASE m = n + 1 /\ n + 1 \notin M!MovesTo(s, m)'
    <3>1. n \in 0 .. Len(mlog)
      BY <1>1, <1>0
    <3>2. M!MovesTo(s, n)' = M!MovesTo(s, n)
      BY <1>1, <1>0, <3>1, MissionStatusStays
    <3>3. M!MovesTo(s, m)' = M!MovesTo(s, n)'
      BY <1>1, <1>0, <2>3 DEF M!MovesTo, M!Of
    <3> QED  BY <1>1, <1>0, <1>3, <3>1, <3>2, <3>3 DEF MissionHasNewest, M!Newest
  <2>4. m \in 0 .. n \/ m = n + 1
    BY <1>1, <1>0
  <2> QED  BY <2>1, <2>2, <2>3, <2>4
<1> QED  BY <1>2, <1>3 DEF MissionHasNewest

LEMMA LogSoundKeeps ==
  ASSUME MissionIInv, NEW c \in Calls, NEW e \in M!Events, Fitting(c, e)
  PROVE  MissionLogSound'
<1>0. /\ mlog \in Seq(M!Events) /\ mlog' = Append(mlog, e) /\ Len(mlog) \in Nat /\ Len(mlog') = Len(mlog) + 1
      /\ (\A i \in 1 .. Len(mlog) : mlog'[i] = mlog[i]) /\ mlog'[Len(mlog) + 1] = e /\ MissionLogSound /\ MissionSound(mlog, Len(mlog), e)
  BY MissionAppendFacts DEF MissionIInv, M!TypeOK, Fitting
<1>1. ASSUME NEW i \in 1 .. Len(mlog')
      PROVE  MissionSound(mlog', i - 1, mlog'[i])
  <2>1. CASE i \in 1 .. Len(mlog)
    <3>1. MissionSound(mlog, i - 1, mlog[i]) /\ i - 1 \in 0 .. Len(mlog)
      BY <1>0, <2>1 DEF MissionLogSound
    <3>2. MissionSound(mlog', i - 1, mlog[i])
      BY <1>0, <3>1, MissionSoundAfter
    <3> QED  BY <1>0, <2>1, <3>2
  <2>2. CASE i = Len(mlog) + 1
    <3>1. Len(mlog) \in 0 .. Len(mlog) /\ i - 1 = Len(mlog)
      BY <1>0, <2>2
    <3>2. MissionSound(mlog', Len(mlog), e)
      BY <1>0, <3>1, MissionSoundAfter
    <3> QED  BY <1>0, <2>2, <3>1, <3>2
  <2> QED  BY <1>0, <2>1, <2>2
<1> QED  BY <1>1 DEF MissionLogSound

LEMMA TodoSoundKeeps ==
  ASSUME MissionIInv, NEW c \in Calls, NEW e \in M!Events, Fitting(c, e), asking' \subseteq Calls
  PROVE  MissionTodoSound'
<1>1. ASSUME NEW d \in Calls, mtodo'[d] # <<>>
      PROVE  Len(mtodo'[d]) = 1 /\ MissionSound(mlog', Len(mlog'), mtodo'[d][1])
  <2>1. mtodo'[d] = mtodo[d] /\ mtodo[d] # <<>>
    BY <1>1, WriteTyped
  <2>2. Len(mtodo[d]) = 1 /\ MissionSound(mlog, Len(mlog), mtodo[d][1])
    BY <2>1 DEF MissionIInv, MissionTodoSound
  <2>3. mlog \in Seq(M!Events) /\ mlog' = Append(mlog, e)
    BY DEF MissionIInv, M!TypeOK, Fitting
  <2>4. MissionSound(mlog', Len(mlog'), mtodo[d][1])
    BY <2>2, <2>3, PendingStays
  <2> QED  BY <2>1, <2>2, <2>4
<1> QED  BY <1>1 DEF MissionTodoSound

(* A task that is being recorded is nowhere in the log. *)
LEMMA TaskIsNew ==
  ASSUME MissionIInv, NEW c \in Calls, NEW e \in M!Events, Fitting(c, e), e.type = "task"
  PROVE  e.subject \in Tasks /\ Pending(c, e.subject) /\ \A i \in M!Of("task") : mlog[i].subject # e.subject
<1>1. e.subject \in Tasks
  BY Fields DEF M!TaskRecords
<1>2. Pending(c, e.subject)
  BY DEF Fitting, Pending
<1> QED  BY <1>1, <1>2 DEF MissionIInv, TasksOnce

LEMMA TasksKeep ==
  ASSUME MissionIInv, NEW c \in Calls, NEW e \in M!Events, Fitting(c, e), asking' \subseteq Calls
  PROVE  TasksOnce'
<1>0. /\ mlog \in Seq(M!Events) /\ mlog' = Append(mlog, e) /\ mlog'[Len(mlog) + 1] = e /\ TasksOnce
      /\ mtodo'[c] = <<>> /\ \A d \in Calls : d # c => mtodo'[d] = mtodo[d]
  BY MissionAppendFacts, WriteTyped DEF MissionIInv, M!TypeOK, Fitting
<1>1. \A i \in M!Of("task")' : (i \in M!Of("task") /\ mlog'[i] = mlog[i]) \/ (i = Len(mlog) + 1 /\ e.type = "task")
  BY <1>0, MissionOfAfter
<1>2. \A i, j \in M!Of("task")' : mlog'[i].subject = mlog'[j].subject => i = j
  <2>1. SUFFICES ASSUME NEW i \in M!Of("task")', NEW j \in M!Of("task")', mlog'[i].subject = mlog'[j].subject
                 PROVE  i = j
    OBVIOUS
  <2>2. CASE i \in M!Of("task") /\ j \in M!Of("task") /\ mlog'[i] = mlog[i] /\ mlog'[j] = mlog[j]
    BY <1>0, <2>1, <2>2 DEF TasksOnce
  <2>3. e.type = "task" => \A k \in M!Of("task") : mlog[k].subject # e.subject
    BY TaskIsNew
  <2> QED  BY <1>0, <1>1, <2>1, <2>2, <2>3
<1>3. ASSUME NEW d \in Calls, NEW t \in Tasks, Pending(d, t)'
      PROVE  (\A i \in M!Of("task")' : mlog'[i].subject # t) /\ \A b \in Calls : Pending(b, t)' => d = b
  <2>1. d # c /\ Pending(d, t) /\ \A b \in Calls : Pending(b, t)' => Pending(b, t)
    BY <1>0, <1>3 DEF Pending
  <2>2. (\A i \in M!Of("task") : mlog[i].subject # t) /\ \A b \in Calls : Pending(b, t) => d = b
    BY <1>0, <2>1 DEF TasksOnce
  <2>3. e.type = "task" => e.subject # t
    BY <2>1, <2>2, TaskIsNew
  <2> QED  BY <1>0, <1>1, <2>1, <2>2, <2>3
<1> QED  BY <1>2, <1>3 DEF TasksOnce

(* A version that fits takes in all the newest one had. *)
LEMMA FitsFolds ==
  ASSUME MissionIInv, NEW c \in Calls, NEW e \in M!Events, Fitting(c, e), e.type = "requirement",
         M!Of("requirement") # {}, Priorities \subseteq Nat
  PROVE  \A i \in M!Of("requirement") :
           /\ e.version > mlog[i].version /\ mlog[i].affected \subseteq e.affected /\ mlog[i].priority <= e.priority
<1>0. mlog \in Seq(M!Events) /\ e \in M!Requirements /\ MissionSound(mlog, Len(mlog), e)
  BY Fields DEF MissionIInv, M!TypeOK, Fitting
<1>1. PICK k : k \in M!Newest(M!Of("requirement"))
  BY DEF MissionIInv, MissionHasNewest
<1>2. k \in M!Of("requirement") /\ \A i \in M!Of("requirement") : i <= k
  BY <1>1 DEF M!Newest
<1>3. \A i \in M!Of("requirement") : /\ i \in Nat /\ mlog[i] \in M!Requirements /\ mlog[i].version \in Nat
                                   /\ mlog[i].priority \in Nat /\ mlog[i].version # 0
  <2>1. SUFFICES ASSUME NEW i \in M!Of("requirement")
                 PROVE  /\ i \in Nat /\ mlog[i] \in M!Requirements /\ mlog[i].version \in Nat
                        /\ mlog[i].priority \in Nat /\ mlog[i].version # 0
    OBVIOUS
  <2>2. i \in 1 .. Len(mlog) /\ mlog[i].type = "requirement" /\ mlog[i] \in M!Events
    BY <1>0 DEF M!Of
  <2>3. mlog[i] \in M!Requirements
    BY <2>2, Fields
  <2>4. MissionSound(mlog, i - 1, mlog[i])
    BY <2>2 DEF MissionIInv, MissionLogSound
  <2>5. mlog[i].version # 0
    BY <2>2, <2>4 DEF MissionSound
  <2>6. mlog[i].version \in Nat /\ mlog[i].priority \in Nat
    BY <2>3 DEF M!Requirements
  <2> QED  BY <2>2, <2>3, <2>5, <2>6
<1>4. e.version = mlog[k].version + 1
  <2>1. mlog[k] \in M!Latest /\ M!NextAfter(M!Latest, e.version)
    BY <1>1 DEF M!Latest, Fitting, M!Fits
  <2> QED  BY <2>1 DEF M!NextAfter
<1>5. PICK b \in Before(mlog, Len(mlog), "requirement") : Folds(mlog[b], e)
  BY <1>0, <1>2, <1>3, <1>4 DEF MissionSound
<1>6. b \in M!Of("requirement") /\ e.version = mlog[b].version + 1
  BY <1>5 DEF Before, M!Of, Folds
<1>7. b = k
  <2>1. b < k => mlog[k].version > mlog[b].version
    BY <1>2, <1>6 DEF MissionIInv, M!FoldsKeepEverything
  <2> QED  BY <1>2, <1>3, <1>4, <1>6, <2>1
<1>8. Folds(mlog[k], e) /\ e.priority \in Nat
  BY <1>0, <1>5, <1>7 DEF M!Requirements
<1>9. ASSUME NEW i \in M!Of("requirement")
      PROVE  e.version > mlog[i].version /\ mlog[i].affected \subseteq e.affected /\ mlog[i].priority <= e.priority
  <2>1. CASE i = k
    BY <1>2, <1>3, <1>4, <1>8, <2>1 DEF Folds
  <2>2. CASE i < k
    <3>1. mlog[k].version > mlog[i].version /\ mlog[i].affected \subseteq mlog[k].affected /\ mlog[i].priority <= mlog[k].priority
      BY <1>2, <2>2 DEF MissionIInv, M!FoldsKeepEverything
    <3> QED  BY <1>2, <1>3, <1>4, <1>8, <3>1 DEF Folds
  <2> QED  BY <1>2, <1>3, <2>1, <2>2
<1> QED  BY <1>9

LEMMA FoldsKeep ==
  ASSUME MissionIInv, NEW c \in Calls, NEW e \in M!Events, Fitting(c, e), Priorities \subseteq Nat
  PROVE  M!FoldsKeepEverything'
<1>0. mlog \in Seq(M!Events) /\ mlog' = Append(mlog, e) /\ mlog'[Len(mlog) + 1] = e /\ M!FoldsKeepEverything /\ Len(mlog) \in Nat
  BY MissionAppendFacts DEF MissionIInv, M!TypeOK, Fitting
<1>1. \A i \in M!Of("requirement")' :
        \/ i \in M!Of("requirement") /\ mlog'[i] = mlog[i] /\ i \in 1 .. Len(mlog)
        \/ i = Len(mlog) + 1 /\ e.type = "requirement" /\ mlog'[i] = e
  BY <1>0, MissionOfAfter
<1>2. ASSUME NEW i \in M!Of("requirement")', NEW j \in M!Of("requirement")', i < j
      PROVE  /\ mlog'[j].version > mlog'[i].version
             /\ mlog'[i].affected \subseteq mlog'[j].affected /\ mlog'[i].priority <= mlog'[j].priority
  <2>1. i \in M!Of("requirement") /\ mlog'[i] = mlog[i]
    BY <1>0, <1>1, <1>2
  <2>2. CASE j \in M!Of("requirement") /\ mlog'[j] = mlog[j]
    BY <1>0, <1>2, <2>1, <2>2 DEF M!FoldsKeepEverything
  <2>3. CASE e.type = "requirement" /\ mlog'[j] = e
    BY <2>1, <2>3, FitsFolds
  <2> QED  BY <1>1, <2>2, <2>3
<1> QED  BY <1>2 DEF M!FoldsKeepEverything

LEMMA PathsKeep ==
  ASSUME MissionIInv, NEW c \in Calls, NEW e \in M!Events, Fitting(c, e)
  PROVE  PathsOfSubjects'
<1>0. /\ mlog \in Seq(M!Events) /\ mlog' = Append(mlog, e) /\ mlog'[Len(mlog) + 1] = e /\ Len(mlog) \in Nat
      /\ MissionHasNewest /\ TasksOnce /\ PathsOfSubjects /\ MissionLogSound /\ MissionSound(mlog, Len(mlog), e) /\ M!Fits(e)
  BY MissionAppendFacts DEF MissionIInv, M!TypeOK, Fitting
<1>1. ASSUME NEW i \in M!Of("transition")'
      PROVE  \E x \in M!Transitions :
               /\ mlog'[i] = x /\ i - 1 \in 0 .. Len(mlog) /\ x.type = "transition"
               /\ x.from = M!StatusAt(x.subject, i - 1) /\ MissionSound(mlog, i - 1, x)
  <2>1. CASE i \in M!Of("transition") /\ i \in 1 .. Len(mlog) /\ mlog'[i] = mlog[i]
    <3>1. mlog[i].type = "transition" /\ mlog[i] \in M!Transitions
      BY <1>0, <2>1, Fields DEF M!Of
    <3>2. mlog[i].subject \in M!Subjects
      BY <3>1 DEF M!Transitions
    <3>3. mlog[i].from = M!StatusAt(mlog[i].subject, i - 1) /\ MissionSound(mlog, i - 1, mlog[i]) /\ i - 1 \in 0 .. Len(mlog)
      BY <1>0, <2>1, <3>2 DEF PathsOfSubjects, MissionLogSound
    <3> QED  BY <2>1, <3>1, <3>3
  <2>2. CASE i = Len(mlog) + 1 /\ e.type = "transition"
    <3>1. e \in M!Transitions /\ e.from = M!StatusAt(e.subject, Len(mlog)) /\ mlog'[i] = e
      BY <1>0, <2>2, Fields DEF M!Fits, M!Status
    <3>2. i - 1 = Len(mlog) /\ i - 1 \in 0 .. Len(mlog)
      BY <1>0, <2>2
    <3>3. e.from = M!StatusAt(e.subject, i - 1) /\ MissionSound(mlog, i - 1, e)
      BY <1>0, <3>1, <3>2
    <3> QED  BY <2>2, <3>1, <3>2, <3>3
  <2> QED  BY <1>0, <2>1, <2>2, MissionOfAfter
<1>2. ASSUME NEW i \in M!Of("transition")', NEW x \in M!Transitions, NEW m \in 0 .. Len(mlog),
             NEW s \in M!Subjects, x.subject = s,
             mlog'[i] = x, x.type = "transition", x.from = M!StatusAt(s, m), MissionSound(mlog, m, x)
      PROVE  /\ x.from = M!StatusAt(s, m)' /\ x.to \in M!Flow(s, x.from)
             /\ x.to \in {"ANSWERED", "CLOSED_UNANSWERED", "DONE"} => x.actor \in Humans
             /\ x.to = "DONE" => \A j \in M!Of("task")' : mlog'[j].subject = s => mlog'[j].assigned = x.actor
  <2>2. x.from = M!StatusAt(s, m)'
    BY <1>0, <1>2, MissionStatusStays
  <2>3. Allowed(x)
    BY <1>2 DEF MissionSound
  <2>4. ASSUME x.to = "DONE", NEW j \in M!Of("task")', mlog'[j].subject = s
        PROVE  mlog'[j].assigned = x.actor
    <3>1. PICK k \in Before(mlog, m, "task") : mlog[k].subject = x.subject /\ mlog[k].assigned = x.actor
      BY <1>2, <2>4 DEF MissionSound
    <3>2. k \in M!Of("task") /\ mlog[k].subject = s
      BY <1>0, <1>2, <3>1 DEF Before, M!Of
    <3>3. j \in M!Of("task") /\ mlog'[j] = mlog[j]
      <4>1. \/ j \in M!Of("task") /\ mlog'[j] = mlog[j]
            \/ j = Len(mlog) + 1 /\ e.type = "task"
        BY <1>0, MissionOfAfter
      <4>2. e.type = "task" => e.subject # s
        BY <3>2, TaskIsNew
      <4> QED  BY <1>0, <2>4, <4>1, <4>2
    <3> QED  BY <1>0, <2>4, <3>1, <3>2, <3>3 DEF TasksOnce
  <2>5. x.to \in M!Flow(s, x.from) /\ (x.to \in {"ANSWERED", "CLOSED_UNANSWERED", "DONE"} => x.actor \in Humans)
    BY <1>2, <2>3 DEF Allowed
  <2> QED  BY <2>2, <2>4, <2>5
<1>3. ASSUME NEW s \in M!Subjects, NEW i \in M!Of("transition")', mlog'[i].subject = s
      PROVE  /\ mlog'[i].from = M!StatusAt(s, i - 1)' /\ mlog'[i].to \in M!Flow(s, mlog'[i].from)
             /\ mlog'[i].to \in {"ANSWERED", "CLOSED_UNANSWERED", "DONE"} => mlog'[i].actor \in Humans
             /\ mlog'[i].to = "DONE" => \A j \in M!Of("task")' : mlog'[j].subject = s => mlog'[j].assigned = mlog'[i].actor
  <2>1. PICK x \in M!Transitions :
          /\ mlog'[i] = x /\ i - 1 \in 0 .. Len(mlog) /\ x.type = "transition"
          /\ x.from = M!StatusAt(x.subject, i - 1) /\ MissionSound(mlog, i - 1, x)
    BY <1>1
  <2>2. x.subject = s
    BY <1>3, <2>1
  <2>3. x.from = M!StatusAt(s, i - 1)
    BY <2>1, <2>2
  <2>4. /\ x.from = M!StatusAt(s, i - 1)' /\ x.to \in M!Flow(s, x.from)
        /\ x.to \in {"ANSWERED", "CLOSED_UNANSWERED", "DONE"} => x.actor \in Humans
        /\ x.to = "DONE" => \A j \in M!Of("task")' : mlog'[j].subject = s => mlog'[j].assigned = x.actor
    BY <1>2, <2>1, <2>2, <2>3
  <2> HIDE <1>1, <1>2
  <2> QED  BY <2>1, <2>4
<1> QED  BY <1>3 DEF PathsOfSubjects

LEMMA MissionWriteKeeps ==
  ASSUME M!MissionConstants, MissionIInv, NEW c \in Calls, M!Write(c)
  PROVE  MissionIInv'
<1>1. PICK e \in M!Events : Fitting(c, e)
  BY WriteFits
<1>2. asking' \subseteq Calls /\ Priorities \subseteq Nat
  BY DEF M!Write, MissionIInv, M!TypeOK, M!MissionConstants
<1>3. M!TypeOK'
  BY <1>1, <1>2, WriteTyped
<1>4. MissionHasNewest' /\ MissionLogSound' /\ MissionTodoSound' /\ TasksOnce'
  BY <1>1, <1>2, NewestKeeps, LogSoundKeeps, TodoSoundKeeps, TasksKeep
<1>5. M!FoldsKeepEverything' /\ PathsOfSubjects'
  BY <1>1, <1>2, FoldsKeep, PathsKeep
<1> QED  BY <1>3, <1>4, <1>5 DEF MissionIInv

-----------------------------------------------------------------------------
(***************************************************************************)
(* The program.                                                            *)
(***************************************************************************)
LEMMA MissionInitKeeps == M!Init => MissionIInv
<1>1. SUFFICES ASSUME M!Init PROVE MissionIInv
  OBVIOUS
<1>2. mlog = <<>> /\ Len(mlog) = 0 /\ mlog \in Seq(M!Events) /\ \A c \in Calls : mtodo[c] = <<>>
  BY <1>1 DEF M!Init, M!CommandInit
<1>3. M!TypeOK
  BY <1>1 DEF M!Init, M!CommandInit, M!TypeOK
<1>4. \A t : M!Of(t) = {}
  BY <1>2 DEF M!Of
<1>5. MissionHasNewest /\ MissionLogSound /\ M!FoldsKeepEverything /\ PathsOfSubjects
  BY <1>2, <1>4 DEF MissionHasNewest, MissionLogSound, M!FoldsKeepEverything, PathsOfSubjects, M!MovesTo
<1>6. MissionTodoSound /\ TasksOnce
  BY <1>2, <1>4 DEF MissionTodoSound, TasksOnce, Pending
<1> QED  BY <1>3, <1>5, <1>6 DEF MissionIInv

LEMMA MissionNextKeeps ==
  ASSUME M!MissionConstants, MissionIInv, [M!Next]_M!vars
  PROVE  MissionIInv'
<1>0. asking \subseteq Calls
  BY DEF MissionIInv, M!TypeOK
<1>1. CASE UNCHANGED M!vars
  <2>1. mlog' = mlog /\ mtodo' = mtodo /\ asking' = asking
    BY <1>1 DEF M!vars
  <2>2. M!TypeOK' /\ MissionTodoSound'
    BY <2>1 DEF MissionIInv, M!TypeOK, MissionTodoSound
  <2>3. TasksOnce'
    BY <2>1, MissionUnmoved DEF MissionIInv, TasksOnce, Pending
  <2> QED  BY <2>1, <2>2, <2>3, StandingKeeps DEF MissionIInv
<1>2. ASSUME NEW c \in Calls, NEW p \in Priorities, NEW affected \in SUBSET Affected, M!OpenRequirement(c, p, affected)
      PROVE  MissionIInv'
  <2>1. asking' \subseteq Calls
    BY <1>0, <1>2 DEF M!OpenRequirement
  <2> QED  BY <1>2, <2>1, OpenSound, DecideKeeps
<1>3. ASSUME NEW c \in Calls, NEW q \in Requests, M!RequestEvidence(c, q)
      PROVE  MissionIInv'
  <2>1. asking' \subseteq Calls
    BY <1>0, <1>3 DEF M!RequestEvidence
  <2> QED  BY <1>3, <2>1, RequestSound, DecideKeeps
<1>4. ASSUME NEW c \in Calls, NEW a \in M!Actors, M!AwaitEvidence(c, a)
      PROVE  MissionIInv'
  <2>1. asking' \subseteq Calls
    BY <1>0, <1>4 DEF M!AwaitEvidence
  <2>2. CASE UNCHANGED <<mlog, mtodo>>
    <3>1. M!TypeOK' /\ MissionTodoSound'
      BY <2>1, <2>2 DEF MissionIInv, M!TypeOK, MissionTodoSound
    <3>2. TasksOnce'
      BY <2>2, MissionUnmoved DEF MissionIInv, TasksOnce, Pending
    <3> QED  BY <2>2, <3>1, <3>2, StandingKeeps DEF MissionIInv
  <2> QED  BY <1>4, <2>1, <2>2, AwaitSound, DecideKeeps
<1>5. ASSUME NEW c \in Calls, NEW t \in Tasks, NEW a \in M!Actors, M!AssignTask(c, t, a)
      PROVE  MissionIInv'
  <2>1. asking' \subseteq Calls
    BY <1>0, <1>5 DEF M!AssignTask
  <2> QED  BY <1>5, <2>1, TaskKeeps
<1>6. ASSUME NEW c \in Calls, NEW a \in M!Actors, NEW s \in M!Subjects, NEW to \in M!Statuses, M!Transition(c, a, s, to)
      PROVE  MissionIInv'
  <2>1. asking' \subseteq Calls
    BY <1>0, <1>6 DEF M!Transition
  <2> QED  BY <1>6, <2>1, TransitionSound, DecideKeeps
<1>7. ASSUME NEW c \in Calls, M!Write(c)
      PROVE  MissionIInv'
  BY <1>7, MissionWriteKeeps
<1>8. ASSUME NEW c \in Calls, M!Fail(c)
      PROVE  MissionIInv'
  BY <1>8, FailKeeps
<1> QED  BY <1>1, <1>2, <1>3, <1>4, <1>5, <1>6, <1>7, <1>8 DEF M!Next

(* The inductive invariant holds throughout. *)
THEOREM MissionInvariant ==
  ASSUME M!MissionConstants
  PROVE  M!Spec => []MissionIInv
<1>1. M!Init => MissionIInv
  BY MissionInitKeeps
<1>2. MissionIInv /\ [M!Next]_M!vars => MissionIInv'
  BY MissionNextKeeps
<1> QED  BY <1>1, <1>2, PTL DEF M!Spec

(* No version of a requirement takes back what an earlier one named or how *)
(* urgent it was, however many callers fold into it (missions.py).         *)
THEOREM NothingIsTakenBack ==
  ASSUME M!MissionConstants
  PROVE  M!Spec => []M!FoldsKeepEverything
<1>1. MissionIInv => M!FoldsKeepEverything
  BY DEF MissionIInv
<1> QED  BY <1>1, MissionInvariant, PTL

(* Requirements, requests and tasks move only from where they stand and    *)
(* along their flow, and only the people they are for end them             *)
(* (missions.py:3-5).                                                      *)
THEOREM SubjectsKeepToTheirPaths ==
  ASSUME M!MissionConstants
  PROVE  M!Spec => []M!PathsHold
<1>1. MissionIInv => M!PathsHold
  <2>1. SUFFICES ASSUME MissionIInv, NEW i \in M!Of("transition")
                 PROVE  /\ mlog[i].from = M!StatusAt(mlog[i].subject, i - 1)
                        /\ mlog[i].to \in M!Flow(mlog[i].subject, mlog[i].from)
                        /\ mlog[i].to \in {"ANSWERED", "CLOSED_UNANSWERED", "DONE"} => mlog[i].actor \in Humans
                        /\ mlog[i].to = "DONE" =>
                             \A j \in M!Of("task") : mlog[j].subject = mlog[i].subject => mlog[j].assigned = mlog[i].actor
    BY DEF M!PathsHold
  <2>2. mlog[i].type = "transition" /\ mlog[i] \in M!Events
    BY <2>1 DEF MissionIInv, M!TypeOK, M!Of
  <2>3. mlog[i].subject \in M!Subjects
    BY <2>2, Fields DEF M!Transitions
  <2> QED  BY <2>1, <2>3 DEF MissionIInv, PathsOfSubjects
<1> QED  BY <1>1, MissionInvariant, PTL

-----------------------------------------------------------------------------
(***************************************************************************)
(* Both workflows, as the instance composes them.                          *)
(***************************************************************************)
(* A behaviour of the two is a behaviour of each. *)
LEMMA BothWorkflows == MCSpec => Spec /\ M!Spec
<1>1. MCInit => Init /\ M!Init
  BY DEF MCInit
<1>2. [MCNext]_<<vars, missionVars, part>> => [Next]_vars
  BY DEF MCNext
<1>3. [MCNext]_<<vars, missionVars, part>> => [M!Next]_(M!vars)
  BY DEF MCNext, missionVars, M!vars
<1> QED  BY <1>1, <1>2, <1>3, PTL DEF MCSpec, Spec, M!Spec

(* What moves from status to status moves along its table and from where   *)
(* it last came to, an alert and whatever is asked and done about it.      *)
THEOREM PathsAreKept == MCSpec => []PathsHold
<1>1. Spec => []MovesAreConnected
  BY AlertsMoveFromWhereTheyStand
<1>2. M!Spec => []M!PathsHold
  BY MissionsAssumption, SubjectsKeepToTheirPaths
<1>3. MovesAreConnected /\ M!PathsHold => PathsHold
  BY DEF PathsHold
<1> QED  BY <1>1, <1>2, <1>3, BothWorkflows, PTL

(* No version of a requirement takes back what an earlier one named or how *)
(* urgent it was.                                                          *)
THEOREM FoldsAreKept == MCSpec => []FoldsKeepEverything
<1>1. M!Spec => []M!FoldsKeepEverything
  BY MissionsAssumption, NothingIsTakenBack
<1>2. M!FoldsKeepEverything => FoldsKeepEverything
  BY DEF FoldsKeepEverything
<1> QED  BY <1>1, <1>2, BothWorkflows, PTL
=============================================================================
