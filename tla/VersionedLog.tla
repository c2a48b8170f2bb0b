----------------------------- MODULE VersionedLog -----------------------------
(***************************************************************************)
(* What the engines of the semantic and the analytic plane are built on:   *)
(* records in versions, transitions recorded once per cause, review items, *)
(* and commands of many appends that go on with what they find on the way. *)
(*                                                                         *)
(* A process reads its copy of the log, and the copy catches up when the   *)
(* process appends.  So a command decides on its first event at any time,  *)
(* and on each later one when the one before it is appended: Settle brings *)
(* the rest of a command up to the log it has just caught up with.  What   *)
(* is brought up is what the code computes late (the next version, whether *)
(* a transition or an item is recorded already); what it read early stays. *)
(***************************************************************************)
EXTENDS CommandLog, FiniteSets, SequencesExt

CONSTANTS
  MaxLen,   \* bound: events in the log, decided ones included
  MaxSteps  \* bound: steps a command takes between two events

ASSUME VersionedLogAssumption == MaxLen \in Nat /\ MaxSteps \in Nat

Versions(l, type, id) == {i \in DOMAIN l : l[i].type = type /\ l[i].id = id}
Known(l, type, id)    == Versions(l, type, id) # {}
Current(l, type, id)  == l[Max(Versions(l, type, id))]
NextVersion(l, e)     == Cardinality(Versions(l, e.type, e.id)) + 1

(* record_transition names a transition by its subject, type and cause (a  *)
(* tuple that begins with a word); ensure_transition asks for any one of   *)
(* that type.                                                              *)
Transition(id, what, cause) == [type |-> "transition", id |-> id, what |-> what, cause |-> cause]
Ensure(id, what, cause)     == [type |-> "ensure", id |-> id, what |-> what, cause |-> cause]
Recorded(l, t)      == \E i \in Versions(l, t.type, t.id) : l[i].what = t.what /\ l[i].cause = t.cause
Marked(l, id, what) == \E i \in Versions(l, "transition", id) : l[i].what = what

(* A review item is opened once, and closed only while it is open. *)
Item(id, status)  == [type |-> "item", id |-> id, status |-> status,
                      version |-> IF status = "OPEN" THEN 0 ELSE 1]
IsOpen(l, id)     == Known(l, "item", id) /\ Current(l, "item", id).status = "OPEN"
Superfluous(l, e) == CASE e.type = "transition" -> Recorded(l, e)
                       [] e.type = "ensure" -> Marked(l, e.id, e.what)
                       [] e.type = "item" /\ e.status = "OPEN" -> Known(l, "item", e.id)
                       [] e.type = "item" /\ e.status = "RESOLVED" -> ~IsOpen(l, e.id)
                       [] e.type = "alert" -> Known(l, "alert", e.id)
                       [] OTHER -> FALSE

(* A new record says version 1 whatever the log says by then; a revision   *)
(* asks for the next version just before it is appended.                   *)
(* Fault: a new record takes whatever version is next. *)
StampNext(l, e) == IF "version" \in DOMAIN e THEN [e EXCEPT !.version = NextVersion(l, e)]
                   ELSE IF e.type = "ensure" THEN Transition(e.id, e.what, e.cause) ELSE e
Versioned(e) == "version" \in DOMAIN e
Stamp(l, e)  == CASE Versioned(e) -> [e EXCEPT !.version = IF @ = 0 THEN 1 ELSE NextVersion(l, e)]
                  [] e.type = "ensure" -> Transition(e.id, e.what, e.cause)
                  [] OTHER -> e

(* The events at some positions, in their order. *)
Only(events, at) ==
  LET Kept[n \in 0 .. Len(events)] ==
        IF n = 0 THEN <<>> ELSE IF n \in at THEN Append(Kept[n - 1], events[n]) ELSE Kept[n - 1]
  IN  Kept[Len(events)]

(* Sequences one after the other. *)
Flat(parts) ==
  LET Joint[n \in 0 .. Len(parts)] == IF n = 0 THEN <<>> ELSE Joint[n - 1] \o parts[n] IN Joint[Len(parts)]

StampFirst(l, rest) == IF rest = <<>> THEN <<>> ELSE <<Stamp(l, Head(rest))>> \o Tail(rest)
Settle(l, events)   == StampFirst(l, Only(events, {n \in DOMAIN events : ~Superfluous(l, events[n])}))

(* A set in an order, what comes in no order of the two in any.            *)
Arranged(S, Before(_, _)) ==
  LET s        == SetToSeq(S)
      Place(n) == Cardinality({m \in DOMAIN s : Before(s[m], s[n]) \/ (m <= n /\ ~Before(s[n], s[m]))})
  IN  [k \in DOMAIN s |-> s[CHOOSE n \in DOMAIN s : Place(n) = k]]

(* A command may go on with something it works out on the way: a step that *)
(* stands first is replaced by what it comes to on the log of the moment.  *)
Step(what, id) == [type |-> "step", what |-> what, id |-> id]
Ahead(Continue(_, _), l, events) ==
  LET One(q) == IF q # <<>> /\ Head(q).type = "step"
                THEN Settle(l, Continue(l, Head(q)) \o Tail(q)) ELSE q
      Run[n \in 0 .. MaxSteps] == IF n = 0 THEN Settle(l, events) ELSE One(Run[n - 1])
  IN  Run[MaxSteps]

(* The store refuses a version that is not the next one under its lock. *)
Fits(e) == Versioned(e) => e.version = NextVersion(log, e)

(***************************************************************************)
(* Commands: a decision, and its events one by one.                        *)
(***************************************************************************)
Idle(c) == ~Ready(c)
Planned == Len(log) + MapThenSumSet(LAMBDA c : Len(todo[c]), Calls)

Do(Continue(_, _), c, events) ==
  \E first \in {Ahead(Continue, log, events)} :
    first # <<>> /\ Planned + Len(first) <= MaxLen /\ Decide(c, first)

(* A command that decides on all its events at once. *)
AllAtOnce(l, step) == <<>>
Record(c, events)  == Idle(c) /\ Do(AllAtOnce, c, events)

WriteAnd(Continue(_, _), c) ==
  /\ Ready(c) /\ Fits(Head(todo[c]))
  /\ LET l == Append(log, Head(todo[c]))
     IN  log' = l /\ todo' = [todo EXCEPT ![c] = Ahead(Continue, l, Tail(@))]

Happen(e) == Planned < MaxLen /\ Elsewhere(e)

Evidence(l, type) == {l[i] : i \in {j \in DOMAIN l : l[j].type = type}}

(***************************************************************************)
(* Shared by the properties.                                               *)
(***************************************************************************)
Revisions(type) == {r \in Of(type) \X Of(type) :
  log[r[1]].id = log[r[2]].id /\ log[r[2]].version = log[r[1]].version + 1}
=============================================================================
