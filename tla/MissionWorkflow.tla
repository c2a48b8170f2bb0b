-------------------------- MODULE MissionWorkflow --------------------------
(***************************************************************************)
(* Information requirements, evidence requests and analyst tasks           *)
(* (curunir_operational/missions.py).  One requirement is followed, with   *)
(* the requests made for it and some tasks.                                *)
(***************************************************************************)
EXTENDS CommandLog

CONSTANTS
  Humans, Services,  \* principals, by actor_kind
  Affected,          \* ids a requirement may name
  Priorities,        \* REQUIREMENT_PRIORITIES, as ranks
  Requests, Tasks,   \* ids of evidence requests and tasks
  Requirement,       \* the id of the requirement
  MaxLen             \* bound on the log

Actors == Humans \cup Services
Subjects == {Requirement} \cup Requests \cup Tasks

MissionConstants ==
  /\ Humans \cap Services = {} /\ Priorities \subseteq Nat /\ MaxLen \in Nat
  /\ Requirement \notin Requests \cup Tasks /\ Requests \cap Tasks = {}

VARIABLE asking  \* calls of request_evidence that have yet to move the requirement

vars == <<log, todo, asking>>

Statuses ==
  {"OPEN", "EVIDENCE_PENDING", "ANSWERED", "CLOSED_UNANSWERED", "FULFILLED", "FAILED",
   "ASSIGNED", "IN_PROGRESS", "BLOCKED", "DONE", "ABANDONED"}

Requirements == [type : {"requirement"}, version : Nat, priority : Priorities, affected : SUBSET Affected]
RequestRecords == [type : {"request"}, subject : Requests]
TaskRecords    == [type : {"task"}, subject : Tasks, assigned : Actors]
Transitions    == [type : {"transition"}, subject : Subjects, from : Statuses, to : Statuses, actor : Actors]
Events == Requirements \cup RequestRecords \cup TaskRecords \cup Transitions

Init == CommandInit /\ asking = {}

-----------------------------------------------------------------------------
(* REQUIREMENT_FLOW, EVIDENCE_REQUEST_FLOW, TASK_FLOW. *)
Flow(s, from) ==
  IF s = Requirement THEN
    CASE from = "OPEN"             -> {"EVIDENCE_PENDING", "ANSWERED", "CLOSED_UNANSWERED"}
      [] from = "EVIDENCE_PENDING" -> {"OPEN", "ANSWERED", "CLOSED_UNANSWERED"}
      [] OTHER                     -> {}
  ELSE IF s \in Requests THEN
    IF from = "OPEN" THEN {"FULFILLED", "FAILED"} ELSE {}
  ELSE
    CASE from = "ASSIGNED"    -> {"IN_PROGRESS", "BLOCKED", "ABANDONED"}
      [] from = "IN_PROGRESS" -> {"BLOCKED", "DONE", "ABANDONED"}
      [] from = "BLOCKED"     -> {"IN_PROGRESS", "ABANDONED"}
      [] OTHER                -> {}

HumanOnly(s) ==
  IF s = Requirement THEN {"ANSWERED", "CLOSED_UNANSWERED"}
  ELSE IF s \in Tasks THEN {"DONE"} ELSE {}

Latest == {log[i] : i \in Newest(Of("requirement"))}

Recorded(s) ==
  IF s = Requirement THEN Of("requirement")
  ELSE {i \in Of("request") \cup Of("task") : log[i].subject = s}

Assigned(s) == {log[i].assigned : i \in {j \in Of("task") : log[j].subject = s}}

(* _status_of as of position n: the last transition, or how it started. *)
MovesTo(s, n) == {i \in Of("transition") : i <= n /\ log[i].subject = s}
StatusAt(s, n) ==
  IF MovesTo(s, n) # {} THEN log[CHOOSE i \in Newest(MovesTo(s, n)) : TRUE].to
  ELSE IF s \in Tasks THEN "ASSIGNED" ELSE "OPEN"
Status(s) == StatusAt(s, Len(log))

-----------------------------------------------------------------------------
(* Commands.                                                               *)

Idle(c) == todo[c] = <<>> /\ c \notin asking

Larger(p, q) == IF p >= q THEN p ELSE q


Folded(r, priority, affected) ==
  [r EXCEPT !.version = @ + 1, !.priority = Larger(@, priority), !.affected = @ \cup affected]

(* open_requirement: a question that is there already takes the rest in.   *)
OpenRequirement(c, priority, affected) ==
  /\ Idle(c)
  /\ \/ /\ Latest = {}
        /\ Decide(c, <<[type |-> "requirement", version |-> 1, priority |-> priority, affected |-> affected]>>)
     \/ \E r \in Latest :
          /\ priority > r.priority \/ ~(affected \subseteq r.affected)
          /\ Decide(c, <<Folded(r, priority, affected)>>)
  /\ UNCHANGED asking

(* request_evidence, whatever the requirement's status ... *)
RequestEvidence(c, q) ==
  /\ Idle(c) /\ Latest # {}
  /\ Decide(c, <<[type |-> "request", subject |-> q]>>)
  /\ asking' = asking \cup {c}

Awaiting(a) ==
  [type |-> "transition", subject |-> Requirement, from |-> "OPEN", to |-> "EVIDENCE_PENDING", actor |-> a]

(* ... and its second half, which reads the status anew.                   *)
AwaitEvidence(c, a) ==
  /\ c \in asking /\ todo[c] = <<>>
  /\ IF Status(Requirement) = "OPEN"
     THEN Decide(c, <<Awaiting(a)>>)
     ELSE UNCHANGED <<log, todo>>
  /\ asking' = asking \ {c}

(* assign_task; the id of a task is a digest of the time as well. *)
AssignTask(c, t, a) ==
  /\ Idle(c) /\ Recorded(t) = {}
  /\ \A b \in Calls : \A i \in 1 .. Len(todo[b]) : todo[b][i].type = "task" => todo[b][i].subject # t
  /\ Decide(c, <<[type |-> "task", subject |-> t, assigned |-> a]>>)
  /\ UNCHANGED asking

(* The checks of transition that depend on more than the call's arguments. *)
MayMove(a, s, to) ==
  /\ Recorded(s) # {} /\ to \in Flow(s, Status(s))
  /\ to \in HumanOnly(s) => a \in Humans
  /\ to = "DONE" => a \in Assigned(s)

Transition(c, a, s, to) ==
  /\ Idle(c) /\ MayMove(a, s, to)
  /\ Decide(c, <<[type |-> "transition", subject |-> s, from |-> Status(s), to |-> to, actor |-> a]>>)
  /\ UNCHANGED asking

-----------------------------------------------------------------------------
(* What happens to a decided event.                                        *)

(* Fault: transition passes no condition. *)
FitsUnconditioned(e) == e.type = "requirement" => NextAfter(Latest, e.version)

(* Fault: requirements are not among the versioned records. *)
FitsUnversioned(e) == e.type = "transition" => e.from = Status(e.subject)

(* _still_at, and the version check of the store. *)
Fits(e) ==
  /\ e.type = "transition" => e.from = Status(e.subject)
  /\ e.type = "requirement" => NextAfter(Latest, e.version)

Write(c) == Ready(c) /\ Len(log) < MaxLen /\ Fits(Head(todo[c])) /\ WriteNext(c) /\ UNCHANGED asking

(* A refusal under the lock, an error, or the end of the process. *)
Fail(c) ==
  /\ ~Idle(c)
  /\ todo' = [todo EXCEPT ![c] = <<>>] /\ asking' = asking \ {c}
  /\ UNCHANGED log

Next ==
  \E c \in Calls :
    \/ \E p \in Priorities, affected \in SUBSET Affected : OpenRequirement(c, p, affected)
    \/ \E q \in Requests : RequestEvidence(c, q)
    \/ \E a \in Actors : AwaitEvidence(c, a)
    \/ \E t \in Tasks, a \in Actors : AssignTask(c, t, a)
    \/ \E a \in Actors, s \in Subjects, to \in Statuses : Transition(c, a, s, to)
    \/ Write(c)
    \/ Fail(c)

Spec == Init /\ [][Next]_vars

-----------------------------------------------------------------------------
(* Properties.                                                             *)

TypeOK ==
  /\ log \in Seq(Events) /\ todo \in [Calls -> Seq(Events)] /\ asking \subseteq Calls

(* Every transition starts where its subject stands when it is recorded    *)
(* and goes where the flow leads; so whatever races, a subject that has    *)
(* come to an end is never moved again.  A requirement ends by a person    *)
(* and a task is done by the person it was assigned to (missions.py:3-5).  *)
PathsHold ==
  \A i \in Of("transition") :
    /\ log[i].from = StatusAt(log[i].subject, i - 1) /\ log[i].to \in Flow(log[i].subject, log[i].from)
    /\ log[i].to \in {"ANSWERED", "CLOSED_UNANSWERED", "DONE"} => log[i].actor \in Humans
    /\ log[i].to = "DONE" =>
         \A j \in Of("task") : log[j].subject = log[i].subject => log[j].assigned = log[i].actor

(* No version of a requirement takes back what an earlier one named or how *)
(* urgent it was, when callers fold into it at the same time.              *)
FoldsKeepEverything ==
  \A i, j \in Of("requirement") : i < j =>
    /\ log[j].version > log[i].version
    /\ log[i].affected \subseteq log[j].affected /\ log[i].priority <= log[j].priority
=============================================================================
