----------------------------- MODULE Workbench -----------------------------
(***************************************************************************)
(* The commands of the workbench (curunir_workbench/commands.py), seen     *)
(* from what their actors may see and what they write is marked with; what *)
(* else each of them does is in the module of its component.  A command    *)
(* checks what it cites and chooses a marking on a copy of the mission.    *)
(* The store has the last word: under the append lock it raises the        *)
(* marking to what the earlier version and the records cited carry by then *)
(* (curunir_operational/security.py).                                      *)
(***************************************************************************)
EXTENDS CommandLog, Markings, FiniteSets

CONSTANTS
  Ids,        \* identifiers of records
  Actors, Human, Clearance,  \* the people and services, and their contexts
  System,     \* whatever writes on its own account: connectors, engines, importers
  Default,    \* the marking the server gives what a command writes
  Bases,      \* the markings the system starts from
  MaxCited,   \* bound on what one call cites
  MaxLen      \* bound on the log

WorkbenchConstants ==
  /\ Human \subseteq Actors /\ Clearance \in [Actors -> Context] /\ System \notin Actors
  /\ Default \in Marking /\ Bases \subseteq Marking
  /\ MaxCited \in Nat /\ MaxLen \in Nat

Created  == {"requirement", "task", "hypothesis", "forecast", "watch", "view", "report", "annotation", "warning"}
Imported == {"evidence", "objective", "request", "review", "proposal", "recommendation", "route"}

(* Families that are appended once, and families that are appended again   *)
(* under the same, missing, version; all others count their versions.      *)
Single      == {"task", "request", "recommendation"}
Unversioned == {"watch", "proposal"}
Versioned   == (Created \cup Imported) \ (Single \cup Unversioned)

References == [id : Ids, version : Nat]  \* of a version, or with 0 of the newest one
Record ==
  [kind : Created \cup Imported \cup {"transition"}, id : Ids, version : Nat, by : Actors \cup {System},
   cites : SUBSET References, marking : Marking]

workbenchVars == <<log, todo>>

WorkbenchInit == CommandInit

-----------------------------------------------------------------------------
(* What the log holds.  A transition is filed under its subject and has no *)
(* versions.                                                               *)

Held(id) == {i \in 1 .. Len(log) : log[i].id = id /\ log[i].kind # "transition"}

(* The projection shows the last append of the highest version. *)
Current(id) ==
  {i \in Held(id) : \A j \in Held(id) : log[j].version < log[i].version \/ (log[j].version = log[i].version /\ j <= i)}

(* Admission takes the first append of the highest version, or of the one  *)
(* that is cited; an id that no record has stands for no record.           *)
Meant(ref) == {i \in Held(ref.id) : ref.version \in {0, log[i].version}}
Resolved(ref) ==
  {i \in Meant(ref) : \A j \in Meant(ref) : log[j].version < log[i].version \/ (log[j].version = log[i].version /\ i <= j)}

NewestOf(ids) == {[id |-> id, version |-> 0] : id \in ids}

-----------------------------------------------------------------------------
(* Admission, in store.append.                                             *)

Prior(r) == IF r.kind = "transition" THEN {} ELSE Resolved([id |-> r.id, version |-> 0])
Cited(r) == UNION {Resolved(ref) : ref \in r.cites}

(* Fault: the version before is looked at, and what is cited is not. *)
AdmittedUncited(r) == [r EXCEPT !.marking = Inherited(r.marking, {log[i].marking : i \in Prior(r)})]

(* admit_marking *)
Admitted(r) == [r EXCEPT !.marking = Inherited(r.marking, {log[i].marking : i \in Prior(r) \cup Cited(r)})]

(* A record that is not well formed is refused, and so is a version that   *)
(* is not the next one.  An id is of one family.                           *)
Accepts(r) ==
  /\ r \in Record
  /\ r.kind # "transition" => \A i \in Held(r.id) : log[i].kind = r.kind /\ r.kind \notin Single
  /\ r.kind \in Versioned => NextAfter({log[i] : i \in Prior(r)}, r.version)

Put(r) == Accepts(r) /\ log' = Append(log, Admitted(r))

AppendNext(c) ==
  /\ Ready(c)
  /\ Put(Head(todo[c]))
  /\ todo' = [todo EXCEPT ![c] = Tail(@)]

-----------------------------------------------------------------------------
(* What an actor sees, and what it may write.                              *)

Sees(a, id) == \E i \in Current(id) : CanView(log[i].marking, Clearance[a])

(* _validate_inbound: hidden and missing are refused alike. *)
Known(a, ids) == \A id \in ids : Sees(a, id)

(* _soft_reject: names from outside the mission pass, hidden ones do not. *)
NotHidden(a, ids) == \A id \in ids : Held(id) # {} => Sees(a, id)

(* _ref_markings *)
MarkingsOf(ids) == {log[i].marking : i \in UNION {Current(id) : id \in ids}}

(* marked: the default, or raised into what the actor holds. *)
Marked(a, roles) ==
  {[Default EXCEPT !.compartments = k, !.minRole = role] :
     k \in {Default.compartments} \cup (SUBSET Clearance[a].compartments \ {{}}),
     role \in {Default.minRole} \cup {r \in roles : Default.minRole < r /\ r <= Clearance[a].rank}}

(* _reference_marking: nobody writes what it could not read. *)
MayWrite(a, start, ids) ==
  Joinable(start, MarkingsOf(ids)) /\ CanView(MostRestrictive(start, MarkingsOf(ids)), Clearance[a])

(* _guard_reference_floor: what is cited fits under a marking that stays. *)
Carries(marking, cited) == Joinable(marking, cited) /\ MostRestrictive(marking, cited) = marking
Fits(marking, ids) == Carries(marking, MarkingsOf(ids))

-----------------------------------------------------------------------------
(* The shapes of what commands write.                                      *)

(* Views are the one family that is found by who wrote it. *)
New(kind, id, by, ids, marking) ==
  [kind |-> kind, id |-> id, version |-> 1, by |-> IF kind = "view" THEN by ELSE System,
   cites |-> NewestOf(ids), marking |-> marking]

NextVersion(r, ids) ==
  [r EXCEPT !.version = IF r.kind \in Versioned THEN @ + 1 ELSE @, !.cites = NewestOf(ids)]

(* A transition, decision or resolution beside its subject, marked as it. *)
Beside(r, ids) ==
  [r EXCEPT !.kind = "transition", !.version = 1, !.cites = NewestOf({r.id} \cup ids)]

CitedIds(r) == {ref.id : ref \in r.cites}
Few == {ids \in SUBSET Ids : Cardinality(ids) <= MaxCited}

Create(c, a, kind, id, ids, roles) ==
  /\ Held(id) = {} /\ Known(a, ids)
  /\ \E start \in Marked(a, roles) :
       /\ MayWrite(a, start, ids)
       /\ Decide(c, <<New(kind, id, a, ids, MostRestrictive(start, MarkingsOf(ids)))>>)

(* The record of that kind and id, if the actor sees it. *)
Subject(a, kind, id) == {log[i] : i \in {j \in Current(id) : log[j].kind = kind /\ CanView(log[j].marking, Clearance[a])}}

-----------------------------------------------------------------------------
(* Commands on the mission's own work.                                     *)

(* open_requirement: a question that is there already takes in more. *)
OpenRequirement(c, a, id, ids) ==
  \/ Create(c, a, "requirement", id, ids, {})
  \/ \E r \in Subject(a, "requirement", id) :
       /\ Known(a, ids) /\ Fits(r.marking, ids)
       /\ \E start \in Marked(a, {}) : MayWrite(a, start, ids)
       /\ Decide(c, <<NextVersion(r, CitedIds(r) \cup ids)>>)

AssignTask(c, a, id, ids) == Create(c, a, "task", id, ids, {})

TransitionWorkflow(c, a, id, ids) ==
  \E kind \in {"requirement", "task", "request"} : \E r \in Subject(a, kind, id) :
    /\ Known(a, ids) /\ Fits(r.marking, ids)
    /\ Decide(c, <<Beside(r, ids)>>)

ResolveReviewItem(c, a, id) ==
  /\ a \in Human
  /\ \E r \in Subject(a, "review", id) : Decide(c, <<NextVersion(r, CitedIds(r))>>)

ResolveModelProposal(c, a, id) ==
  \E r \in Subject(a, "proposal", id) : Decide(c, <<Beside(r, {}), NextVersion(r, CitedIds(r))>>)

(* request_model_proposal: the candidate carries all that the model saw. *)
RequestModelProposal(c, a, id, ids) ==
  LET shown == {log[i].marking : i \in UNION {Resolved(ref) : ref \in NewestOf(ids)}} IN
  /\ ids # {} /\ Held(id) = {}
  /\ \A i \in ids : Held(i) # {}
  /\ \A m \in shown : CanView(m, Clearance[a])
  /\ \E first \in shown :
       Joinable(first, shown) /\ Decide(c, <<New("proposal", id, a, ids, MostRestrictive(first, shown))>>)

DecideRecommendation(c, a, id) ==
  \E r \in Subject(a, "recommendation", id) : Decide(c, <<Beside(r, {})>>)

(* create_hypothesis cites nothing. *)
CreateHypothesis(c, a, id) == Create(c, a, "hypothesis", id, {}, {})

AssessHypothesis(c, a, id) ==
  /\ a \in Human
  /\ \E r \in Subject(a, "hypothesis", id) : Decide(c, <<NextVersion(r, CitedIds(r))>>)

LinkHypothesisClaim(c, a, id, claim) ==
  \E r \in Subject(a, "hypothesis", id) :
    /\ Sees(a, claim) /\ Fits(r.marking, {claim})
    /\ Decide(c, <<NextVersion(r, CitedIds(r) \cup {claim})>>)

-----------------------------------------------------------------------------
(* Forecasts and warnings.                                                 *)

AuthorForecast(c, a, id, ids) == a \in Human /\ Create(c, a, "forecast", id, ids, {})

(* move_forecast: the movement keeps the forecast's marking. *)
MoveForecast(c, a, id, ids) ==
  /\ a \in Human /\ Known(a, ids)
  /\ \E r \in Subject(a, "forecast", id) :
       /\ Fits(r.marking, ids)
       /\ Decide(c, <<NextVersion(r, CitedIds(r)), Beside(r, ids)>>)

ResolveForecast(c, a, id, ids) ==
  /\ a \in Human /\ Known(a, ids)
  /\ \E r \in Subject(a, "forecast", id) :
       /\ Fits(r.marking, ids)
       /\ Decide(c, <<NextVersion(r, CitedIds(r) \cup ids), Beside(r, ids)>>)

(* project_forecast_warning: two records one may read can combine into one *)
(* that one may not.                                                       *)
ProjectForecastWarning(c, a, id, forecast, objective) ==
  \E f \in Subject(a, "forecast", forecast), o \in Subject(a, "objective", objective) :
    /\ Held(id) = {}
    /\ MayWrite(a, f.marking, {objective})
    /\ Decide(c, <<New("warning", id, a, {forecast, objective}, MostRestrictive(f.marking, {o.marking}))>>)

-----------------------------------------------------------------------------
(* Collection, watches and views.                                          *)

(* launch_route: all that comes of a route carries its marking. *)
LaunchRoute(c, a, id, new) ==
  /\ Held(new) = {}
  /\ \E r \in Subject(a, "route", id) :
       Decide(c, <<New("evidence", new, a, {}, r.marking), NextVersion(r, CitedIds(r) \cup {new})>>)

AssignRoute(c, a, id, new) ==
  /\ Held(new) = {}
  /\ \E r \in Subject(a, "route", id) :
       Decide(c, <<New("task", new, a, CitedIds(r), r.marking), NextVersion(r, CitedIds(r) \cup {new})>>)

CreateWatch(c, a, id, ids) ==
  /\ NotHidden(a, ids) /\ Held(id) = {}
  /\ \E start \in Marked(a, {}) :
       /\ MayWrite(a, start, ids)
       /\ Decide(c, <<New("watch", id, a, ids, MostRestrictive(start, MarkingsOf(ids)))>>)

SetWatchActive(c, a, id) ==
  \E r \in Subject(a, "watch", id) : Decide(c, <<NextVersion(r, CitedIds(r))>>)

(* save_view: what is saved again keeps its marking. *)
SaveView(c, a, id, ids) ==
  /\ CanView(Default, Clearance[a])
  /\ \/ Create(c, a, "view", id, ids, {})
     \/ \E i \in Current(id) :
          /\ log[i].kind = "view" /\ log[i].by = a
          /\ Known(a, ids) /\ Fits(log[i].marking, ids)
          /\ Decide(c, <<NextVersion(log[i], ids)>>)

-----------------------------------------------------------------------------
(* Reports and annotations.                                                *)

CreateReport(c, a, id, ids) == Create(c, a, "report", id, ids, Roles)

EditReport(c, a, id, ids) ==
  \E r \in Subject(a, "report", id) :
    /\ Known(a, ids) /\ MayWrite(a, Default, ids)
    /\ Carries(r.marking, {MostRestrictive(Default, MarkingsOf(ids))})
    /\ Decide(c, <<NextVersion(r, ids)>>)

(* submit_report, approve_report, reject_report keep the report as it is. *)
MoveReport(c, a, id) ==
  \E r \in Subject(a, "report", id) : Decide(c, <<NextVersion(r, CitedIds(r))>>)

(* annotate: marked as the record it is on and the one it is anchored to;  *)
(* the annotation it answers has to be visible, and is cited.              *)
Annotate(c, a, id, target, anchors, parents) ==
  /\ CanView(Default, Clearance[a]) /\ Held(id) = {}
  /\ Sees(a, target) /\ Known(a, anchors)
  /\ \A p \in parents : Subject(a, "annotation", p) # {}
  /\ \E i \in Current(target) :
       /\ MayWrite(a, log[i].marking, anchors)
       /\ Decide(c, <<New("annotation", id, a, {target} \cup anchors \cup parents,
                          MostRestrictive(log[i].marking, MarkingsOf(anchors)))>>)

ResolveAnnotation(c, a, id) ==
  \E r \in Subject(a, "annotation", id) : Decide(c, <<NextVersion(r, CitedIds(r))>>)

-----------------------------------------------------------------------------
(* The rest of the program writes with markings of its own choosing, and   *)
(* may cite a version as well as a record.                                 *)

SystemRecord(kind, id, version, refs, base) ==
  [kind |-> kind, id |-> id, version |-> version, by |-> System, cites |-> refs, marking |-> base]

SystemWrites(kind, id, refs, base) ==
  /\ Held(id) = {}
  /\ Put(SystemRecord(kind, id, 1, refs, base))
  /\ UNCHANGED todo

SystemRefreshes(id, refs, base) ==
  \E i \in Current(id) :
    /\ log[i].kind \notin Single
    /\ Put(SystemRecord(log[i].kind, id, NextVersion(log[i], {}).version, refs, base))
    /\ UNCHANGED todo

(* What it may cite: a record, or a version of one that has a newer one.   *)
Citable ==
  UNION {LET Cite(version) == [id |-> id, version |-> version] IN
         {Cite(0) : i \in Held(id)} \cup {Cite(log[i].version) : i \in Held(id) \ Current(id)} : id \in Ids}

Command(c, a) ==
  \/ \E id \in Ids :
       \/ ResolveReviewItem(c, a, id)
       \/ ResolveModelProposal(c, a, id)
       \/ DecideRecommendation(c, a, id)
       \/ CreateHypothesis(c, a, id)
       \/ AssessHypothesis(c, a, id)
       \/ SetWatchActive(c, a, id)
       \/ MoveReport(c, a, id)
       \/ ResolveAnnotation(c, a, id)
  \/ \E id \in Ids, ids \in Few :
       \/ OpenRequirement(c, a, id, ids)
       \/ AssignTask(c, a, id, ids)
       \/ TransitionWorkflow(c, a, id, ids)
       \/ RequestModelProposal(c, a, id, ids)
       \/ AuthorForecast(c, a, id, ids)
       \/ MoveForecast(c, a, id, ids)
       \/ ResolveForecast(c, a, id, ids)
       \/ CreateWatch(c, a, id, ids)
       \/ SaveView(c, a, id, ids)
       \/ CreateReport(c, a, id, ids)
       \/ EditReport(c, a, id, ids)
  \/ \E id, other \in Ids :
       \/ LinkHypothesisClaim(c, a, id, other)
       \/ LaunchRoute(c, a, id, other)
       \/ AssignRoute(c, a, id, other)
       \/ \E third \in Ids : ProjectForecastWarning(c, a, id, other, third)
       \/ \E anchors, parents \in Few : Annotate(c, a, id, other, anchors, parents)

WorkbenchNext ==
  \/ Len(log) < MaxLen /\ \E c \in Calls, a \in Actors : Command(c, a)
  \/ Len(log) < MaxLen /\ \E c \in Calls : AppendNext(c)
  \/ \E c \in Calls : GiveUp(c)
  \/ /\ Len(log) < MaxLen
     /\ \E id \in Ids, refs \in {{}} \cup {{ref} : ref \in Citable}, base \in Bases :
          \/ \E kind \in Imported : SystemWrites(kind, id, refs, base)
          \/ SystemRefreshes(id, refs, base)

WorkbenchSpec == WorkbenchInit /\ [][WorkbenchNext]_workbenchVars

-----------------------------------------------------------------------------
(* Properties.                                                             *)

Covers(m, n) == \A ctx \in Context : CanView(m, ctx) => CanView(n, ctx)

(* What a citation is of, among families that count their versions. *)
Names(ref, r) ==
  r.kind \in Versioned /\ r.id = ref.id /\ ref.version \in {0, r.version}

(* Nothing is written down: whoever may see a record may see all that it   *)
(* was before, and all that it cites and that was there when it was        *)
(* written, whatever the writer knew of them, whatever marking it chose    *)
(* and whatever came in between (README.md:22-23, access.py:117-124).      *)
NoWriteDown ==
  \A j \in 1 .. Len(log) : \A i \in 1 .. j - 1 :
    (\/ log[i].id = log[j].id /\ log[i].kind = log[j].kind /\ log[i].kind \in Versioned
     \/ \E ref \in log[j].cites : Names(ref, log[i]))
    => Covers(log[j].marking, log[i].marking)

=============================================================================
