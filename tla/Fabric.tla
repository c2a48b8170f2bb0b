-------------------------------- MODULE Fabric --------------------------------
(***************************************************************************)
(* The fabric (registry.py, planner.py, executor.py, pivots.py,            *)
(* coverage.py, watch.py, mission_bridge.py): sources are described, needs *)
(* planned and searched for, targets watched; what comes back is kept      *)
(* before it is named, and what is different from the last time is what    *)
(* the semantic plane interprets.  What a source answers is given: an      *)
(* outcome, the body that is kept if there is one, the content that is     *)
(* seen (an error has one too), its records and what they lead to.         *)
(***************************************************************************)
EXTENDS Collection

CONSTANTS
  Web,         \* [sources -> the answers of the source]
  Watches,     \* [watches -> source, page]
  Queries,     \* [queries -> sources, in order]
  Needs,       \* [needs -> queries, in order]
  MaxSources,  \* sources asked per query
  MaxRequests, \* requests of a plan
  MaxFound     \* new or gone records that a run names

(* Every body that is kept can be read; and only a body shows a state,     *)
(* since an empty page is a failure (web_page.py), but for an error, which *)
(* shows its own and is not kept.  Records are read from a body.           *)
None    == ""
Nothing == <<>>
Searched == {"EXECUTED_WITH_RESULTS", "EXECUTED_EMPTY"}
Failed   == {"SOURCE_FAILED", "ACCESS_RESTRICTED", "POLICY_REFUSED"}
Truthful(answer) ==
  /\ answer.outcome \in Searched \cup Failed \cup {"NOT_ATTEMPTED"}
  /\ answer.body # None =>
       answer.outcome \in Searched /\ answer.body \in DOMAIN Readings /\ answer.seen = Readings[answer.body].says
  /\ answer.body = None /\ answer.outcome \notin Failed => answer.seen = Nothing
  /\ answer.body = None => DOMAIN answer.records = {}
  /\ IsFiniteSet(DOMAIN answer.records) /\ answer.leads \in Seq(DOMAIN Queries)

ASSUME FabricAssumption ==
  /\ MaxSources \in Nat /\ MaxRequests \in Nat /\ MaxFound \in Nat /\ None \notin DOMAIN Readings
  /\ \A s \in DOMAIN Web : \A answer \in Web[s] : Truthful(answer)
  /\ \A w \in DOMAIN Watches : Watches[w].source \in DOMAIN Web
  /\ \A q \in DOMAIN Queries : Queries[q] \in Seq(DOMAIN Web)
  /\ \A n \in DOMAIN Needs : Needs[n] \in Seq(DOMAIN Queries)

Upto(n, s) == SubSeq(s, 1, Min({n, Len(s)}))
Latest(l, type) == {Current(l, type, id) : id \in {l[i].id : i \in {j \in DOMAIN l : l[j].type = type}}}

(***************************************************************************)
(* Sources: a descriptor first, then what the source can do.               *)
(***************************************************************************)
RegisterSource(s) == <<[type |-> "descriptor", id |-> s], [type |-> "profile", id |-> s]>>
Usable(l, s)      == Known(l, "descriptor", s) /\ Known(l, "profile", s)
Eligible(l, q)    == Only(Queries[q], {n \in DOMAIN Queries[q] : Usable(l, Queries[q][n])})

(***************************************************************************)
(* One query against one source.                                           *)
(***************************************************************************)
NoAnswer(outcome) == [outcome |-> outcome, body |-> None, seen |-> Nothing, records |-> Nothing, leads |-> <<>>]
Answer(usable, answer) == IF usable THEN answer ELSE NoAnswer("NOT_ATTEMPTED")
Kept(answer) == IF answer.outcome \in Searched /\ answer.body # None THEN <<answer.body>> ELSE <<>>

ExecutionOf(plan, s, answer) ==
  [type |-> "execution", id |-> <<plan, s>>, n |-> 0, outcome |-> answer.outcome, manifestations |-> ToSet(Kept(answer))]
Status(s, kind) == [type |-> "status", id |-> s, kind |-> kind]
StatusAfter(l, s, outcome) ==
  CASE ~Known(l, "descriptor", s) -> <<>>
    [] outcome \in Searched -> <<Status(s, "SUCCESS")>>
    [] outcome \in {"SOURCE_FAILED", "ACCESS_RESTRICTED"} -> <<Status(s, "FAILURE")>>
    [] OTHER -> <<>>
(* Fault: the execution is recorded before what it names. *)
FinishFirst(l, plan, s, answer) ==
  <<ExecutionOf(plan, s, answer)>> \o [n \in DOMAIN Kept(answer) |-> [type |-> "manifestation", id |-> Kept(answer)[n]]]
Finish(l, plan, s, answer) ==
  [n \in DOMAIN Kept(answer) |-> [type |-> "manifestation", id |-> Kept(answer)[n]]]
  \o <<ExecutionOf(plan, s, answer)>> \o StatusAfter(l, s, answer.outcome)

(***************************************************************************)
(* Plans and what they lead to.                                            *)
(***************************************************************************)
CurrentPivots(l) == {p.id : p \in {q \in Latest(l, "pivot") : q.status \in {"PROPOSED", "ACCEPTED"}}}
PlanDiscovery(l, need, generation) ==
  LET queries == Upto(MaxRequests, IF generation = "INITIAL" THEN Needs[need] ELSE SetToSeq(CurrentPivots(l)))
  IN  <<[type |-> "plan", id |-> <<need, generation>>, queries |-> queries,
         unmatched |-> {q \in ToSet(queries) : Eligible(l, q) = <<>>}]>>
ExecutePlan(l, plan, web) ==
  LET Ask1(q) == LET order == Upto(MaxSources, Eligible(l, q))
                 IN  [n \in DOMAIN order |-> Step("single", <<plan, order[n], web[<<q, order[n]>>]>>)]
  IN  IF ~Known(l, "plan", plan) THEN <<>>
      ELSE LET queries == Current(l, "plan", plan).queries
           IN  Upto(MaxRequests, Flat([n \in DOMAIN queries |-> Ask1(queries[n])]))
ProposePivots(answer) ==
  IF Kept(answer) = <<>> THEN <<>>
  ELSE [n \in DOMAIN answer.leads |-> [type |-> "pivot", id |-> answer.leads[n], status |-> "PROPOSED"]]
ResolvePivot(l, p, status) == IF Known(l, "pivot", p) THEN <<[type |-> "pivot", id |-> p, status |-> status]>> ELSE <<>>

(* How far the sources were searched for a need: one record per source.    *)
OutcomesFor(l, need, s) ==
  {l[i].outcome : i \in {j \in DOMAIN l : l[j].type = "execution" /\ l[j].id[2] = s
                           /\ l[j].id[1] \in {p.id : p \in {q \in Latest(l, "plan") : q.id[1] = need}}}}
Coverage(l, need, s) ==
  LET outcomes == OutcomesFor(l, need, s)
      searched == outcomes \cap Searched # {}  failed == "SOURCE_FAILED" \in outcomes
      refused  == outcomes \cap {"ACCESS_RESTRICTED", "POLICY_REFUSED"} # {}
  IN  CASE outcomes = {} -> IF Known(l, "profile", s) THEN "NOT_SEARCHED" ELSE "UNKNOWN"
        [] searched -> IF failed \/ refused THEN "PARTIALLY_COVERED" ELSE "COVERED"
        [] refused /\ ~failed /\ ~searched -> "ACCESS_RESTRICTED"
        [] failed /\ ~searched -> "SOURCE_FAILED"
        [] OTHER -> "UNKNOWN"
AssessCoverage(l, need) ==
  LET sources == SetToSeq({d.id : d \in Latest(l, "descriptor")})
  IN  [n \in DOMAIN sources |-> [type |-> "coverage", id |-> <<need, sources[n]>>, state |-> Coverage(l, need, sources[n])]]

(***************************************************************************)
(* Watches.  A run is compared with the run before it, whatever came of    *)
(* that one, and is recorded with the names of the changes that follow it. *)
(***************************************************************************)
Watch(w, active) == [type |-> "watch", id |-> w, active |-> active]
Active(l)        == {w.id : w \in {v \in Latest(l, "watch") : v.active}}
Change(w, run, class, prior, current, cited) ==
  [type |-> "fabric change", id |-> <<prior, current>>, failed |-> class = "RETRIEVAL_FAILURE",
   class |-> class, watch |-> w, run |-> run, cited |-> cited]
DiffRecords(w, run, before, now, cited) ==
  LET gone  == Upto(MaxFound, SetToSeq(DOMAIN before \ DOMAIN now))
      new   == Upto(MaxFound, SetToSeq(DOMAIN now \ DOMAIN before))
      moved == SetToSeq({r \in DOMAIN now \cap DOMAIN before : now[r] # 0 /\ before[r] # 0 /\ now[r] # before[r]})
  IN  [n \in DOMAIN new |-> Change(w, run, "NEW_OBJECT", None, new[n], cited)]
      \o [n \in DOMAIN gone |-> Change(w, run, "DISAPPEARED_OBJECT", gone[n], None, cited)]
      \o [n \in DOMAIN moved |-> Change(w, run, "CHANGED_SOURCE_RECORD", moved[n], moved[n], cited)]
DiffChanges(l, w, run, answer) ==
  LET first == ~Known(l, "run", w)  previous == Current(l, "run", w)
  IN  CASE answer.outcome \in Failed -> <<Change(w, run, "RETRIEVAL_FAILURE", IF first THEN None ELSE previous.body, None, {})>>
        [] answer.outcome \notin Failed /\ first -> <<>>
        [] answer.outcome \notin Failed /\ ~first /\ Watches[w].page ->
             IF previous.seen = Nothing \/ answer.seen = Nothing \/ previous.seen = answer.seen THEN <<>>
             ELSE <<Change(w, run, "CONTENT_CHANGED", previous.body, answer.body, ToSet(Kept(answer)))>>
        [] OTHER -> DiffRecords(w, run, previous.records, answer.records, ToSet(Kept(answer)))
RunWatch(l, w, by, given) ==
  LET answer  == Answer(Usable(l, Watches[w].source), given)
      run     == <<by, Len(l)>>
      changes == DiffChanges(l, w, run, answer)
  IN  Finish(l, <<w, run>>, Watches[w].source, answer)
      \o <<[type |-> "run", id |-> w, run |-> run, outcome |-> answer.outcome, body |-> answer.body,
            seen |-> answer.seen, records |-> answer.records, changes |-> ToSet(changes)]>>
      \o changes
(* Every watch that is due is run once; when it is due is a matter of the  *)
(* clock, so that any active ones may be.                                  *)
Tick(l, due, by, web) ==
  LET order == SetToSeq(due \cap Active(l)) IN [n \in DOMAIN order |-> Step("watch", <<order[n], by, web[<<order[n], Watches[order[n]].source>>]>>)]

(* A change that cites nothing, and is no failure, cannot be alerted on.   *)
AlertFromChange(e) ==
  IF e.class # "RETRIEVAL_FAILURE" /\ e.cited = {} THEN <<>> ELSE <<[type |-> "alert", id |-> <<"fabric", e>>]>>

(***************************************************************************)
(* Commands.  A body is retrieved by one call.                             *)
(***************************************************************************)
FabricSteps == {"single", "watch"}
FabricContinue(l, step) ==
  LET id == step.id IN
  CASE step.what = "single" -> LET answer == Answer(Usable(l, id[2]), id[3])
                               IN  Finish(l, id[1], id[2], answer) \o ProposePivots(answer)
    [] step.what = "watch"  -> RunWatch(l, id[1], id[2], id[3])
    [] OTHER -> CollectionContinue(l, step)
FabricDo(c, events) == Idle(c) /\ Do(FabricContinue, c, events)

Bodies(e) == CASE e.type = "manifestation" -> {e.id}
               [] e.type = "step" /\ e.what \in FabricSteps -> {e.id[3].body}
               [] OTHER -> {}
Taken == ({log[i].id : i \in Of("manifestation")} \cup UNION {UNION {Bodies(e) : e \in ToSet(todo[c])} : c \in Calls}) \ {None}
Given(asked) == {web \in [asked -> UNION {Web[s] : s \in DOMAIN Web}] :
  /\ \A a \in asked : web[a] \in Web[a[2]] /\ web[a].body \notin Taken
  /\ \A a, b \in asked : a # b /\ web[a].body # None => web[a].body # web[b].body}
Asked(plan)  == UNION {{q} \X ToSet(Queries[q]) : q \in ToSet(Current(log, "plan", plan).queries)}

Register(c) == \E s \in DOMAIN Web : ~Usable(log, s) /\ Record(c, RegisterSource(s))
PlanNeed(c) == \E need \in DOMAIN Needs, generation \in {"INITIAL", "PIVOT"} : Record(c, PlanDiscovery(log, need, generation))
Search(c)   == \E p \in {log[i].id : i \in Of("plan")} : \E web \in Given(Asked(p)) : FabricDo(c, ExecutePlan(log, p, web))
Judge(c)    == \E p \in DOMAIN Queries, status \in {"ACCEPTED", "REJECTED"} : Record(c, ResolvePivot(log, p, status))
Cover(c)    == \E need \in DOMAIN Needs : Record(c, AssessCoverage(log, need))
SetWatch(c) == \E w \in DOMAIN Watches, active \in BOOLEAN : Record(c, <<Watch(w, active)>>)
RunDue(c)   == \E due \in SUBSET DOMAIN Watches : \E web \in Given({<<w, Watches[w].source>> : w \in due}) :
                 FabricDo(c, Tick(log, due, c, web))
Notify(c)   == \E i \in Of("fabric change") : Record(c, AlertFromChange(log[i]))
FabricWrite(c)  == WriteAnd(FabricContinue, c)
FabricRefuse(c) == Refuse(FabricContinue, c)

(***************************************************************************)
(* All of it.                                                              *)
(***************************************************************************)
FabricCommand(c) ==
  \/ ProcessEvidence(c) \/ MonitorChanges(c) \/ DiscoverHistory(c) \/ ResolvePair(c)
  \/ Hypothesize(c) \/ Link(c) \/ Refresh(c) \/ Ask(c) \/ Require(c) \/ Plan(c) \/ HandOver(c) \/ Execute(c)
  \/ Register(c) \/ PlanNeed(c) \/ Search(c) \/ Judge(c) \/ Cover(c) \/ SetWatch(c) \/ RunDue(c) \/ Notify(c)
FabricInit == CommandInit
FabricNext ==
  \/ \E c \in Calls : FabricCommand(c) \/ FabricWrite(c) \/ FabricRefuse(c) \/ FailAccount(c) \/ GiveUp(c)
  \/ \E m \in DOMAIN Readings : Happen([type |-> "manifestation", id |-> m])
FabricSpec == FabricInit /\ [][FabricNext]_<<log, todo>>

(***************************************************************************)
(* Properties.                                                             *)
(***************************************************************************)
(* Whatever is cut off, nothing names what is not there: an execution its  *)
(* manifestations, a run its execution, a change of content the state it   *)
(* has found and, unless that was an error, the one it had, which differ   *)
(* and were kept in that order.                                            *)
LineageHolds ==
  LET At(type, id) == {i \in Of(type) : log[i].id = id} IN
  /\ \A i \in Of("execution") : "manifestations" \in DOMAIN log[i] =>
       \A m \in log[i].manifestations : \E j \in At("manifestation", m) : j < i
  /\ \A i \in Of("run") : \E j \in At("execution", <<<<log[i].id, log[i].run>>, Watches[log[i].id].source>>) : j < i
  /\ \A i \in Of("fabric change") : "class" \in DOMAIN log[i] /\ log[i].class = "CONTENT_CHANGED" =>
       /\ \E k \in At("manifestation", log[i].id[2]) : k < i
       /\ log[i].id[1] # None => /\ Readings[log[i].id[1]].says # Readings[log[i].id[2]].says
                                 /\ \E j \in At("manifestation", log[i].id[1]), k \in At("manifestation", log[i].id[2]) : j < k
=============================================================================
