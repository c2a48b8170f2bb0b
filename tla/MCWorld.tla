-------------------------------- MODULE MCWorld --------------------------------
(***************************************************************************)
(* The instances of the semantic plane and the fabric that TLC checks, in  *)
(* scenes as in MCAnalytic: a scene says which commands are called, how    *)
(* many at a time, what happens around them and what was recorded before.  *)
(***************************************************************************)
EXTENDS Fabric

CONSTANT Played  \* the scenes of the instance

VARIABLES
  scene,
  whole  \* no command has been cut off

Manifestation(m) == [type |-> "manifestation", id |-> m]
Watched(p, m)    == [type |-> "fabric change", id |-> <<p, m>>, failed |-> FALSE]
Retrieved(ms)    == [n \in DOMAIN ms |-> Manifestation(ms[n])]
Both             == <<Object("s", {}), [type |-> "object", id |-> "t", version |-> 1, evidence |-> {}]>>
Believed == Retrieved(<<"a1", "a4">>) \o <<[type |-> "observation", id |-> <<"a1", "nm">>], Claim("nm", "A", {<<"a1", "nm">>}),
                                           Claim("role", "x", {<<"a4", "role">>})>>
Held  == Hypothesis("h", [Unlinked EXCEPT !["supporting"] = {"nm"}], Uncounted, {})
Joined == [Claim("nm", "A", {<<"a1", "nm">>, <<"b2", "nm">>}) EXCEPT !.version = 2]
Doubted == SetStanding("role", "STALE", <<"a1", "a4", "ROLE_CHANGED", "role">>)
Posed == Question("q", "OPEN", TRUE, {"g"}, FALSE)
Raised == [Posed EXCEPT !.independent = FALSE, !.basis = {}]
Registered == RegisterSource("site")

(* Two later pages retract and correct what a claim says, neither carried yet. *)
Contested ==
  LET ms == <<"a4", "ret", "cor">>  topics == <<"role", "nm", "nm">>
  IN  Retrieved(ms) \o [n \in DOMAIN ms |-> [type |-> "document", id |-> ms[n]]]
      \o [n \in DOMAIN ms |-> [type |-> "observation", id |-> <<ms[n], topics[n]>>]]
      \o <<Object("s", {<<"a4", "role">>}), [Object("s", {<<"ret", "nm">>}) EXCEPT !.version = 2], [Object("s", {<<"cor", "nm">>}) EXCEPT !.version = 3],
           Claim("role", "x", {<<"a4", "role">>}), Claim("nm", "A", {<<"ret", "nm">>}), Watched("a4", "ret"), Watched("a4", "cor")>>

Scene(calls, can, news, before, room) ==
  [calls |-> calls, can |-> can, news |-> news, before |-> before, room |-> room]
Scenes ==
  [read     |-> Scene(2, {"ProcessEvidence"}, {}, {Retrieved(<<"a1", "a2">>), Retrieved(<<"a1", "b1">>)}, 12),
   failing  |-> Scene(2, {"ProcessEvidence", "MonitorChanges"}, {}, {Retrieved(<<"r1">>) \o <<Watched("", "r1")>>}, 6),
   changed  |-> Scene(1, {"ProcessEvidence", "MonitorChanges"}, {},
                      {Retrieved(<<"a1", m>>) \o <<Watched("a1", m)>> : m \in {"a2", "cor", "cut"}}
                      \cup {Retrieved(<<"a1", "ret", "a5">>) \o <<Watched("a1", "ret"), Watched("a1", "a5")>>}, 30),
   backlog  |-> Scene(1, {"ProcessEvidence", "MonitorChanges", "DiscoverHistory"}, {"a2", "h1"}, {Retrieved(<<"a1">>)}, 14),
   same     |-> Scene(2, {"ProcessEvidence", "ResolvePair"}, {}, {Retrieved(<<"id">>) \o Both}, 10),
   linked   |-> Scene(2, {"Hypothesize", "Link", "Refresh"}, {}, {Believed, Believed \o <<Joined>>, Believed \o <<Doubted>>}, 9),
   asked    |-> Scene(2, {"Ask", "Require", "ProcessEvidence"}, {"b1"}, {Believed \o <<Held>>}, 11),
   routed   |-> Scene(1, {"Plan", "HandOver", "Execute"}, {}, {Believed \o <<Held, Posed>>}, 14),
   raced    |-> Scene(2, {"Execute", "Require"}, {}, {Believed \o <<Held, Posed, Route(<<"q", "auto">>, "PROPOSED", 0)>>}, 12),
   searched |-> Scene(2, {"Register", "PlanNeed", "Search", "Judge", "Cover"}, {}, {RegisterSource("feed")}, 7),
   retired  |-> Scene(1, {"SetWatch", "RunDue"}, {}, {Registered}, 7),
   watched  |-> Scene(2, {"RunDue", "Notify"}, {}, {Registered \o <<Watch("page", TRUE)>>, RegisterSource("feed") \o <<Watch("list", TRUE)>>}, 8),
   contested |-> Scene(2, {"MonitorChanges"}, {}, {Contested}, 24),
   capped   |-> Scene(1, {"ProcessEvidence", "MonitorChanges"}, {}, {Retrieved(<<"a1", "a4", "cap">>) \o <<Watched("a4", "cap")>>}, 30),
   moved    |-> Scene(1, {"Link", "Refresh"}, {}, {Believed \o <<Joined, Held>>}, 10),
   raised   |-> Scene(1, {"Execute", "Ask"}, {}, {Believed \o <<Held, Raised, Route(<<"q", "auto">>, "PROPOSED", 0)>>}, 17),
   capture  |-> Scene(1, {"ProcessEvidence", "DiscoverHistory"}, {"a3", "h1"}, {Retrieved(<<"a1">>)}, 30)]

Now1    == Scenes[scene]
On(name) == name \in Now1.can
Room     == Planned < Now1.room
Free(c)  == c <= Now1.calls /\ Idle(c) /\ Room

MCInit == /\ scene \in Played /\ whole = TRUE
          /\ log \in Scenes[scene].before /\ todo = [c \in Calls |-> <<>>]

Command(c) ==
  \/ On("ProcessEvidence") /\ ProcessEvidence(c)
  \/ On("MonitorChanges") /\ MonitorChanges(c)
  \/ On("DiscoverHistory") /\ DiscoverHistory(c)
  \/ On("ResolvePair") /\ ResolvePair(c)
  \/ On("Hypothesize") /\ Hypothesize(c)
  \/ On("Link") /\ Link(c)
  \/ On("Refresh") /\ Refresh(c)
  \/ On("Ask") /\ Ask(c)
  \/ On("Require") /\ Require(c)
  \/ On("Plan") /\ Plan(c)
  \/ On("HandOver") /\ HandOver(c)
  \/ On("Execute") /\ Execute(c)
  \/ On("Register") /\ Register(c)
  \/ On("PlanNeed") /\ PlanNeed(c)
  \/ On("Search") /\ Search(c)
  \/ On("Judge") /\ Judge(c)
  \/ On("Cover") /\ Cover(c)
  \/ On("SetWatch") /\ SetWatch(c)
  \/ On("RunDue") /\ RunDue(c)
  \/ On("Notify") /\ Notify(c)

MCNext ==
  /\ UNCHANGED scene
  /\ \/ \E c \in Calls : Free(c) /\ Command(c) /\ UNCHANGED whole
     \/ \E c \in Calls : FabricWrite(c) /\ UNCHANGED whole
     \/ \E c \in Calls : (FabricRefuse(c) \/ FailAccount(c)) /\ UNCHANGED whole
     \/ \E c \in Calls : GiveUp(c) /\ (whole \/ ~Fits(Head(todo[c]))) /\ whole' = FALSE
     \/ \E m \in Now1.news : Room /\ ~Known(log, "manifestation", m) /\ Happen(Manifestation(m)) /\ UNCHANGED whole

MCSpec == MCInit /\ [][MCNext]_<<log, todo, scene, whole>>

(* Where no process died halfway, a pass of the pipeline that finds        *)
(* nothing to do has left nothing undone (pipeline.py,                     *)
(* process_new_evidence).                                                  *)
EvidenceIsFinishedIfWhole == whole => EvidenceIsFinished

(* What a person decides stands: beside another process the machine takes  *)
(* back only what was put down while it was at work, and alone it takes    *)
(* back nothing (changes.py, _propagate: "a re-run must never stamp over   *)
(* them"; worldmodel.py, _ensure_claim_standing).                          *)
JudgmentsHold == PeopleDecide /\ (Now1.calls = 1 => NothingIsStamped)

(* And the latest reading of a publisher is not displaced by an earlier    *)
(* one (worldmodel.py, _integrate_claim).                                  *)
LatestStands == whole => LatestReadingStands

(***************************************************************************)
(* Values of the constants.                                                *)
(***************************************************************************)
Reading(group, time, says) == [group |-> group, time |-> time, historical |-> FALSE, truncated |-> FALSE, cue |-> "", says |-> says]
MCReadings ==
  [a1 |-> Reading("g", 1, [nm |-> "A", role |-> "x"]),
   a2 |-> Reading("g", 4, [nm |-> "B", role |-> "x"]),
   a3 |-> Reading("g", 4, [nm |-> "A"]),
   a4 |-> Reading("g", 2, [role |-> "x"]), f1 |-> Reading("f", 1, [ev |-> "e"]), f2 |-> Reading("f", 2, [ev |-> "e"]),
   a5 |-> [Reading("g", 0, [nm |-> "A", role |-> "y"]) EXCEPT !.historical = TRUE],
   b1 |-> Reading("other", 5, [nm |-> "C"]), b2 |-> Reading("other", 1, [nm |-> "A"]),
   r1 |-> Reading("g", 1, [rel |-> "t", ev |-> "e"]),
   id |-> Reading("g", 1, [idn |-> "t"]),
   h1 |-> [Reading("g", 2, [nm |-> "B"]) EXCEPT !.historical = TRUE],
   cor |-> [Reading("g", 4, [nm |-> "B"]) EXCEPT !.cue = "correction"],
   ret |-> [Reading("g", 4, [nm |-> "A"]) EXCEPT !.cue = "retraction"],
   cap |-> [Reading("g", 0, [nm |-> "B"]) EXCEPT !.truncated = TRUE, !.cue = "correction"],
   cut |-> [Reading("g", 4, [nm |-> "B"]) EXCEPT !.truncated = TRUE, !.cue = "retraction"]]
Topic(subject, kind, other) == [subject |-> subject, kind |-> kind, other |-> other]
MCTopics == [nm |-> Topic("s", "NAME", ""), role |-> Topic("s", "ROLE", ""), rel |-> Topic("s", "RELATION", "t"),
             ev |-> Topic("s", "EVENT", ""), idn |-> Topic("s", "IDENTIFIER", "t")]
MCTopicOrder == <<"nm", "idn", "rel", "ev", "role">>
MCSubjects   == <<"s", "t">>
Thing(refs) == [type |-> "org", refs |-> refs, ids |-> {}, time |-> 0, place |-> 0, attributes |-> {}]
MCThings == [s |-> Thing({<<"LEI", "1">>}), t |-> Thing({<<"LEI", "1">>, <<"QID", "2">>})]
MCRetrievable == {{}, {"r1"}}
MCHypotheses  == {"h"}
MCQuestions   == [q |-> [topic |-> "nm", claims |-> {"nm"}, hypotheses |-> {"h"}]]
Brought(found, outcome) == [found |-> found, outcome |-> outcome]
MCSources     == [auto |-> [group |-> "other", eligible |-> TRUE, brings |-> {Brought(<<"b1">>, "RESULTS"), Brought(<<"b2">>, "RESULTS"), Brought(<<>>, "EMPTY"), Brought(<<>>, "FAILED")}],
                  hand |-> [group |-> "g", eligible |-> FALSE, brings |-> {}]]
MCSourceOrder == <<"auto", "hand">>
Page(m)       == [outcome |-> "EXECUTED_WITH_RESULTS", body |-> m, seen |-> MCReadings[m].says, records |-> Nothing, leads |-> <<>>]
Feed(m, records, leads) == [Page(m) EXCEPT !.records = records, !.leads = leads]
MCWeb         == [site |-> {Page("a1"), Page("a2"), NoAnswer("SOURCE_FAILED"), [NoAnswer("SOURCE_FAILED") EXCEPT !.seen = [error |-> "x"]]},
                  feed |-> {Feed("f1", [x |-> 1, y |-> 1], <<"q2">>), Feed("f2", [y |-> 2, z |-> 1], <<>>), NoAnswer("ACCESS_RESTRICTED")}]
MCWatches     == [page |-> [source |-> "site", page |-> TRUE], list |-> [source |-> "feed", page |-> FALSE]]
MCQueries     == [q1 |-> <<"feed", "site">>, q2 |-> <<"site">>]
MCNeeds       == [need |-> <<"q1">>]
=============================================================================
