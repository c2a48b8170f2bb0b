------------------------------ MODULE MCAnalytic ------------------------------
(***************************************************************************)
(* The instances of the analytic plane that TLC checks.  All engines share *)
(* one log; a scene, chosen at the beginning, says which commands people   *)
(* and services call, how many at a time, what happens around them, and    *)
(* what was recorded before, so that each question gets longer logs than   *)
(* all of them at once would leave room for.  Every scene's log starts     *)
(* with records that the commands of the scene's history append.           *)
(***************************************************************************)
EXTENDS Propagation

CONSTANT Played  \* the scenes of the instance

VARIABLES
  scene,
  whole  \* no command has been cut off

(***************************************************************************)
(* What was recorded before.                                               *)
(***************************************************************************)
First(e) == Stamp(<<>>, e)
Both     == Basis(<<>>, Claims, {})
One(c)   == Basis(<<>>, {c}, {})
AForecast(rule) == <<First(Forecast(rule, "low", "", Both))>>
Accepted == <<Proposal("candidate", "PROPOSED"), Proposal("candidate", "ACCEPTED")>>
Late1    == <<Horizon>>
Arming(i) == <<First(Indicator(i, "ARMED")), Transition(i, "ARMED", <<i>>)>>
ATheme(id, c)   == <<First(Theme(id, "", One(c), {}))>>
ANarrative(s)   == <<First(Narrative(<<>>, s, "", {"c1"}, {}))>>
Widely          == <<First(Narrative(<<>>, "n", "", Claims, {})), [type |-> "seen", id |-> "c1", family |-> "f2", time |-> 3]>>
AnObjective     == <<[type |-> "objective", id |-> "o", version |-> 1, status |-> "ACTIVE"]>>
AnAssumption(a) == <<[type |-> "assumption", id |-> a, version |-> 1, status |-> "HELD", sup |-> Assumptions[a].claims,
                      con |-> {}, objectives |-> {}]>>
APath(p)        == <<[type |-> "path", id |-> p, version |-> 1, status |-> "ASSESSED",
                      authority |-> Weakest(Paths[p].authorities), proposal |-> ""]>>
AnAssessment(p) == <<First(Assessment(<<>>, "e", "", << <<p, FALSE>> >>, Offers[p].claims))>>

(***************************************************************************)
(* Scenes.                                                                 *)
(***************************************************************************)
Scene(calls, can, news, before, room) ==
  [calls |-> calls, can |-> can, news |-> news, before |-> before, room |-> room]
Scenes ==
  [made      |-> Scene(1, {"MakeForecast", "Candidate"}, {}, {<<>>, Accepted}, 4),
   refolded  |-> Scene(2, {"MakeForecast", "SettleForecast"}, {}, {AForecast("HUMAN_JUDGMENT")}, 6),
   moved     |-> Scene(2, {"MoveForecast", "UseCandidate", "Candidate", "RecheckForecast"}, {"state"},
                       {AForecast("CLAIM_PREDICATE") \o Accepted}, 7),
   settled   |-> Scene(2, {"RecheckForecast", "SettleForecast"}, {"claim", "search", "horizon"},
                       {AForecast("CLAIM_PREDICATE")}, 6),
   occurred  |-> Scene(2, {"RecheckForecast", "MoveForecast"}, {"activity", "search"},
                       {AForecast("EVENT_OCCURRED") \o Late1}, 6),
   present   |-> Scene(2, {"Watch", "WatchPass", "MoveForecast"}, {"observation"},
                       {AForecast("HUMAN_JUDGMENT") \o Arming(i) : i \in {"i1", "i3"}}, 7),
   absent    |-> Scene(2, {"WatchPass", "SettleForecast"}, {"observation", "search"},
                       {AForecast("HUMAN_JUDGMENT") \o Arming("i2") \o Late1}, 9),
   themed    |-> Scene(1, {"MakeTheme", "Candidate"}, {}, {<<>>, Accepted}, 3),
   ended     |-> Scene(1, {"RecheckTheme", "EndTheme", "Propose", "Merge", "Split"}, {"state", "seen"},
                       {ATheme("t", "c1") \o ATheme("u", "c2")}, 5),
   told      |-> Scene(1, {"Tell", "Candidate"}, {}, {<<>>, Accepted}, 4),
   varied    |-> Scene(1, {"Vary", "Counter", "RecheckNarrative", "Derive"}, {"state", "seen"},
                       {ANarrative("n") \o ANarrative("m")}, 5),
   adopted   |-> Scene(2, {"Derive", "Adopt", "Candidate"}, {"seen"}, {ANarrative("n"), ANarrative("n") \o Accepted}, 6),
   judged    |-> Scene(2, {"Derive", "Adopt"}, {}, {Widely}, 5),
   assessed  |-> Scene(1, {"Assess", "Candidate"}, {}, {<<>>, Accepted}, 3),
   position  |-> Scene(1, {"TakePosition", "ChangePosition", "RecheckAssessment", "RecheckCaveats"}, {"state", "identity"},
                       {AnAssessment(p) : p \in {"pub", "int"}}, 5),
   influence |-> Scene(2, {"SayInfluence", "DropInfluence", "DiscoverStakeholders"}, {}, {AnAssessment("int")}, 6),
   assumed   |-> Scene(1, {"SetObjective", "Assume", "Question", "Invalidate", "Construct", "Respond", "ReviewResponse"}, {},
                       {AnObjective, AnObjective \o Accepted}, 6),
   reheld    |-> Scene(2, {"Assume", "Question", "Invalidate"}, {}, {AnAssumption("s")}, 6),
   fallen    |-> Scene(2, {"Question", "Invalidate", "RecheckPath", "Construct"}, {"state"},
                       {AnObjective \o AnAssumption("s")}, 7),
   warned    |-> Scene(2, {"Warn", "RecheckWarnings", "MoveForecast", "SettleForecast"}, {"horizon"},
                       {AnObjective \o AForecast("HUMAN_JUDGMENT") \o APath("p")}, 7),
   compared  |-> Scene(2, {"Remember", "Compare"}, {}, {<<>>}, 5),
   spread    |-> Scene(1, {"PropagateChanges"}, {"state", "identity"},
                       {AnObjective \o AnAssumption("s") \o APath("p") \o ATheme("t", "c1")
                          \o ANarrative("n") \o AnAssessment("pub") \o AForecast("CLAIM_PREDICATE")}, 12),
   raced     |-> Scene(2, {"PropagateChanges", "RecheckTheme", "RecheckForecast"}, {"state"},
                       {AnObjective \o AnAssumption("s") \o APath("p") \o ATheme("t", "c1") \o AForecast("CLAIM_PREDICATE")}, 10)]

Now1    == Scenes[scene]
On(name) == name \in Now1.can
Room     == Planned < Now1.room
Free(c)  == c <= Now1.calls /\ Idle(c) /\ Room

MCInit == /\ scene \in Played /\ whole = TRUE
          /\ log \in Scenes[scene].before /\ todo = [c \in Calls |-> <<>>]

Command(c) ==
  \/ On("MakeForecast") /\ MakeForecast(c, {"", "candidate"})
  \/ On("MoveForecast") /\ MoveForecast(c)
  \/ On("RecheckForecast") /\ RecheckForecast(c)
  \/ On("SettleForecast") /\ SettleForecast(c)
  \/ On("UseCandidate") /\ UseCandidate(c)
  \/ On("Watch") /\ \E i \in ToSet(Indicators) : Watch(c, i)
  \/ On("WatchPass") /\ WatchPass(c)
  \/ On("MakeTheme") /\ MakeTheme(c, {"", "candidate"})
  \/ On("RecheckTheme") /\ RecheckTheme(c)
  \/ On("EndTheme") /\ EndTheme(c)
  \/ On("Propose") /\ Propose(c)
  \/ On("Merge") /\ Merge(c)
  \/ On("Split") /\ Split(c)
  \/ On("Tell") /\ Tell(c, {"", "candidate"})
  \/ On("Vary") /\ Vary(c, {"", "candidate"})
  \/ On("Counter") /\ Counter(c)
  \/ On("RecheckNarrative") /\ RecheckNarrative(c)
  \/ On("Derive") /\ Derive(c)
  \/ On("Adopt") /\ Adopt(c, {"", "candidate"})
  \/ On("Assess") /\ Assess(c, {"", "candidate"})
  \/ On("TakePosition") /\ TakePosition(c)
  \/ On("ChangePosition") /\ ChangePosition(c)
  \/ On("RecheckAssessment") /\ RecheckAssessment(c)
  \/ On("RecheckCaveats") /\ RecheckCaveats(c)
  \/ On("SayInfluence") /\ SayInfluence(c, {"", "candidate"})
  \/ On("DropInfluence") /\ DropInfluence(c)
  \/ On("DiscoverStakeholders") /\ DiscoverStakeholders(c)
  \/ On("SetObjective") /\ SetObjective(c)
  \/ On("Assume") /\ Assume(c)
  \/ On("Question") /\ Question(c)
  \/ On("Invalidate") /\ Invalidate(c)
  \/ On("Construct") /\ Construct(c, {"", "candidate"})
  \/ On("RecheckPath") /\ RecheckPath(c)
  \/ On("Respond") /\ Respond(c, {"", "candidate"})
  \/ On("ReviewResponse") /\ ReviewResponse(c)
  \/ On("Warn") /\ Warn(c)
  \/ On("RecheckWarnings") /\ RecheckWarnings(c)
  \/ On("Remember") /\ Remember(c)
  \/ On("Compare") /\ Compare(c)
  \/ On("PropagateChanges") /\ PropagateChanges(c)
  \/ On("Candidate") /\ CandidateCommand(c, "candidate")

Around == ClaimNews \cup SeenIn("other", 3) \cup World(log)

MCNext ==
  /\ UNCHANGED scene
  /\ \/ \E c \in Calls : Free(c) /\ Command(c) /\ UNCHANGED whole
     \/ \E c \in Calls : AnalyticWrite(c) /\ UNCHANGED whole
     \/ \E c \in Calls : GiveUp(c) /\ whole' = FALSE
     \/ \E e \in {n \in Around : n.type \in Now1.news} : Room /\ Report(e) /\ UNCHANGED whole
     \/ \E k \in Caveats : "identity" \in Now1.news /\ Room /\ Identity(k) /\ UNCHANGED whole

(* An assumption that a person has invalidated takes with it every path    *)
(* that was built on it: stale, and its objective exposed.  A step in the  *)
(* log would be the end of MaxSteps and not the command's.                 *)
AllIdle == \A c \in Calls : Idle(c)
StepsSuffice == \A i \in DOMAIN log : log[i].type # "step"
InvalidationReaches == StepsSuffice /\ (whole /\ AllIdle =>
  \A i \in Of("assumption"), p \in Built(log) :
    log[i].status = "INVALIDATED" /\ log[i].id \in Paths[p].assumptions /\ Min(Versions(log, "path", p)) < i
      => /\ Current(log, "path", p).status = "STALE"
         /\ Current(log, "objective", Paths[p].objective).status = "EXPOSED")

MCSpec == MCInit /\ [][MCNext]_<<vars, scene, whole>>

(***************************************************************************)
(* Values of the constants.                                                *)
(***************************************************************************)
MCClaims  == {"c1", "c2"}
MCFamily  == [c1 |-> "f1", c2 |-> "f2"]
MCTime    == [c1 |-> 1, c2 |-> 2]
MCWording == [c1 |-> "same", c2 |-> "same"]
MCForms   == [f |-> [relation |-> "PARAPHRASE", claims |-> {"c2"}], g |-> [relation |-> "COUNTER_NARRATIVE", claims |-> {"c2"}]]
MCParent  == [t |-> "", u |-> "", part |-> "t"]
MCParts   == << << "part", {"c1"}>> >>
MCThree   == <<"i1", "i2", "i3">>
MCOffers  == [pub |-> [kind |-> "PUBLIC_POSITION", observed |-> TRUE, claims |-> {"c1"}],
              int |-> [kind |-> "INFERRED_INTEREST", observed |-> FALSE, claims |-> {"c1"}],
              role |-> [kind |-> "FORMAL_ROLE", observed |-> TRUE, claims |-> {}]]
MCInfluences  == [x |-> [of |-> "e", claims |-> {"c1"}, derived |-> TRUE], y |-> [of |-> "e", claims |-> {}, derived |-> FALSE]]
MCObjectives  == [o |-> "HIGH"]
MCAssumptions == [s |-> [claims |-> {"c2"}, objectives |-> {"o"}]]
MCPaths   == [p |-> [objective |-> "o", claims |-> {"c1"}, assumptions |-> {"s"}, authorities |-> {"OBSERVED", "MODEL_PROPOSAL"}]]
MCOptions == [r |-> [path |-> "p", claims |-> {"c2"}]]
MCBand    == [low |-> "POSSIBLE", high |-> "VERY_LIKELY"]
MCEpisodes   == [e1 |-> [actors |-> {"x"}, types |-> <<"m", "n">>, setting |-> TRUE]]
MCSituations == [q |-> [actors |-> {"x"}, types |-> <<"n", "m">>]]
=============================================================================
