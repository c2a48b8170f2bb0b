# Curunir, specified

TLA+ modules that model the program in `src/curunir`, TLC configurations that
check them on small instances, and theorems about them that TLAPS proves for
every value of the constants.

Curunir keeps an intelligence mission: evidence, assessments, alerts, tasks,
forecasts and reports, all as events of one hash-chained log, written by people
(through a workbench server and command lines) and by services. There is no
database and no coordinator: several processes open the same mission directory,
each with its own in-memory copy of the log, and one file lock orders their
appends. Nearly everything that can go wrong follows from that shape: a command
decides on a copy that may lag, appends several events one by one, and may die
after any of them.

## 1. Inventory

Paths are relative to `src/curunir/curunir_*`. "Event" always means an event of
the mission log.

| component | state it keeps | operations | hard part |
|---|---|---|---|
| Mission store (`operational/store.py`) | `events.jsonl` (chained, fsynced), payload files, a lock file, and in every process an in-memory index with the offset it covers | open, refresh, append (version, ingestion and conditional events), payload write, import of a verified delta, operator recovery of a torn tail | processes interleave at every write; crash or power loss after any byte; a copy that lags; the log at its end of line |
| Delta and backup (`operational/delta.py`, `store.py` export/import) | bundles with the digests of what they extend | build, verify, import, full export | a bundle that extends a log which has moved; a partial install |
| Reports (`workbench/reports.py`, `authority.py`, `annotations.py`, `signed_ops.py`) | versions of a report, dispositions, dissent annotations, signed-action audit records | create, edit, submit, approve (plain and signed), reject, dissent, resolve | four eyes and standing dissent across racing commands; several appends per command |
| Alerts and decisions (`operational/workflow.py`) | alerts with transitions, operational object versions, recommendations, decisions | raise, re-trigger, transition, recommend, decide, enact | detections that race with people; an effect only from a recorded human decision |
| Requirements, evidence requests, tasks (`operational/missions.py`) | versioned requirements, requests, tasks and their status events | open (folds into an open one), request evidence, assign, transition | status checked on a copy and re-checked under the lock; folds that must not lose anything |
| Actor keys and signed actions (`identity/registry.py`, `actions.py`, `replay.py`) | versioned key records, signed-action records | enroll, rotate, retire, revoke (lost or compromised), verify a signed action, replay the chain | two enrollments of one key; crash half way through a rotation; a compromise found later |
| Sessions (`identity/sessions.py`, `workbench/server.py`) | pending challenges and open sessions, in memory, bounded | issue a challenge, authenticate, resolve, revoke, prune | capacity, expiry, single use, a key revoked while its session is open |
| Access and markings (`operational/access.py`, `security.py`) | markings on records | can_view, inherited marking, most restrictive marking, admission of a record's marking | a derived record must not be easier to see than what it was derived from |
| Source fabric (`fabric/`) | source descriptors and profiles, plans, executions, manifestations, pivots, coverage, watches, runs, change observations | register, plan, execute, propose and judge pivots, assess coverage, run watches, tick | a chain of appends in which each names the ones before; a failed run compared with a good one |
| Semantic plane (`semantic/` pipeline, normalize, extract, worldmodel, changes) | documents, observations, objects, relations, activities, claims and their standing, change records, review items | process new evidence, classify and carry changes, read archived captures | order of arrival; passes that die and begin again; what a person has decided |
| Association (`operational/association.py`) | proposals that two objects are the same, their resolution, relations | weigh, propose, resolve | three appends per resolution; an engine that may accept and one that may not |
| Hypotheses and collection (`semantic/hypotheses.py`, `collection.py`) | hypotheses, questions, routes, executions with their accounting | record, link, refresh, ask, plan, hand over, execute | independence of answers; a question read early and written late |
| Analytic plane (`analytic/`) | forecasts, indicators, themes, narratives, stakeholder assessments, objectives, assumptions, impact paths, warnings, analogues, model proposals, transitions | create, update, refresh, resolve, merge, split, derive, accept, propagate | a cause applied once across crashes; a machine proposal never becomes a fact by itself; judgment against derivation |
| Workbench (`workbench/`) | views over the store per server process, watches, sessions | about 30 commands, projections, search, export | a view cached under a changed store; one lock per server, none across servers |
| Projection and sovereignty (`operational/projection.py`, `sovereignty.py`) | disclosed copies with manifests | project, verify, check independence | a disclosed copy that says more than its audience may see |
| Front end (`workbench/static/js`) | session token, key, requests in flight | sign and send actions, render | a retried request |
| Tooling (`tools/`), demos, scenarios | none | build, validate, bench | none that a model checker reaches |

How they meet. Every component reads its process's copy of the log and appends
through `MissionDataStore.append`, which takes the file lock, catches up, checks
the event against the log as it is then (version progression, one ingestion per
source and content, or the caller's condition) and writes it durably. A command
that appends several events does so in several such calls. The workbench server
serialises the commands of its own process with `store_lock`, except signed
commands; nothing serialises commands of different processes. So the store is
modelled in detail once (`MissionStore`), it is shown to be an atomic log
(`DurableLog`), and the components above it are modelled over an atomic log
(`CommandLog`), with commands as a deciding step followed by separate appends.

## 2. Plan

The order follows what the rest leans on: the store, which everything trusts;
the commands in which people's authority is at stake and who those people are;
then what the commands write may say to whom; then the two planes in which
machines read, derive and propagate.

| step | modules | state |
|---|---|---|
| 1 | `EventLog` (what a valid log is), `DurableLog` (what the store promises), `MissionStore` (what it does) | modelled, checked, proved, refinement proved |
| 2 | `CommandLog` (commands over an atomic log), `ReportWorkflow` | modelled, checked, main invariants proved |
| 3 | `AlertWorkflow`, `MissionWorkflow` | modelled, checked, proved |
| 4 | `KeyRegistry`, `Sessions` | modelled, checked, proved |
| 5 | `Markings`, `Workbench` | modelled, checked, proved |
| 6 | `VersionedLog` (versions, transitions, commands that go on with what they find), `AnalyticPlane` and its engines `Forecasts`, `Themes`, `Narratives`, `Stakeholders`, `Impact`, `Warnings`, `Analogues`, and `Propagation`, which composes them | modelled, checked; the forecasts' properties and `JudgmentStands` proved |
| 7 | `Association`, `SemanticPlane`, `SemanticChanges`, `Collection`, `Fabric`: from a source's answer to the hypotheses that rest on it | modelled, checked; all proved but that evidence is finished |
| 8 | backup (`export_to`, `import_from`) as a second file image next to `MissionStore`; the redirect loop of `fabric/transport.py` | not started |

Composition:

- `MissionStore` and `DurableLog` EXTEND `EventLog`; `MissionStore` INSTANCEs
  `DurableLog` under the mapping log = the part of the file beyond any crash,
  promised = what callers were told.
- `CommandLog` is EXTENDED by every component that appends to the log (sessions
  live in a server's memory and have a module of their own). The step from
  `MissionStore` to `CommandLog` is argued, not checked: an append is one step
  (`ImplementsDurableLog`), its condition is evaluated on the log it lands on
  (`Valid`, which is an invariant), and a copy is always a prefix of the log
  (`CopiesArePrefixes`), so deciding on a copy is deciding at an earlier moment.
- `VersionedLog` EXTENDS `CommandLog`, and the two planes EXTEND it, each as one
  chain on one log: `AnalyticPlane`, the engines, `Propagation`, `MCAnalytic`;
  and `Association`, `SemanticPlane`, `SemanticChanges`, `Collection`, `Fabric`,
  `MCWorld`. In a plane every engine reads what the others append.
- `MCWork` and `MCIdentity` put components side by side that share no records
  (alerts and missions; keys, sessions and markings): a behaviour is of one of
  them, and what one needs of another is an action of its environment (a key
  that goes out of use, for sessions).

Theorems still worth proving: the four properties of forecasts in the whole plane
(`PlaneSpec`) instead of on a log of their own; and `EvidenceIsFinished`, along
the way on which `ChangesArrive` is proved.

## 3. Modules and the code

PROJECT.json maps every definition to its lines; an action has the name of the
function it models, or is named in the tables below.

### EventLog, DurableLog, MissionStore (`operational/store.py`, `delta.py`)

An `Event` has a kind, the id and version it speaks of, a recorded time and
`prev`, which stands for `previous_event_hash`: instead of a digest it holds what
the digest commits to, the bodies of the whole prefix. `Follows` is the check of
one event against the log before it, `Valid` that of the log. Four kinds of
event cover the ways the store and its callers condition an append: `version`
(the version after the latest one of its id), `ingestion` (once for an
idempotency key), `duplicate` (an ingestion recorded as one, not constrained)
and `alert` (not constrained by the store, but by a condition of its caller that
is evaluated under the lock).

A handle is a `MissionDataStore` object in some process.

| in the module | in the code |
|---|---|
| `lines`, `torn`, `durable` | `events.jsonl`: whole lines, whether an incomplete one follows, and how many lines an fsync has covered |
| `payloads` | content files of the mission |
| `lock` | the `flock` on the lock file |
| `view`, `offset` | `_events` and `_log_offset` of a handle |
| `pc`, `want`, `staged` | where a call is: the event it wants to append, and what it is writing |
| `acked` | history: events whose append returned |
| `Open`, `Refresh`, `CatchUpFails` | `__init__`, `refresh`, `_catch_up` with its error on a torn tail |
| `BeginVersion`, `BeginIngest`, `BeginAlert` | `append_version`, `ingest`, `append` with a condition, up to the lock |
| `Admit`, `Refuse` | catch-up, condition and checks under the lock |
| `WritePart`, `WriteRest`, `WriteFails`, `SyncAndReturn` | write of the line in two parts, error or short write with its truncation, fsync, index update and return |
| `BeginImport` ... `IndexImported` | `import_delta`: admission, payloads, replacement of the log file by rename, indexing |
| `RecoverRead`, `RecoverReplace` | operator recovery of a torn tail |
| `Crash`, `PowerLoss` | end of a process; end of the machine, which loses what no fsync covered |

Assumed of the platform: a rename is durable once it has happened, an fsync
covers all earlier bytes of the file, `flock` is released when a process ends.
Left out: the forensic copy that recovery keeps; `verify_chain`, which only
reads; `export_to` and `import_from`; `admit_marking`, which lifts markings and
never refuses. Catching up inside an export or a delta build is `Refresh`.

### CommandLog

`todo[c]` holds the events that command c has decided on and not appended yet.
`Decide` is the reading part of a command, `WriteNext` one append, `GiveUp` the
end of a command with its rest undone. A component adds `Fits`, the condition
under which the store accepts an event, and its own commands.

### ReportWorkflow (`workbench/reports.py`, `authority.py`, `annotations.py`, `signed_ops.py`)

One report (its id is a digest of title and time). Each command is an action of
the code's name: `Create`, `Edit`, `Submit`, `Approve`, `Reject`, `Sign` (in the
browser), `ApproveSigned`, `Dissent`, `Resolve`. `Write` and `Conflict` are the
appends. `MayApprove` is `authoritative_approval_state` together with what
`approve_report` makes of it. Reduced: the content checks of `validate_report`
become one claim the text may rest on and that may be retracted; RESOLVED and
WITHDRAWN annotations are both CLOSED (an author may open them again). Not
here: whether the signer's key and session are good (`KeyRegistry`, `Sessions`).

### AlertWorkflow (`operational/workflow.py`)

One alert by its deduplication key and one object. `Raise` and `RaisedElsewhere`
are `raise_alert` and its fall-back to a repeated detection, `Move` is
`transition_alert`, `Dispute` and `Recommend` are the two branches of
`materialize` and `recommend`, `DecideOn` is `decide`, `Enact` is
`enact_decision_effect`, `Report` is an ingestion's version, which says what was
ingested and nothing of before (`pipelines.py`, 199-259). An object version has
the decisions whose patches its attributes carry, the mark that reports conflict
(quality and `dispute_note`) and its epistemic state, which each of the three
writers sets as it pleases. Recommendations pin their evidence to the object
version of the time; the comparison of snapshot hashes in `decide` cannot fail,
because a recorded version never changes, and is left out, as is the check that
a provider does not decide, since provider ids are not ids of persons. Left out
are the world model's versions of entities, which carry the attributes forward
and neither quality nor state.

### MissionWorkflow (`operational/missions.py`)

One requirement with its evidence requests and tasks. `OpenRequirement` opens or
folds, `RequestEvidence` and `AwaitEvidence` are the two appends of
`request_evidence`, `AssignTask` and `Transition` are the functions of those
names. Left out: checks that look at one call's arguments alone (evidence or a
reason given).

### KeyRegistry (`identity/registry.py`)

A log of key versions. `Enroll`, `Rotate`, `RotateAgain` (the retry of a rotation
that crashed half way), `Retire` (its second half), `Revoke`. `Write` sets the
times when an event is written, `FindSettled` is `_NoAppend`: under the lock the
call finds its work done, or its key moved on, and returns without an error.
`StatusAt` is `verification_status_at`. `reported` is a history variable. A key's
id is the digest of the key, so one value stands for both.

### Sessions (`identity/sessions.py`)

Challenges and sessions of one server process. A method holds one lock from
start to end and so is one action; but it reads the clock before it waits for
that lock, so the reading may be old (`ClockReadings`). `RoomFor` is the rule
that a principal makes room only with its own oldest entry. `KeyOutOfUse` is the
registry's doing; `Resolve` is where a session meets it. Tokens never repeat
(`secrets.token_hex`). `revoke_session` has no caller and is left out.

### Markings, Workbench (`operational/access.py`, `security.py`, `workbench/commands.py`)

`Markings` is `can_view` and the joins: `MostRestrictive` (`most_restrictive`,
refused where no safe join exists, `Joinable`), `Sealed` (`_deny_all_seal`) and
`Inherited` (`inherited_marking`). `Workbench` has one action for each of the
commands of the workbench, by its name: what its actor must see, which marking
it chooses, what it cites and what it appends. `Admitted` is `admit_marking`,
which the store runs under the append lock: whatever the command chose is raised
to the join of the earlier version and of the records cited, as they are by
then. `SystemWrites` and `SystemRefreshes` are the connectors, engines and
importers that write the same families beside the commands.

Reduced: a command's free text and the scan of it for identifiers; ids of
different families never coincide; a report's sections; caveats; a context's
roles but for the highest; the visibility of a relation's end points; guards on
a record's status, which belong to the component whose module has the command's
state machine. An id that names no record contributes no marking, as in the code.
A command runs beside the atomic appends of other writers, one at a time.

### VersionedLog (`analytic/substrate.py`, `analytic/store.py`, `operational/store.py`)

Most commands of the two planes are loops: append something, look again, append
the next. A process decides on its copy of the log, which catches up when it
appends. `Do` decides the first event at any time; `WriteAnd` appends one event
and has the rest of the command worked out on the log as it is then (`Ahead`):
versions are numbered (`Stamp`), transitions and review items that somebody else
has recorded are dropped (`Superfluous`), and a `Step`, a place where the code
computes something only when it gets there, is replaced by what it comes to.
What the code read early and re-appends (`_reappend`) stays as it was read.
`Fits` is the store's version check, `GiveUp` a process that dies.

### The analytic plane (`analytic/`)

| module | code | commands |
|---|---|---|
| `AnalyticPlane` | `substrate.py`, `basis.py` | the basis of an object in claims; `RecordCandidate`, `ResolveCandidate` |
| `Forecasts` | `forecasts.py`, `indicators.py` | `MakeForecast` (`create_forecast`), `MoveForecast` and `UseCandidate` (`update_probability`), `RecheckForecast` (`refresh_forecast` with `try_machine_resolution`), `SettleForecast` (`resolve_forecast_human`, `withdraw_forecast`), `Watch` (`arm_indicator`), `WatchPass` (`check_indicators`) |
| `Themes` | `themes.py` | `MakeTheme`, `RecheckTheme`, `EndTheme`, `Propose`, `Merge`, `Split` |
| `Narratives` | `narratives.py` | `Tell` (`create_narrative`), `Vary`, `Counter`, `RecheckNarrative`, `Derive` (`derive_propagation`), `Adopt` (`assert_independent_adoption`) |
| `Stakeholders` | `stakeholders.py` | `Assess`, `TakePosition`, `ChangePosition`, `RecheckAssessment`, `RecheckCaveats`, `SayInfluence`, `DropInfluence`, `DiscoverStakeholders` |
| `Impact` | `impact.py` | `SetObjective`, `Assume`, `Question`, `Invalidate`, `Construct` (`build_path`), `RecheckPath`, `Respond`, `ReviewResponse` |
| `Warnings` | `warning.py` | `Warn` (`project_warning`), `RecheckWarnings` |
| `Analogues` | `analogues.py` | `Remember` (`record_episode`), `Compare` (`retrieve_analogues`) |
| `Propagation` | `propagate.py`, `DependencyIndex` | `PropagateChanges` (`propagate_semantic_changes`): which objects rest on the changed claims is worked out when the pass begins, each object is refreshed when the pass gets there |

The semantic plane's reports (a claim degrades or is restored, is seen in
another source, a question of identity opens) are events that happen. A claim's
state is `degraded` or not, whatever class the code gives it. A change that
degrades stands for the classes that question an assumption by themselves
(`propagate.py:174-177`), also when the claim has been restored since. Which
assumptions are held, and on which claims, is read when the pass begins
(`Trusted`). What falls with an assumption is exposed one objective at a time,
up to the first that is not on the log (`ExposeEach`). The refresh of
hypotheses that a pass also does is in `Collection`. Transitions about an edge,
an analogue or a warning are filed, as in the code, under the narrative, episode
or objective. `ForecastContract`, `ThemeContract` and so on are the checks of the
records' constructors.

### The world: association, semantic plane, collection, fabric

| module | code | commands |
|---|---|---|
| `Association` | `operational/association.py` | `Evaluate`, `Resolve` |
| `SemanticPlane` | `semantic/pipeline.py`, `worldmodel.py`, `normalize.py`, `extract.py`, `store.py` | the steps of `process_manifestation`: document, observations, objects, relations, activities, claims and their standing, failures and retries |
| `SemanticChanges` | `semantic/changes.py`, `pipeline.py` | `ProcessEvidence` (`process_new_evidence`), `MonitorChanges` (`process_fabric_changes`), `DiscoverHistory` (`interpret_historical_discoveries`), `ResolvePair` |
| `Collection` | `semantic/hypotheses.py`, `collection.py` | `Hypothesize`, `Link`, `Refresh`, `Ask` (`propose_discriminator`), `Require` (`requirement_for_discriminator`), `Plan`, `HandOver`, `Execute` (`execute_route`) |
| `Fabric` | `fabric/registry.py`, `planner.py`, `executor.py`, `pivots.py`, `coverage.py`, `watch.py`, `mission_bridge.py` | `Register`, `PlanNeed`, `Search` (`execute_plan`), `Judge`, `Cover`, `SetWatch`, `RunDue` (`tick`), `Notify` (`alert_from_change`) |

Given, as constants: what a document says of which topics, when, and for which
publisher; what a source answers; what is known of a thing that may be the same
as another. A topic has one claim. The time of a record is its place in the log.
Due watches are any subset of the active ones. One body is retrieved by one
call; records are read from a body, and a change cites the body it was seen in,
which an alert on it needs (`mission_bridge.py:48`). Left out: the rate limiter,
the chain of custody of a manifestation, and the ARGUS kernel, which the
repository mounts and does not contain. A refusal by the store in the middle of
a manifestation is caught as the code catches it, recorded as a failure and
passed over (`Refuse`, `RouteFails`).

## 4. The runs

Symmetry is used only in runs that check no liveness. `CHECK_DEADLOCK FALSE` is
in every cfg because logs, versions, clocks and tokens are bounded: at the bound
an instance stops, the program does not.

| run | instance | what it shows |
|---|---|---|
| `store` | a behaviour is of imports or of alerts; 2 handles, one id, three kinds of record, times up to 2, 2 lines, deltas of up to 2 events; crashes and power losses at every step; fair | versions linear, ingestion once, returned appends survive, no line after a torn tail, payloads before events, a delta whole or not at all, every call returns, and the store implements `DurableLog` |
| `reports` | a behaviour has dissent or signed requests; 2 people, one of them cleared, 1 service, 2 commands at a time, one note in 2 versions, one nonce, up to 4 versions of the report | four eyes, the text approved is the text reviewed, records refer back only, each effect once, standing objections count |
| `report_dissent_race` | 2 people, 2 calls, 3 versions | violation: dissent recorded while an approval is under way does not block it |
| `work` | alerts: 1 person, 1 service, 1 decision, 5 events; missions: one requirement, request and task, 2 priorities, 4 events | one alert per key, statuses follow their flow from where they stand, effects go back to decisions, what decisions and disputes put into an object stays until a report replaces it, no fold is lost |
| `alert_retrigger` | 1 person, 1 service, 5 events | violation: a late repeated detection acknowledges an alert again |
| `identity` | keys: 2 actors, 2 kinds, 3 keys, 2 active, 3 events, times up to 2; sessions: 3 tokens, room for 2 challenges and 2 sessions, lifetimes and waits of 1, clock up to 2; markings: an analyst, a visitor of another organisation, 1 compartment, 2 groups, 3 records, 13 choices of record families | one owner, limit on active keys, no resurrection, successor first, verdicts on past signatures stand; a challenge opens one session and nobody is pushed out; nothing is written down |
| `key_rotation` | 1 actor, 2 keys, 1 call | violation: the retry of a rotation retires the last active key |
| `key_compromise` | 1 actor, 2 keys, 2 calls | violation: a compromise that meets a plain revocation is dropped without an error |
| `analytic` | 23 scenes, each with its commands, up to 2 at a time, 3 to 12 events, crashes between appends | settled forecasts stand, every move of a probability has its authority, silence resolves nothing, firings are complete, judgment is not derived away, contracts hold at every append, invalidation and propagation reach everything |
| `propagation_crash` | the scene of one pass over the whole plane, with crashes | violation: the next pass does not complete the history of one that died |
| `world` | 16 scenes, up to 2 commands at a time, 6 to 30 events, 2 attempts, crashes between appends | evidence is finished, only newer evidence of its own publishers moves a claim, what people decide is taken back only by a process that read before it, changes arrive, one publisher is one voice, nothing names what is not there |
| `stale_capture` | the scene of one publisher's page, repeated, and an archived capture found later | violation: the older capture displaces the newer reading |

Why the bounds are enough for these questions. Two processes or calls suffice
for every race in the code: a condition compares one event with the log, and a
third writer only makes the same log longer. The logs are long enough for the
longest story a property tells: a signed approval is draft, submission with its
disposition, approval with its disposition and audit record (six events, up to
four versions, so an edit and a second review fit in); an effect is object,
recommendation, decision, new object and one racing version (five); a rotation
with its retry is enroll, enroll, retire, and a key's longest life without one is
enroll, revoke, compromise (three; that a retired key can only be found
compromised needs a fourth event and is proved). In the store two lines are an
event and what conflicts with it; a delta of two is one that can be cut in half.
Three records are one that is cited, one that cites it, and a third that cites
or continues either. `Moves` and `Outcomes` bound the statuses that callers ask
for: the code treats RESOLVED like EXPIRED, ACCEPTED like MODIFIED and REJECTED
like DEFERRED. Three tokens suffice for a full pool and one more.

The planes are checked in scenes. With every command of every engine at once a
log of five events is out of reach; a scene fixes which commands meet, what
happens around them and what was recorded before, and gives that question the
room it needs: `room` bounds the events that are in the log or decided when a
command begins, what the command itself appends comes on top, and `MaxLen` and
`MaxSteps` stop nothing: larger ones give the same states. A scene begins with the records that the commands of
its history append. Scenes of two commands at a time are those in which they
write the same record or read what the other writes. `whole` remembers whether
some command was cut off, for the properties that the code does not promise
after a crash: `InvalidationReaches` (the command is to be called again),
`EvidenceIsFinishedIfWhole` (section 7).

What stays outside: races of three or more writers in which two of them differ
in kind from both others, logs longer than the bounds (except as far as section
6 proves), several reports, alerts or requirements at once, which share nothing
in the code but the log, and commands of the planes that meet in no scene.

For every property the project lists a mutation of a modelled definition, the
way a bug in the code would look (a dropped condition, a swapped order, a check
on the stale copy), under which the property fails in its run. The mutants are
the operators commented "Fault:" next to the definition they replace.

## 5. Fairness

Only `store` assumes any (`Fairness` of `MCMissionStore`). `WF_vars(Work(h))`: a
process that holds the lock runs straight-line code with bounded file
operations, so unless it dies it goes on. `SF_vars(Locked(h))`: a process that
waits for the lock waits in `flock`, which the kernel grants to the waiters in
the order they came; the action is enabled whenever the lock is free, which is
again and again and not always, hence strong fairness. Nothing forces a process
to call, crash or recover. A refusal under the lock is a return too, so
`CallsReturn` says that nobody waits for ever, not that every append succeeds.

The other components have no liveness worth stating: nothing in the code retries
a command that died, and what completes it is a person's or a timer's next call.
What that next call must find is stated as safety instead: a pass that would
find nothing to do leaves nothing undone (`PropagationReaches`,
`EvidenceIsFinishedIfWhole`, `ChangesArrive`).

## 6. Proofs

Eight modules are checked by TLAPS for every value of the constants:
`MissionStoreProofs`, `ReportWorkflowProofs`, `KeyRegistryProofs`, `WorkProofs`
(alerts and missions), `ServerProofs` (sign-in and commands), `AnalyticProofs`,
`RecordProofs` (which extends it), `WorldProofs`. They assume what the modules assume of
their constants (`StoreConstants`, `ReportConstants`, `KeyConstants`,
`MissionConstants`, `SessionConstants`, `WorkbenchConstants` and the like): that the
bounds are natural numbers, that `NoHandle` and `NoKey` are none of the handles
and keys, that people and services are disjoint. The theorems about sessions
state that assumption themselves, because their module is instanced
and TLC evaluates it in the instance; what is proved of missions rests on
`MissionsAssumption`, which MCWork makes of the instance. No bound is
used for more than its type. Finite are assumed the claims of the analytic plane,
the objectives of an assumption and the hypotheses of a question, which the code
keeps in a log and in tuples: commands go through them in an order, and an
infinite set has none. Of what is given to the world it is assumed that the
orders of topics, subjects and sources are sequences of them, that what is found
and asked for is on the lists it is taken from (`FabricAssumption`,
`CollectionAssumption`, `SemanticAssumption`), that no document speaks of
`SAME_AS` (no extractor makes one), and that an answer is `Truthful`: a body comes
only with a search that succeeded, and what is seen of it is what that body says
(`executor.py:223`). That of `Window` and `Speed` is of their type. Of what is
given to the analytic plane it is assumed that it passed the constructor that the
caller has to call first: relations, kinds, severities, bands and authorities are
among those the code lists, an inferred interest is not marked as observed, a form
and a part name claims; and that an analogue needs at least one match
(`MinMatches`, the default of `retrieve_analogues`, which no caller changes).

**Store** (`StoreInvariant`, and from it `TypeCorrect`, `LogAlwaysValid`,
`CopiesAgree`, `AcknowledgedIsDurable`, `VersionsAreLinear`, `IngestsOnce`,
`RecordsInTimeOrder`, `PayloadsComeFirst`, `TornTailsAreFenced`,
`DeltasAreAtomic`). That the log is valid is not inductive: a writer that
checked its event against a stale copy would break it. `IInv` adds what prevents
that: whoever is past the lock holds it alone and its copy is the file
(`HolderIsCurrent`), what it is about to write passed the checks on top of that
copy (`StagedLoads`), and every other copy is a prefix of the file
(`CopiesArePrefixes`), so that catching up gives the file. Each action is shown
to keep the facts of its own handle and those of the others, most of which it
leaves alone. What validity buys for any two events (`VersionsLinear`,
`IngestedOnce`, `TimesOrdered`) follows from `Valid` alone and is proved
about any log first. `StoreImplementsDurableLog` is the refinement:
every step extends the part of the file beyond the last fsync by a valid
continuation, or leaves it alone, and what was acknowledged lies in it. That
every event on disk finds its payload (`PayloadsComeFirst`) needs to know of
calls that have not appended yet: `Custody` adds that a payload is on disk from
before its event is asked for, that none is ever removed, and that whoever is
past the lock found the file whole. The other two are action properties, and
follow from `IInv` step by step: a handle that meets a torn tail gets no
further, and an import replaces the file by what it read under the lock and the
new events behind it.

**Reports** (`ReportInvariant`, and from it `TypeCorrect`, `FourEyes`,
`ReviewedIsApproved`, `Lifecycle`; `ReferentsComeFirst` and `EffectsHappenOnce`
from `SoundInvariant`; `ObjectionsCount` from `HeardInvariant`). Between deciding and appending, the log may
grow, so what a command checked need not hold when its event arrives. What makes
it safe: versions rise by one (`VersionsRise`), each version event still to be
written was decided on a version in the log (`TodoDecided`), and the store lets
it in only if that version is still the newest, so no version lies between
(`LogDecided`). Hence facts about "all versions so far" are the same at the
decision and at the append. `Sound` adds the dispositions and audit records that
a command appends behind its version. Each belongs to one version (`Owner`), the
store lets only one command write a version, and a plan holds one effect of a
kind; so no other command has the same effect to append, in the log or still to
come (`TodoNew`, `TodoApart`), and what an effect speaks of is in the log or
stands before it in the plan (`TodoGrounded`). `Heard` adds what an approver
found against the report: an approval that fits was decided on the version that
went to review, hence after every objection that was there by then, and an
objection that has not been closed up to the approval was open at the decision,
so the decision had to name it (`LogHeeded`, `LogNamed`, and `TodoHeeded`,
`TodoNamed` for what is still to be appended).

**Keys** (`KeyInvariant`, and from it `TypeCorrect`, `KeysHaveOneOwner`,
`KeysStayOutOfUse`, `KeysAreReplacedFirst`, `ActiveKeysAreBounded`,
`ThePastStands`). The same argument for the later
versions of a key; first versions are checked under the lock against the whole
log. `SuccessorFirst` needs that a rotation in progress carries its successor
with it (`Sound`), and that a key which names a predecessor belongs to the
predecessor's actor (`LogInherits`), since the retry of a rotation trusts what
the new key's record says. Two theorems rest on an invariant built on that one
(`Whole`). The limit on active keys: an enrollment is counted under the lock, and
any other version only takes a key out of use; the sets that are counted are
carried along as finite, since keys and actors are not assumed to be. That the
past stands: the first version of a key stays the first, only a revoked key is compromised (`CompromisedIsRevoked`), some version is the
newest of those in force at a time (`SomeInForce`), and a new version is not in
force before it is written.

**Alerts** (`AlertInvariant`, and from it `AlertsAreRaisedOnce`,
`AlertsMoveFromWhereTheyStand`, `EffectsAreKept`, `EffectsHaveADecision`). What a
pending event was decided on is in the log and stays there; the log's last
version of an object is the one that `Fits` compares with, and versions rise
(`VersionsRise`), so an effect or a dispute lands on the version it was worked
out from and inherits what that one says; a move lands only
while the status it starts from is the last one. The repeated detection is the
one append without such a condition, and the theorem leaves it out (section 7).

**Missions** (`MissionInvariant`, and from it `NothingIsTakenBack`,
`SubjectsKeepToTheirPaths`). A command has one event to append. A transition
that fits starts where its subject stands; a requirement that fits was folded
from the newest, whose ids it contains; a task is recorded once, so its first
status is not taken twice.

**Sessions** (`SignInInvariant`, and from it `SignInIsBounded`,
`ChallengesAreSingleUse`, `NobodyIsDisplaced`). A nonce is drawn once, so it is
that of one challenge, and one that has opened a session is pending no more. The
limits hold because room is made before anything is added, and `RoomFor` takes
away only what has run out and what is the caller's own. The last is an action
property, proved of every action.

**Markings** (`JoinCovers`, `NothingIsWrittenDown`). A join covers everything
that went into it: on roles by the maximum, on compartments by the union, on
releasability because a group that all inputs share is a group of each; and the
seal, which nobody holds, covers all. Under the append lock the admitted
marking joins, besides what the command chose, the earlier version and every
record cited that is there; all later markings of a record cover its earlier
ones, so the newest version of what is cited covers the ones before it. Whatever
a command knew or chose does not matter, and the proof does not use it.

**Forecasts** (`ForecastInvariant`, and from it `ForecastsSettledStand`,
`ForecastsMoveByAuthority`, `ForecastsNeedALook`,
`ForecastsFiringsAreComplete`). A command of the plane does not know what it
will append when it starts: it works out a queue of events and steps, drops what
is superfluous, and works out the next step on the log it finds then. A version
still fits only if no version of its record came since. So the log is *lawful*
if each version of the forecast has a ground: a prefix of the log, reaching to
the version before it, on which a command could decide it; and if each mark of a
firing follows what it marks. All four properties follow from a lawful log. A
*plan* is a queue that is good for the log it is on: its first event has a
ground there, and what stands behind it may rely on it. `IInv` says that the log
is lawful and every call has a plan. A plan stays good while others append, its
first event keeps the log lawful, and every command and step decides on a
*draft*, which `Settle` and `Ahead` turn into a plan. How far a command goes on
before its next event is a recursive function of the engine's own `Continue`: it
starts from `First` and goes on by `Following`. `AnalyticProofs` shows that the
function exists (`RunExists`, `RunGoes`), and what is good at first and kept by
each step is good in the end by induction over a set of numbers (`UpTo`, from
the least counterexample), since the library's induction theorems take an
operator; `WorldProofs` argues in the same way of its own commands. The
invariant was checked by TLC first, on the scenes `made`, `refolded`, `moved`,
`settled`, `occurred`, `present` and `absent` (159,973 states). The proof is of
`ForecastSpec`, the forecasts and indicators on a log of their own; what
propagation does to them (a refresh like any other) is in the run. Two
exemptions came out of it, both read off failed proof steps and confirmed by
TLC; section 7 describes them.

**Judgments** (`JudgmentInvariant`, and from it `JudgmentsStand`). The proof is
of `PlaneSpec`: all commands of all engines, the pass that propagates,
candidates, crashes and what the semantic plane reports, on one log that starts
empty. A scene of the run starts from a log that commands have written and takes
only steps of `PlaneNext`. The records that people decide on are themes, edges,
assumptions, paths, objectives and response options (`Judged`). A version of one
*stands* on a log if it is the next and does not take back what the one before
it says (`Follows`); a log is *orderly* if every version in it stood on the log
before it, and `JudgmentStands` follows. A call's queue is good (`Queued`) in
one of two ways. Its first event may be *grounded*: it stood on some prefix of
the log, and since the store takes it only if it is the next version, it still
stands when it arrives. What waits behind is stamped with whatever version is
next by then, so it must be *steady*, harmless wherever it lands: a first
version, a transition or a step, or a version that repeats a judgment and never
withdraws one (an adoption, an invalidation). That no command puts a withdrawing
version anywhere but at the head of its queue is what the proof shows of each
command and each step (a lemma `...Draft` each), and it is the fact about the
code that the property hangs on: between the reading of such a record and the
version that `_reappend` takes for it, the command appends nothing itself. The
one exception, `record_assumption`, is the version that `FallenStays` exempts,
and `Resumes` is that exemption in the invariant. `JInv` was checked by TLC
first, on all 23 scenes (423,404 states). Sets are put in order by `Arranged`,
because `SetToSortSeq` of the library chooses among functions that the provers
cannot show to exist.

**Records** (`RecordInvariant`, and from it `RecordsAlwaysHold`, in
`RecordProofs`). Again of `PlaneSpec`: no command appends half of its records
and then builds one that its own constructor refuses. The constructors' checks
are not inductive: a basis must not count more sources than it has sightings, a
position must have what it rests on, an analogue a match, a transition a type
that its kind of object knows; and a record that is read back and re-appended
has these only if the one that was read had its fields, its status among those
of its kind and its claims among the claims. `WellMade` says all of that of one
event, but for its version. `RInv` says that the log is `Sound` (each event on
it is well made and has a version of at least 1), and that each call's queue is
`Waiting`: its first event, stamped, is as sound, and each later one is well
made and will be when it is stamped. A step in a queue is a promise that it will
find what it was worked out for: what it was `Given` is well made, and what it
works on is `Found` in the log, where it stays (`Needs`). So of each command and
each step there is one lemma (`...Made`), which says that from a sound log, and
from what a step needs, comes a queue that is `Made` of such events; `Settle`
makes of it one that is `Waiting` (`SettleWaiting`), and so does every step of a
run however many there are (`UpTo` again). Others may append anything sound in
between. That is why nothing is needed of versions here, and it is the fact
about the code that the property hangs on: whatever a constructor asks of a
record is either asked of the caller before the first append or is true of every
record that can be on the log, so nothing that arrives in the meantime takes it
away. `RInv` was checked by TLC first, on all 23 scenes (423,404 states).

**World** (`WorldIsLawful`, and from it `OnlyEvidenceEverMoves`,
`PeopleAlwaysDecide`, `NothingIsStampedAlone`, `AnswersAreAlwaysIndependent`,
`LineageAlwaysHolds`, `ChangesAlwaysArrive`). The proof is of `FabricSpec`: all
twenty commands from a source's descriptor to a hypothesis, with the refusals
that a command catches and goes on after, on one log that starts empty. A log is
lawful if each event is `Sound` on what was there before it: what it names is on
record; support has two publishers behind it and an answer one that was not
asked before, unless an earlier version says so already; sameness has a person's
resolution behind it; a change is of two states that a pass looks at, and a
removal is not shown by content that was cut off. A claim and a standing say
what holds *now*, which others may have changed since the command looked; so of
these it is said in addition that on some prefix of the log they were warranted
(`Founded`, `Fair`): the claim's value by what the claim said then, the standing
by one that was the machine's own to move. For a claim, the store's check of the
version makes that prefix hold every earlier version. A standing has no version,
and here the proof stops where the code does: only alone is its prefix the log
it lands on (`Fresh`, `Undisturbed`), which is `NothingIsStampedAlone`, and
beside others `PeopleAlwaysDecide` is what is left. A queue is *owed* to a log
if each of its events is sound on that log and on what stands right before it in
the queue, up to the last step (`Near`), and if only its first event is a claim
or a standing, and is founded. A queue stays owed while others append
(`OwedMore`), because what is on record stays on record; its first event, once
appended, keeps the log lawful (`EventTail`, `LawfulAppend`); what every command
and step decides on is a *draft* (the lemmas `...Draft`, and `...Calm` for what
they do not contain), and `Settle` turns a draft into a queue that is owed,
however many steps it takes (`SettleOwed`, `RunOwed`, through `UpTo`). That only
the first event is a claim or a standing is the fact about the code on which all
of it hangs: whatever comes to one is worked out when the command gets there.
The invariant is proved once; the other theorems follow from a lawful log alone.
The last one says what a pass that finds nothing to do has come to, though it
goes on for as many steps as `MaxSteps` allows: as long as a change owes an item
or an alert (`Owes`), some event of the pass's queue `Bears` it, which is the
record itself, the step that raises it, or the pair or the archived state that
the change is of. `Settle` does not drop a bearer, a step that bears comes to
events of which one does, and so a pass that has run out of events owes nothing
(`RunBears`, again through `UpTo`). That it begins with a bearer is what makes
every change one of a pair that passes look at (`Origin`), by which
`_interpreted_pairs` finds it again. The proof attempts corrected the model and
what was said of it in several places (section 7, at the end).

**Compositions** (`PathsAreKept`, `FoldsAreKept`; `ChallengesOpenOneSession`,
`NobodyLosesAPlace`, `CitedIsCovered`). `MCWork` and `MCIdentity` instance
missions, sessions and commands together with their theorems; a step of the whole
is a step or a stutter of each part (`BothWorkflows`, `AllParts`), so what the
runs `work` and `identity` check of the parts is proved of the whole, from the
assumptions on the parts' constants and nothing else.

Only model-checked: `CallsReturn` (liveness under fairness is beyond TLAPS here);
of `analytic`, `InvalidationReaches` and `PropagationReaches`; of `world`,
`EvidenceIsFinishedIfWhole`. The three are about what a whole pass comes to, through
everything that rests on a claim (`Affected`) or through a dozen kinds of step that each undo what the
ones before left open, of which the invariants above say nothing yet.
`InvalidationReaches` also says that `MaxSteps` was enough (`StepsSuffice`), which
is about the bound and true only of bounds that are large enough. `JudgmentsHold` of
`world` is not stated by a theorem in its own words, because they name the scenes
of the run; its two halves are (`PeopleAlwaysDecide`, `NothingIsStampedAlone`). No
module declares a RECURSIVE operator, so none is closed to proofs.

## 7. Where the code and its documents disagree

Each is a run that TLC finds violated; PROJECT.json quotes both sides.

- `report_dissent_race`: dissent recorded by another process between the check of
  an approval and its append does not block the plain approval
  (`workbench/reports.py:434` against `curunir_workbench/README.md:111`). The
  version check of the store does not help, because a note does not move the
  report's version.
- `alert_retrigger`: a repeated detection appends a transition to the status it
  read, without a condition, and so can undo a person's move
  (`operational/workflow.py:109` against its own lines 118 and 127).
- `key_rotation`: the retry of a rotation does not look whether the new key is
  still active and can retire the actor's last one (`identity/registry.py:233`
  against 206-207).
- `key_compromise`: a revocation as compromised that loses a race with a plain
  one returns without an error, and the key's old signatures still verify
  (`identity/registry.py:174` against `CURUNIR_V6_7_INVARIANTS.json:158`).
- `propagation_crash`: a pass that dies between a new version and the transition
  that explains it is not completed by the next one, which finds the version up
  to date (`analytic/forecasts.py:342` against `propagate.py:5-7`).
- `stale_capture`: a repeated reading leaves no trace in the claim it confirms,
  so an older archived capture counts as newer than the claim and displaces what
  the publisher says today (`semantic/worldmodel.py:474` against 452-453 and 477).

Read from the code while it was modelled; no run is of them, and where TLC has
confirmed one in a scene, the item says so. These are observations for whoever
maintains the code.

- `workflow.py:240`, 265-266: the effect of a decision sets the epistemic state to
  INFERRED whatever it was (its one caller takes the default). A dispute that was
  recorded after the decision, or between two effects of it, is over then, though
  nobody has resolved it; only its mark in the quality and the note stay.
  `OnlyReportsReplace` is stated of what stays.
- `security.py:316` takes the first of equal versions, the projection shows the
  last (`projections.py:167`): a watch or a proposal, which has no versions, is
  joined as it was marked first. `NoWriteDown` is stated of the families that
  count versions and fails without that condition.
- `commands.py` (about 162-168) says that a re-append does not re-classify;
  admission joins again at every append. An annotation's `reply_to` is joined at
  admission but not in `annotate`'s own join, so the note may end where its
  author cannot read it. `request_model_proposal` does not ask whether its actor
  can see the join.
- `watch.py:162`: a run names change observations that are appended after it; a
  crash in between loses them, since the next run compares with this one.
  `watch.py:118`: a run is compared with the one before it even if that failed.
- `pipeline.py:115` and 222: a manifestation with a document counts as processed,
  a pair with one change record as interpreted; a crash before the rest leaves
  it. The first is why `EvidenceIsFinishedIfWhole` is about whole commands.
- `collection.py`: two executions of one route collect twice;
  `requirement_for_discriminator` writes back a question it read early.
  `propose_pivots` puts a rejected pivot back to PROPOSED.
- `association.py:198`: a resolution comes before the relations it leads to, and
  a crash in between leaves it without them.
- `_reappend` takes a fresh version for content that was read before an earlier
  append of the same command: `narratives.add_variant`, the folds of
  `create_narrative`, `create_assessment`, `record_assumption` and
  `record_episode`, `themes.apply_merge` and `apply_split`,
  `refresh_identity_caveats`. What another process wrote in between is lost from
  the newest version. `record_candidate` sets a proposal that was decided on back
  to PROPOSED; `supersede_position`, retried, appends the replacement twice;
  `apply_merge` into a theme that was merged or resolved revives it.
- `forecasts.py:54-103`: a `create_forecast` that is repeated before the CREATED
  mark was recorded records it, and then folds into the version it had read
  before that. A forecast that was moved or settled in between is back at the old
  number, or OPEN again, against the comment at line 64 and
  `tests/test_analytic_forecasts.py:1-2`. `SettledStands` and
  `MovesAreAuthorized` exempt exactly that version (`Refolded`), and the scene
  `refolded` of `analytic` reaches it: without the exemption the run finds both
  violated.
- `impact.py:98-139`: a repeated `record_assumption` finds the assumption as it
  reads it first, records the HELD mark, and folds into the version it read
  before that mark. An assumption that another process invalidated in between is
  HELD again, although what rested on it was reassessed as fallen, and the
  INVALIDATED transition stays behind the newest version. `FallenStays` exempts
  exactly that version (`Reheld`), and the scene `reheld` of `analytic` reaches
  it: without the exemption the run finds `JudgmentStands` violated.
- `indicators.py:234-369`: `check_indicators` works with the indicators it read
  when the pass began. With two of them armed, a second pass may fire one that
  the first has fired since, and if the first firing is not marked yet, its
  effect is applied again over a person's later move, against the docstring at
  398-401. The run's scenes have no room for both firings and the move (a longer
  one was run once, and shows it); `MovesAreAuthorized` is therefore stated of
  each firing, which is what holds.
- `changes.py:320-337`: the standing of a claim is read at the start of
  `_propagate` and appended without a condition, so of two processes that carry
  changes at once the later stamps over a RETRACTED, CORRECTED or DISPUTED that
  was put down after it read, against the comment at 323-325 ("a re-run must
  never stamp over them"); `worldmodel.py:529-562` does the same with CURRENT.
  The scene `contested` of `world` reaches it: `NothingIsStamped` is violated
  there. `JudgmentsHold` asks what does hold, that alone a process stamps over
  nothing, and that beside another it does so only on a change that was on record
  before the judgment.
- `impact.py:77-78`, 223-249: exposing an objective that is not on the log raises.
  The objectives that come after it in the fallout of an assumption are then not
  exposed, and the assumption is INVALIDATED already.
- `stakeholders.py:557`: the cause of a change of caveats names the assessment
  only. The next change of its caveats has the same transition identity, so its
  version is left without a transition.
- `analogues.py:118`: with `min_matches=0`, which no caller passes, an episode
  that matches nothing would get as far as the constructor of an analogue, which
  refuses it (`contracts.py:907`), after the analogues of earlier episodes have
  been appended.
- `store.py`: `verify_chain` reads without the lock (658), `_index` runs after
  the write (474), and a failed directory fsync after the rename is reported as
  a failed import (226).

What the proof attempts showed of the code, where the model or a property had
said otherwise; all of it is now modelled as the code has it.

- `changes.py:148-157`: a reading that was cut off shows no removal, but a
  correction in its words still counts against what it adds. `OnlyEvidenceMoves`
  excludes removals only.
- `hypotheses.py:240`: a question that was answered stays SATISFIED when
  independence is asked for afterwards. `AnswersAreIndependent` is about what was
  asked when the answer was accepted.
- `hypotheses.py:80-99`: a claim that is linked again under another stance leaves
  a hypothesis SUPPORTED until it is next refreshed; support is a judgment of the
  refresh, and is proved as one.
- `pipeline.py`, `process_fabric_changes`: a pair whose prior state was not kept
  is interpreted with "" as its prior, and what has no prior is an addition.
- `association.py:210` is the only place that makes a `SAME_AS`; no extractor does.
- `pipeline.py:194-201` and `changes.py:159-182, 204`: `_propagate` is given the
  record it was called for, with the claims that one lists. Two processes that
  record one change at once may list different claims, and each carries its own.
  The model used to give it the last record of that id, and `ChangesArrive` would
  have failed of it.

## 8. Not modelled

- Backup, export and forensic recovery (`export_to`, `import_from`): each is one
  rename of a staged directory; planned, section 2.
- Record contracts, canonical form, schema checks, parsing and mapping: functions
  of one record. The modules take records as already valid, except that the
  constructors' checks of analytic records are stated (`RecordsHold`), since a
  command may be half done when one of them fails.
- Cryptography: a digest is what it commits to, a signature is the key's. Clock
  skew and the replay of stored signed actions.
- Projection, sovereignty, situation reports, analytics, explanations and scores:
  they only read the log, so what they show is as right as the log is.
- Transport and the connectors of single public sources: HTTP, redirects, rate
  limits, parsing. What a source answers is an input of `Fabric`.
- The server's routing, headers and HTML; the front end but for signing and
  delivering an approval; demos, scenarios and tools, which keep no state of
  their own.
- Of the store, `export_to`, `import_from` and `verify_chain`; of reports, what
  `validate_report` reads in a text; of alerts, `analyst_action` and relationship
  versions; of delta bundles, the manifest and conflict records.
