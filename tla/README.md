# OpenAICE in TLA+

OpenAICE observes AI infrastructure through adapters, merges what they report
into canonical entities, evaluates a file of decision rules on those entities
and recommends actions. This directory holds TLA+ models of its core, the TLC
runs that check them on small instances, and proofs, checked by TLAPS, for all
instances. Paths below are relative to the repository.

## The system

| Part | State it keeps | Operations | Talks to |
|---|---|---|---|
| Adapters (`openaice/adapters`) | loaded records, clients | `collect`, `snapshot` | external services, files |
| Normalizer (`core/normalizer.py`) | none | `normalize` | adapters' records to fragments |
| State bus (`core/state_bus.py`) | entities by id, a bounded log of fragments | `put_fragments`, `get_entity`, `get_all_entities`, `snapshot`, `clear` | fed by the normalizer, read by all that follow |
| Workload classifier (`core/workload_classifier.py`) | none | `classify_all` writes `workload_type` into the entities | the bus's entities |
| Policy engine (`core/policy_engine.py`) | rules, thresholds, modes | `load_rules`, `load_policy_pack`, `evaluate` | entities to recommendations |
| Recommender (`core/recommender.py`) | control mode | `process`: marks, explains, sorts | recommendations |
| Guardrails (`core/guardrails.py`) | time of the last action per entity | `evaluate`, `evaluate_batch`, `record_action` | called by nothing in `openaice/` |
| Audit log (`core/audit_log.py`) | records in memory, a JSON Lines file | `log_*`, `clear` | called by nothing in `openaice/` |
| HTTP server (`api/server.py`) | `app.state.entities`, `app.state.recommendations` | `GET /health /state /recommendations /audit`, `POST /replay` | runs a whole pipeline per replay, in a thread pool |
| CLI (`cli/cli.py`) | none | `serve`, `replay`, `state` | runs a pipeline |
| VS Code extension (`openaice-vscode/src`) | URL, connection flag, two trees, status bar, timer | refresh, connect, replay, settings | the server, by HTTP |

What is hard to get right, and where it is treated:

* **What adapters make of their sources.** Ids, domains, states and failures
  of queries are each adapter's own affair, and what they make of them meets
  in one bus (`Collector`).
* **Flawed records, rules and packs.** What is missing, unknown or of a wrong
  type is skipped, defaulted, converted, refused or, sometimes, raises three
  stages later (`Pipeline`).
* **Order of observations.** Fragments are late, tied, partial, of several
  sources; the bus decides fragment by fragment (`StateBus`).
* **Batches that stop half-way.** Times with and without zone raise in the
  middle of a batch, and so does a key that an entity has as an attribute but
  not as a field, half-way through a merge (`StateBus`).
* **Freshness.** One `observed_at` stands for all fields (`FreshnessGate`).
* **Check now, act later.** Approval and the record of the action are two
  calls (`Guardrails`).
* **Rules as data.** Whether a rule fires hangs on its id, its family, its
  preconditions, the classification, a field's place in the class, thresholds
  of two files and the confidence (`Pipeline`).
* **Threads.** A replay publishes in two assignments, a read reads twice
  (`ReplayServer`).
* **Failures of the file and the process** (`AuditLog`).
* **Overlapping asynchronous refreshes** with a URL that changes under them,
  and a timer that is replaced (`Extension`).

What makes each component correct is in the list of properties below; all
hazards, with their lines, are in `PROJECT.json`.

## The modules

| Module | Models | Proofs |
|---|---|---|
| `StateBus`, `StateBusProperties` | `core/state_bus.py`, entities and fragments of `schemas/entities.py` | `StateBusProofs` |
| `EntityStore` | the abstract store the bus implements | in `StateBusProofs` |
| `FreshnessGate` | the bus together with `Guardrails._check_freshness` | in `StateBusProofs` |
| `Guardrails` | `core/guardrails.py` | `GuardrailsProofs` |
| `Entities` | `schemas/entities.py`: the fields of the classes, and what validation makes of a value, operators | |
| `WorkloadClassifier` | `core/workload_classifier.py`, operators | |
| `PolicyEngine` | `core/policy_engine.py`, what it says of one rule and one entity, operators | |
| `ShippedPolicy` | `policies/rules.yaml`, `policies/packs/balanced.yaml` | |
| `Normalizer` | `core/normalizer.py`, operators | |
| `ReplayAdapter` | `adapters/telemetry/replay.py`, operators | |
| `Pipeline`, `PipelineProperties` | loading, collection, ingest, classification, evaluation, `core/recommender.py`; composes the six above | `PipelineProofs` |
| `Adapters` | the records that the live adapters make of answers, operators | |
| `Collector` | the live adapters query by query; composes `Adapters`, `Normalizer` and `StateBus` | `CollectorProofs` |
| `ReplayServer` | `api/server.py` | `ReplayServerProofs` |
| `AuditLog` | `core/audit_log.py` with its file and crashes | `AuditLogProofs` |
| `Extension` | `openaice-vscode/src` | `ExtensionProofs` |
| `SequenceLemmas` | nothing of the code: induction, loops, lists and ranks, for the proofs of `Pipeline` and `Collector` | its own |
| `MC*` | small instances for TLC | |

The operators named `Bug...` are plausible mistakes, each listed under
`mutants` in `PROJECT.json` with the property that notices it. Nothing else
uses them.

### How they correspond to the code

**StateBus.** `entities` is `_entities` (with `order` for the dict's order),
`fragment_log`, `updated_ids` and `now` are what they are in the code.
`put_fragments` is `PutBegin`, one action per way an iteration can go
(`PutCreate`, `PutCreateFails`, `PutSkip`, `PutMerge`, the two in which a
`TypeError` leaves the loop, `PutMergeRaises` and `PutCompareRaises`, and the
one in which `setattr` raises `ValueError`, `PutMergeClash`) and `PutReturn`. A
fragment carries a time, whether the time has a zone, whether one of its keys
is an attribute of an entity but no field (`clash`, as `copy` would be), and
fields; a field is `NoValue` when missing or None; `Bad` values are refused by
a constructor's validation but not by a merge. The clashing key may come
anywhere among the others: those before it are stored (`Before`). No fragment
has an explicit None, which the normalizer drops, nor a field
`state_freshness_seconds`, which no adapter reports. `received` and `handled` are
histories that only the properties read. The bus is documented as
single-threaded, so reads wait for the end of a batch; the clock does not.

**Guardrails.** `EvaluateInBatch` is an iteration of `evaluate_batch`, which
includes `evaluate` and its four checks. `Apply` is the actuator the class's
docstrings describe, calling `record_action`; it may hold results for as long
as it likes. `BatchRaises` is the `TypeError` of `update_freshness` on an
entity whose time has a zone (the constant `Aware`): the batch's results are
lost with it. `Observe` is telemetry, with observation times up to `MaxSkew`
ahead of the clock.

**Normalizer, ReplayAdapter.** Operators on a record and on a directory. A
record is what the properties tell apart of a dict: its source, type, id,
domain, time (`BadTime` for a text that is none), whether that has a zone and
whether all is of the types a fragment asks for (`strings`).

**Pipeline.** One action per stage of `_run_pipeline`, with an action for each
way a stage can fail. `Collect` reads the scenario's directory into
`raw_records`; `Ingest` normalizes them and folds `Put`, an iteration of
`put_fragments`, over the fragments (`StateBus` has the same loop step by
step, with all its interleavings). A field the entity's class has not is
dropped (`Brings`) unless it is nested in `extra`, a dict where validation does
not look and which a merge replaces as a whole. A value is a number, a number
in quotes (`Texts`) or `Bad`: creation converts the second and refuses the
third, a merge stores both as they are, and a comparison raises on them. Two
wrong values of one type, which Python may compare, are left out. The records
of one entity agree on `llm_id`, whether its id looks like that of a language
model. A check of a rule passes, fails or raises (`Outcome`), and a rule gets
as far as its checks pass (`AllOf`); a `Bad` part of a rule or threshold raises
where it is used, and `wording` stands for all a recommendation cannot be
built from, as a reason template with a placeholder of its own. Preconditions
compare words, as the shipped ones do; how `str()` writes a number is left out. Confidence and utilization are
percentages and priorities products of integers: ties are exact, where floats
may order two equal products by their last bit. `Evaluate` and `Process` sort
by placing each element after those that come before it.

**Adapters, Collector.** A snapshot is a list of queries; `Answer`, `Fails`,
`BreaksOff` and `RestDown` are the ways one can go, with the clock free to
tick between any two. A list breaks off at the first item that raises, with
the records before it kept; mode rest then drops the other query too, mode cli
drops the query. All records of one query have one time, where the code reads
the clock for each. `Normalize` and `Put` then feed the bus, whose actions
are those of `StateBus`. The histories `said`, `devices` and `files` keep what
the sources answered, for the properties only. Values are texts, since fields
of an entity are of many types; a utilization is in percent. The adapters are
used alternately, as a driver with one bus would; `docs/adapters/custom.md`
shows the three calls and no driver in the repository makes them for a live
adapter.

**ReplayServer.** Handlers are plain functions, which FastAPI runs in a thread
pool; each read and each assignment of `app.state` is a step. A stored list is
named by the replay that made it. The results of some replays cannot be
written as JSON (`NoJsonEntities`, `NoJsonRecs`; a NaN is enough): they are
stored, and then the answer of the replay, and of each read of them, is a 500
(`unwritten`).

**AuditLog.** `log_recommendation`, `log_guardrail_block` and `log_event` each
have their actor; a log call is two steps, memory and file, with the process
crashing or the write failing between or within them. A torn line spoils the
line that continues it.

**Extension.** A refresh is a flow with a request under way; each continuation
is one step, as JavaScript runs them. An answer is named by its server and the
number of replays that server had run. The setting `apiUrl` and the URL of the
client, `baseUrl`, are two variables: `UrlChanged` sets both; the command
`openaice.connect` awaits that the setting is written (`Connect`) and then gives
the client what was typed (`SettingWritten`), whatever the setting is by then,
or ends (`SettingFails`). `FreshAtLast` and `DownAtLast` speak of the server
the client is set to.

## Runs

| Run | Shows | Bounds |
|---|---|---|
| `state_bus` | newest observation wins per field in any order (`NewestWins`), `observed_at` and source are those of the newest (`ObservedAtIsNewest`), zones never mix although batches stop half-way (`OneZone`), an entity with a zone stays until `clear` (`PoisonPersists`), the log is a prefix (`LogIsPrefix`), no change goes unreported (`ReturnedNamesTouched`), freshness belongs to the present time (`FreshnessRebased`), the freshness guardrail judges the newest fragment received (`VerdictIsNewest`), and the bus implements `EntityStore` | 2 entities, the fragments of `MixedFragments`, 3 handled between two `clear`, log of 2, batches of 3, clock to 2, freshness limit 1: all orders of early, tied, late and future ones, a log that is full, a `clear` and a new beginning |
| `guardrails` | at most `blast_radius_limit` entities pass per batch and nothing else is blocked for it (`BlastRadius`); only an approval older than an action gets around its cooldown (`CooldownSinceApproval`) | 2 entities and one whose time has a zone, recommendations of all verdicts, 2 batches, 2 actions, limit 1, cooldown 2, clock to 2: both ends of the window are met |
| `pipeline` | approval (`ApprovalGate`), order (`Ranked`), no action excludes others (`NoActionIsExclusive`), exactly when three rules fire, from the raw record to the result (`ScaleUpTrigger`, `QuarantineTrigger`, `ScaleToZeroTrigger`), when evaluation raises (`RaisesOnlyOnUnvalidated`) and when ingest and classification do (`FlawsThatStop`) | the shipped rules and malformed ones, packs with and without usable thresholds and modes, 3 control modes; directories with each kind of file; one or two records with values on both sides of each threshold, of one entity or of two, in both orders, and with each flaw |
| `collector` | the bus holds what was last said of each node (`LastAnswerWins`), the two entities of a deployment agree (`ServiceMirrorsDeployment`), a domain is that of the last reporter (`DomainIsReporters`), and only a file can poison the bus (`OnlyFilesPoison`) | any 2 snapshots of 6 adapters, 2 namespaces, 8 ids, answers of up to 2 items, clock to 1: ties and later times, each order of two adapters that know the same entity; no deadlock |
| `replay_server` | no earlier replay comes back (`NoResurrection`), a replay that fails before it stores is invisible (`FailureIsInvisible`), state is mixed only by replays that overlapped (`MixedOnlyIfOverlapped`), every request is answered | 3 replays, one of them with results JSON cannot hold, 2 readers, 2 threads |
| `audit_log` | the file is a history (`FileIsHistory`), ids are unique between losses of memory (`IdNamesOneRecord`), only failures lose events (`LossNeedsFailure`) | 3 log calls, 2 crashes or clears, any number of failures |
| `extension` | one timer (`OneTimer`), and the display ends up right whether the server is up (`FreshAtLast`) or down (`DownAtLast`) | 2 overlapping flows, 2 servers, 2 changes by users or servers, 1 late answer |

Each of the following runs refutes a statement of the repository:

| Run | Statement | What the code does |
|---|---|---|
| `freshness_gate_values` | telemetry is recent enough to act on (`docs/architecture/overview.md:94`) | a newer fragment with other fields makes an old value pass |
| `guardrails_between` | cooldown between actions (`guardrails.py:147`) | two recommendations approved before either is applied are both applied |
| `batching_trigger` | batching is adjusted when the queue is high and the GPU underused (`docs/architecture/policy-engine.md:58`) | a service has no `gpu_utilization` field, so the rule only sees one nested in `extra` |
| `collector_devices` | an entity is a GPU of a host, `{hostname}-gpu{index}` (`docs/adapters/gpu-metrics.md:27`) | the id is `gpu-` and the index, so GPUs of different hosts are merged into one entity |
| `replay_server_snapshot` | a snapshot (`server.py:66`) | `entity_count` and `entities` may come from two replays |

Other disagreements, which the passing properties describe as the code has
them: `put_fragments` also returns ids it neither created nor updated
(`state_bus.py:50`); `source_type` is that of the last fragment, not of each
value (`state_bus.py:99`); an aware time makes `get_all_entities` raise for
all entities; two overlapping replays may leave entities of one and
recommendations of the other for good (`MixedOnlyIfOverlapped` says this is
the only way); batching and scaling tie in priority, so that scaling comes
first (`policy_engine.py:279` says batching first); an explanation's `rule_id` is the
recommendation's id (`overview.md:101`); with the server down the tree says
that all systems are nominal (`recsTree.ts:46`); a failed audit write is
swallowed (`audit_log.py:27`); no driver calls the guardrails or the audit log
(`overview.md:89`, `:96`). Of the adapters: a Kubernetes service is `svc-namespace/name` and a Prometheus one its bare
label, so the two are never correlated (`README.md:157`); an allocated Slurm node is healthy in mode cli and degraded in mode rest; a GPU
utilization of 1 percent is read as 100 (`gpu_metrics.py:86`); a service
scaled to zero on purpose is degraded; a service whose metrics are all
malformed still gets a fresh record (`generic_serving`); live adapters set no
confidence, so that the default of 0.5 keeps the shipped rules from
recommending anything but no action for them; Prometheus' own
`gpu_utilization` is stored in percent, DCGM's as a ratio
(`prometheus.py:124`, `gpu_metrics.py:86`); a broken or empty
`telemetry.yaml` hides `telemetry.json`; a deleted node or deployment stays on
the bus; a text nested in `extra.gpu_utilization` makes the evaluation of all
entities raise.

In four places a document says the opposite of the code on cases that a
property used to cover. No property asserts these cases any more, so that each
holds of the code and of the documents:

| Case | Document | Code | Left open by |
|---|---|---|---|
| a job or queue that is degraded, and anything critical outside Slurm | quarantine is for nodes and GPUs (`policy_engine.py:296`, `policy-engine.md:59`); critical gives an urgent recommendation (`canonical-state-model.md:95`) | any entity under Slurm is quarantined, nothing outside it is told anything | `QuarantineTrigger`, which demands quarantine of nodes and GPUs under Slurm only, and forbids it only to what is neither degraded nor critical |
| a throughput equal to the idle threshold | "Below this = idle" (`policy-engine.md:103`) | idle (`policy_engine.py:308`) | `ScaleToZeroTrigger` |
| the health of a node that is not ready | critical (`docs/adapters/kubernetes.md:43`) | degraded (`kubernetes.py:128`) | `LastAnswerWins`, which tells only healthy from the rest |
| the domain of what Prometheus reports | from its labels (`normalizer.py:27`, `docs/adapters/prometheus.md:31`) | unknown | `DomainIsReporters` |

`CHECK_DEADLOCK FALSE` is set where the program really stops: the end of a
pipeline run, all requests answered, all the changes the bounds allow made.

### Fairness

* `ReplayServer`: a handler on a thread goes on and a waiting request gets a
  free thread (weak fairness of each request). Handlers hold no locks and wait
  for nothing, so this is the scheduling of threads and of the pool's queue.
  The pipeline inside a replay is one step and ends.
* `Extension`: an active timer fires (weak fairness), a running server
  answers, a stopped one refuses and the continuation of an answered request
  runs. Users and servers are not fair: nothing must ever change. Answers that
  come after the client's time limit are bounded by `MaxLate`, that is, they
  are finitely many; `FreshAtLast` is false of a server that is always late.
  `MaxFlows` (the set `Flows`) bounds overlap: a timer that fires while all
  flows are busy is skipped in the model, where the code would start one more.

The other components promise nothing that must happen, and have no fairness.

## Proofs

TLAPS checks, for all values of the constants under the named assumptions of
each module:

* **StateBusProofs.** Type correctness; then `HistoryInv`, which says of each
  entity that its fields, time, source and zone are what the sequence
  `received` amounts to. `NewestWins` alone is not inductive: whether a new
  fragment is the newest can only be seen from `observed_at`, so time, zone
  and fields are proved together (`HistoryCorrect`), and `NewestWinsHolds`,
  `ObservedAtHolds` and `OneZoneHolds` follow. `LogIsPrefixHolds`,
  `ReturnedNamesTouchedHolds`, `FreshnessRebasedHolds` and `PoisonPersistsHolds`
  have invariants of their own; `StoreImplemented` is the refinement of
  `EntityStore`, every step a step or a stutter. The freshness gate's steps are
  steps of the bus, so the bus's theorems carry over; `VerdictIsNewestHolds`
  uses `ObservedAtHolds`.
* **GuardrailsProofs.** `BlastRadiusHolds` counts: the counter is the number
  of passed results, and entities are no more than results. `CooldownHolds`
  needs that a passed result was approved a cooldown after the actions applied
  before its approval.
* **PipelineProofs.** All nine properties, for any rules, packs and telemetry;
  those about the triggers and `NoActionIsExclusive` speak of runs that loaded
  the shipped rules, and `RaisesOnlyOnUnvalidated` of rules and thresholds that
  are well formed. None of them is inductive: each
  speaks of the last lists of a run. `IInv` follows the data: an entity is the
  merge of the accepted records with its id (`EntityInv`), the stage is one
  that what was loaded and collected allows (`StageInv`), and the two lists are
  what `evaluate` and `process` make of the state (`OutputInv`). The loops of
  `normalize` and `put_fragments` are run through by induction (`NormalizeLoop`,
  `PutLoop`), and a sort is shown to be one by its places being the ranks of a
  strict order on finitely many results (`PlacesAreRanks`, `EvaluateSorts`,
  `ProcessSorts`). Assumed: rules and records are finite lists and the records
  have the fields of `RecordFields` (`PipelineAssumption`, `RecordAssumption`);
  `NoValue`, `Bad` and `Texts` are no numbers and no words that classifier and
  rules look for (`ValueAssumption`); the shipped rules are well formed
  (`ShippedAssumption`); for
  `NoActionIsExclusive`, that no file raises the threshold of rule 5 above 75
  percent (`Lowered`), since one that did would let "no action" fire beside
  another rule. The first attempt at `RaisesOnlyOnUnvalidated` failed, and the
  property was corrected: a value that is good in its own class also raises
  when the merge brings it, unseen, into an entity of another class, and so
  does a number in quotes that creation would have converted.
* **ReplayServerProofs.** `IInv` relates, for each replay, what it has stored
  to what others had finished when it began; `NoResurrection` alone is not
  inductive, since a replay between its two assignments must already be
  excluded. The three safety properties follow; `TypeCorrect` is proved by
  itself.
* **CollectorProofs.** `BusImplemented`: every step of the collector is a step
  of the bus or leaves it alone, whatever adapters there are and whatever they
  are answered. The bus's theorems therefore hold behind the adapters too;
  three of them are stated. The four properties of the collector itself hold
  at rest, or of entities alone, and say nothing of a snapshot half taken, so
  that none is inductive. `CollectorInv` speaks of the fragments that are
  *pending*: those put_fragments has yet to take, or while an adapter is at
  work those its records will become. `Consistent` says that live fragments
  are made as an adapter makes them, in the order of their times and not
  before the entity they are for (`Queued`, `Stored`, `Behind`); that the last
  answer about a node is in the last pending fragment that tells its health,
  or in the entity if there is none (`Heeded`); and that the two fragments of a
  deployment are neighbours, with the service lagging behind only while the
  second of them is the next to be merged (`AllCoupled`). The proof has a lemma
  per adapter, on the records it makes of any part of any answer
  (`RecordsAre`), and one per action. Assumed: answers are finite lists that
  name a node once, and no metric is configured to be stored as a field that
  schedulers report or of an attribute that is none (`AnswersAssumption`); what the adapters write themselves
  is valid and the classes have the fields they write (`WordsAssumption`);
  deployments, the services made of them and everything else have names of
  their own (`NamesAssumption`), which a namespace called `svc-...` can break;
  only the number 0 is written "0" (`TextAssumption`).
* **AuditLogProofs.** `IdNamesOneRecord` alone is not inductive: that a new id
  is new in the file as well follows from what the file has of an epoch being
  in memory too (`FileInv`), and order from every record being older than the
  number of records logged. All four properties follow from one invariant.
  They need that a garbled line is no record (`NoRecordAssumption`).
* **ExtensionProofs.** `TypeCorrect` bounds the versions of servers, which
  needs a count: a server's replays and those still under way are together no
  more than the changes made (`ReplaysBounded`), since each replay used one
  up. It also needs that a flow without a request has no answer (`FlowInv`);
  the URL that a command waits to set is kept as the one asked, so that what
  follows on `Connect` is a lemma of its own (`SettingInv`).
  `OneTimerHolds` is inductive by itself. Assumed: finitely many flows, and a
  `None` that is no URL, timer or answer.

* **SequenceLemmas.** Induction over the numbers is stated about a set
  (`NatSetInduction`, from the well-founded order of the numbers), so that no
  theorem with an operator parameter is needed; `LoopRuns` says that a loop
  over n items has a result. Recursive functions of the model are evaluated
  with it.

Every safety property that a passing run checks is stated by a theorem. Only
model-checked are the liveness properties of `ReplayServer` and `Extension`
(liveness under fairness is beyond the prover), and that the initial state of
each model is one the program can be in. The invariant `CollectorInv` was also
checked by TLC on the instance of the run `collector`. No module uses a
RECURSIVE operator.

## Not modelled

The guardrails and the audit log are called by no driver of the repository, so
that nothing composes them with the pipeline. Pydantic's validation, YAML, HTTP, FastAPI and the VS Code API, which are
libraries and appear by what they do; wording, layout and logging;
`recDetail.ts`, which renders; `ActuationAdapter`, an interface without an
implementation; the mock modes of the Slurm adapter, which answers from a file
as replay does, and of the Kubernetes adapter, which answers nothing;
`GET /health`, `GET /audit` and the reads of the audit log, which change
nothing.

## Plan

1. Done: state bus, guardrails and their composition; policy pipeline;
   server; audit log; extension; their proofs.
2. Done: normalizer, replay adapter and live adapters, as the ingest of
   `Pipeline` and in `Collector`.
3. Done: every safety property as a theorem, with the induction over records
   and answers that the pipeline's and the collector's need.
4. Possible extensions: a clock that is set back, for the cooldown
   (`guardrails.py:150`); the reads of the audit log (`audit_log.py:105`);
   several evaluations of the guardrails over pipeline results, if a driver
   comes to call them.
