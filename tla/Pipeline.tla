------------------------------ MODULE Pipeline ------------------------------
(***************************************************************************)
(* One run of the control-plane pipeline (cli.py _run_pipeline, server.py  *)
(* run_replay): load the rules and the policy pack, collect the telemetry  *)
(* of a scenario, normalize and merge it, classify, evaluate every rule on *)
(* every entity, sort, explain.  Every run builds its own engine, adapter, *)
(* bus, classifier and recommender; an exception of any stage ends the run *)
(* with nothing returned.                                                  *)
(***************************************************************************)
EXTENDS PolicyEngine, WorkloadClassifier, ReplayAdapter, FiniteSets, SequencesExt

CONSTANTS
  Rulebooks,       \* contents a rules file may have
  Packs,           \* contents a policy pack may have
  PolicyModes,     \* the values PolicyMode accepts
  ConfiguredMode,  \* config.policy_mode
  Scenarios,       \* the directories a run may be given
  BadTime,         \* a string that is no time
  Now,             \* when the run takes place
  RecId            \* <<entity, rule>> |-> a fresh recommendation id

Norm == INSTANCE Normalizer

(* What a record is given by: its keys (NoValue for one that is missing)   *)
(* and the marks of Normalizer and WorkloadClassifier.  clash tells        *)
(* whether it has a key that an entity has as an attribute but not as a    *)
(* field, as copy: creation drops it, a merge breaks off at it.            *)
RecordFields ==
  {"source_type", "entity_type", "entity_id", "observed_at", "aware", "strings",
   "scheduler_domain", "workload_type", "health_state", "llm_id", "extra", "clash",
   "latency_p95_ms", "queue_depth", "throughput", "gpu_utilization", "confidence_score"}

ASSUME PipelineAssumption ==
  /\ ConfiguredMode \in PolicyModes
  /\ Now \in Nat
  /\ \A book \in Rulebooks :
       /\ book.rules \in Seq(ToSet(book.rules))
       /\ \A i \in DOMAIN book.rules : book.rules[i].risk_level \in RiskLevel

ASSUME RecordAssumption ==
  \A scenario \in Scenarios :
    LET records == collect(scenario) IN
    /\ records \in Seq(ToSet(records))
    /\ \A r \in ToSet(records) :
         /\ DOMAIN r = RecordFields
         /\ r.workload_type \in WorkloadType \cup {NoValue, Bad}
         /\ r.clash \in BOOLEAN

VARIABLES
  pc,               \* the stage that runs next
  control_mode,     \* config.control_mode, of engine and recommender
  rules,            \* PolicyEngine.rules
  thresholds,       \* PolicyEngine._thresholds
  policy_mode,      \* PolicyEngine.policy_mode
  raw_records,      \* what the adapter collected
  entities,         \* state_bus.get_all_entities()
  recommendations,  \* what evaluate returned
  results           \* what process returned

vars == <<pc, control_mode, rules, thresholds, policy_mode, raw_records,
          entities, recommendations, results>>

Stages == {"rules", "pack", "collect", "ingest", "classify", "evaluate", "process", "done",
           "failed_rules", "failed_pack", "failed_collect", "failed_ingest",
           "failed_classify", "failed_evaluate"}

Init ==
  /\ pc = "rules"
  /\ control_mode \in ControlMode
  /\ rules = <<>>
  /\ thresholds = <<>>
  /\ policy_mode = ConfiguredMode
  /\ raw_records = <<>>
  /\ entities = <<>>
  /\ recommendations = <<>>
  /\ results = <<>>

-----------------------------------------------------------------------------
(* Loading *)

LoadRules(book) ==
  /\ pc = "rules"
  /\ pc' = "pack"
  /\ rules' = book.rules
  /\ thresholds' = book.thresholds
  /\ UNCHANGED <<control_mode, policy_mode, raw_records, entities, recommendations, results>>

(* No such file, or no rules in it: a warning, and the run goes on.        *)
NoRules ==
  /\ pc = "rules"
  /\ pc' = "pack"
  /\ UNCHANGED <<control_mode, rules, thresholds, policy_mode, raw_records, entities,
                 recommendations, results>>

(* Broken YAML, or a rule without an id or with an unknown action or risk: *)
(* nothing is kept.                                                        *)
MalformedRules ==
  /\ pc = "rules"
  /\ pc' = "failed_rules"
  /\ UNCHANGED <<control_mode, rules, thresholds, policy_mode, raw_records, entities,
                 recommendations, results>>

(* dict.update: what new gives replaces what was there *)
update(old, new) ==
  [name \in DOMAIN old \cup DOMAIN new |-> IF name \in DOMAIN new THEN new[name] ELSE old[name]]

(* Mutated form: the pack's mode is taken as it is                         *)
BugUncheckedMode(pack) ==
  /\ pc = "pack"
  /\ Bad \notin {thresholds, pack.thresholds}
  /\ thresholds' = update(thresholds, pack.thresholds)
  /\ pc' = "collect" /\ policy_mode' = pack.policy_mode
  /\ UNCHANGED <<control_mode, rules, raw_records, entities, recommendations, results>>

(* The thresholds are updated before the pack's mode is looked at, and     *)
(* cannot be if either file gives null for them.                           *)
LoadPolicyPack(pack) ==
  /\ pc = "pack"
  /\ Bad \notin {thresholds, pack.thresholds}
  /\ thresholds' = update(thresholds, pack.thresholds)
  /\ \/ /\ pack.policy_mode = NoValue
        /\ pc' = "collect" /\ UNCHANGED policy_mode
     \/ /\ pack.policy_mode \in PolicyModes
        /\ pc' = "collect" /\ policy_mode' = pack.policy_mode
     \/ /\ pack.policy_mode \notin PolicyModes \cup {NoValue}
        /\ pc' = "failed_pack" /\ UNCHANGED policy_mode
  /\ UNCHANGED <<control_mode, rules, raw_records, entities, recommendations, results>>

PackRaises(pack) ==
  /\ pc = "pack"
  /\ Bad \in {thresholds, pack.thresholds}
  /\ pc' = "failed_pack"
  /\ UNCHANGED <<control_mode, rules, thresholds, policy_mode, raw_records, entities,
                 recommendations, results>>

(* Broken YAML, or what is no dict                                         *)
MalformedPack ==
  /\ pc = "pack"
  /\ pc' = "failed_pack"
  /\ UNCHANGED <<control_mode, rules, thresholds, policy_mode, raw_records, entities,
                 recommendations, results>>

(* No such file, or an empty one                                           *)
NoPack ==
  /\ pc = "pack"
  /\ pc' = "collect"
  /\ UNCHANGED <<control_mode, rules, thresholds, policy_mode, raw_records, entities,
                 recommendations, results>>

-----------------------------------------------------------------------------
(* From telemetry to entities *)

Collect(scenario) ==
  /\ pc = "collect"
  /\ ~LoadRaises(scenario)
  /\ pc' = "ingest"
  /\ raw_records' = collect(scenario)
  /\ UNCHANGED <<control_mode, rules, thresholds, policy_mode, entities,
                 recommendations, results>>

CollectRaises(scenario) ==
  /\ pc = "collect"
  /\ LoadRaises(scenario)
  /\ pc' = "failed_collect"
  /\ UNCHANGED <<control_mode, rules, thresholds, policy_mode, raw_records, entities,
                 recommendations, results>>

(* Replay disabled, or no such directory                                   *)
NoScenario ==
  /\ pc = "collect"
  /\ pc' = "ingest"
  /\ UNCHANGED <<control_mode, rules, thresholds, policy_mode, raw_records, entities,
                 recommendations, results>>

(* What a fragment brings to an entity of a type: the fields its class     *)
(* has.  The records of one entity agree on llm_id.                        *)
Brings(type, r) ==
  [f \in DOMAIN r |->
     CASE f = "scheduler_domain" -> Norm!scheduler_domain(r)
       [] f = "observed_at" -> Norm!observed_at(r, Now)
       [] f = "aware" -> Norm!has_zone(r)
       [] f \in Measured \ Declared(type) -> NoValue
       [] OTHER -> r[f]]

(* What the class of a type accepts: numbers, and texts it can convert.    *)
(* Validation does not look into extra.                                    *)
ValidAs(type, r) ==
  LET new == Brings(type, r) IN
  /\ \A f \in DOMAIN new : new[f] # Bad
  /\ Plain(new.confidence_score) \in (0..100) \cup {NoValue}

Creatable(r) == ValidAs(r.entity_type, r)

(* One iteration of put_fragments for each case, as in module StateBus     *)
NewEntity(r) ==
  LET new == Brings(r.entity_type, r)
  IN  [f \in DOMAIN new |-> CASE new[f] = NoValue -> DefaultOf(f)
                             [] new[f] # NoValue /\ f \in Numeric -> Plain(new[f])
                             [] OTHER -> new[f]]

Create(bus, r) == [bus EXCEPT !.entities = Append(@, NewEntity(r))]

(* A merge stores what it is brought as it is, extra as a whole.           *)
MergedEntity(old, r) ==
  LET new == Brings(old.entity_type, r)
      Stays(f) == f = "entity_type" \/ new[f] = NoValue
  IN  [f \in DOMAIN old |-> IF Stays(f) THEN old[f] ELSE new[f]]

Merge(bus, i, r) ==
  LET old == bus.entities[i]
      new == Brings(old.entity_type, r)
  IN  CASE new.aware # old.aware -> [bus EXCEPT !.raised = TRUE]
        [] new.aware = old.aware /\ new.observed_at < old.observed_at -> bus
        [] OTHER -> [entities |-> [bus.entities EXCEPT ![i] = MergedEntity(old, r)],
                     raised |-> new.aware \/ r.clash]

(* Mutated form: a creation that fails is not caught                       *)
BugCreationRaises(bus, r) ==
  LET here == {i \in DOMAIN bus.entities : bus.entities[i].entity_id = r.entity_id}
  IN  CASE here = {} /\ ~Creatable(r) -> [bus EXCEPT !.raised = TRUE]
        [] ~bus.raised /\ here # {} -> Merge(bus, CHOOSE i \in here : TRUE, r)
        [] OTHER -> Create(bus, r)

Put(bus, r) ==
  LET here == {i \in DOMAIN bus.entities : bus.entities[i].entity_id = r.entity_id}
  IN  CASE bus.raised \/ (here = {} /\ ~Creatable(r)) -> bus
        [] ~bus.raised /\ here # {} -> Merge(bus, CHOOSE i \in here : TRUE, r)
        [] OTHER -> Create(bus, r)

EmptyBus == [entities |-> <<>>, raised |-> FALSE]

put_fragments(fragments) ==
  LET bus[n \in 0..Len(fragments)] ==
        IF n = 0 THEN EmptyBus ELSE Put(bus[n - 1], fragments[n])
  IN  bus[Len(fragments)]

(* get_all_entities raises as well, if any entity has a zone.              *)
IngestFails(bus) == bus.raised \/ \E i \in DOMAIN bus.entities : bus.entities[i].aware

Ingest ==
  /\ pc = "ingest"
  /\ LET bus == put_fragments(Norm!normalize(raw_records)) IN
     /\ ~IngestFails(bus)
     /\ entities' = bus.entities
  /\ pc' = "classify"
  /\ UNCHANGED <<control_mode, rules, thresholds, policy_mode, raw_records,
                 recommendations, results>>

IngestRaises ==
  /\ pc = "ingest"
  /\ IngestFails(put_fragments(Norm!normalize(raw_records)))
  /\ pc' = "failed_ingest"
  /\ UNCHANGED <<control_mode, rules, thresholds, policy_mode, raw_records, entities,
                 recommendations, results>>

-----------------------------------------------------------------------------
(* From entities to recommendations *)

NamesAreRead == \A i \in DOMAIN entities : ~NameRaises(entities[i])

Classify ==
  /\ pc = "classify"
  /\ NamesAreRead
  /\ pc' = "evaluate"
  /\ entities' = classify_all(entities)
  /\ UNCHANGED <<control_mode, rules, thresholds, policy_mode, raw_records,
                 recommendations, results>>

(* One name that is no string ends the run, and loses what was classified. *)
ClassifyRaises ==
  /\ pc = "classify"
  /\ ~NamesAreRead
  /\ pc' = "failed_classify"
  /\ UNCHANGED <<control_mode, rules, thresholds, policy_mode, raw_records, entities,
                 recommendations, results>>

Pairs == (DOMAIN entities) \X (DOMAIN rules)

(* The loop of evaluate meets the pairs in this order.                     *)
Earlier(x, y) == x[1] < y[1] \/ (x[1] = y[1] /\ x[2] < y[2])

PairPriority(x) == priority_score(rules[x[2]], entities[x[1]])

Fired == {x \in Pairs : Fires(rules[x[2]], entities[x[1]], thresholds)}

Recommend(x) ==
  _build_recommendation(rules[x[2]], entities[x[1]], control_mode, RecId[x])

(* x comes before y when the pairs are sorted by priority, descending and  *)
(* stable.                                                                 *)
Outranks(x, y) ==
  \/ PairPriority(x) > PairPriority(y)
  \/ PairPriority(x) = PairPriority(y) /\ Earlier(x, y)

NoneRaises == \A x \in Pairs : ~Raises(rules[x[2]], entities[x[1]], thresholds)

(* Collect what fires, then sort: the place of a pair is one more than the *)
(* number of those that outrank it.                                        *)
evaluate ==
  LET place == [x \in Fired |-> 1 + Cardinality({y \in Fired : Outranks(y, x)})]
  IN  [k \in {place[x] : x \in Fired} |-> Recommend(CHOOSE x \in Fired : place[x] = k)]

Evaluate ==
  /\ pc = "evaluate"
  /\ NoneRaises
  /\ pc' = "process"
  /\ recommendations' = evaluate
  /\ UNCHANGED <<control_mode, rules, thresholds, policy_mode, raw_records, entities, results>>

(* One entity or rule whose evaluation raises loses all of them.           *)
EvaluateRaises ==
  /\ pc = "evaluate"
  /\ ~NoneRaises
  /\ pc' = "failed_evaluate"
  /\ UNCHANGED <<control_mode, rules, thresholds, policy_mode, raw_records, entities,
                 recommendations, results>>

(* Recommender.process: mark, explain, and sort again.  The explanation's  *)
(* rule_id is the recommendation's own id (recommender.py:62).             *)
Marked(rec) ==
  IF control_mode = "observe_only" THEN [rec EXCEPT !.requires_approval = TRUE] ELSE rec

_build_explanation(rec) ==
  [rule_id |-> rec.recommendation_id, risk_level |-> rec.risk_level,
   confidence_score |-> rec.confidence_score]

(* Mutated form: sorted ascending, then reversed                           *)
BugTiesReversed(i, j) ==
  \/ recommendations[i].priority_score > recommendations[j].priority_score
  \/ recommendations[i].priority_score = recommendations[j].priority_score /\ i > j

Before(i, j) ==
  \/ recommendations[i].priority_score > recommendations[j].priority_score
  \/ recommendations[i].priority_score = recommendations[j].priority_score /\ i < j

process ==
  LET listed == DOMAIN recommendations
      place  == [i \in listed |-> 1 + Cardinality({j \in listed : Before(j, i)})]
  IN  [k \in {place[i] : i \in listed} |->
         LET rec == Marked(recommendations[CHOOSE i \in listed : place[i] = k])
         IN  [rec |-> rec, explanation |-> _build_explanation(rec)]]

Process ==
  /\ pc = "process"
  /\ pc' = "done"
  /\ results' = process
  /\ UNCHANGED <<control_mode, rules, thresholds, policy_mode, raw_records, entities,
                 recommendations>>

Next ==
  \/ \E book \in Rulebooks : LoadRules(book)
  \/ NoRules \/ MalformedRules
  \/ \E pack \in Packs : LoadPolicyPack(pack) \/ PackRaises(pack)
  \/ MalformedPack \/ NoPack
  \/ \E scenario \in Scenarios : Collect(scenario) \/ CollectRaises(scenario)
  \/ NoScenario
  \/ Ingest \/ IngestRaises \/ Classify \/ ClassifyRaises \/ Evaluate \/ EvaluateRaises \/ Process

Spec == Init /\ [][Next]_vars
=============================================================================
