------------------------- MODULE PipelineProperties -------------------------
(***************************************************************************)
(* What the pipeline promises, and what documents and comments say of it.  *)
(***************************************************************************)
EXTENDS Pipeline, ShippedPolicy

RecOf(i) == results[i].rec
Recommended(entity, action) ==
  \E i \in DOMAIN results :
    RecOf(i).entity_id = entity.entity_id /\ RecOf(i).action_type = action

(* The records that are alone in speaking of their entity, and that make one *)
Single(i) == \A j \in DOMAIN raw_records \ {i} :
               raw_records[j].entity_id # raw_records[i].entity_id
Usable(r) == Norm!Accepts(r) /\ Creatable(r)

(* Given by the record, or else by its source, or else by default *)
Domain(r) ==
  CASE r.scheduler_domain # NoValue -> r.scheduler_domain
    [] r.scheduler_domain = NoValue /\ r.source_type \in {"kubernetes", "kserve"} -> "kubernetes"
    [] r.scheduler_domain = NoValue /\ r.source_type \in {"slurm", "gcm"} -> "slurm"
    [] r.scheduler_domain = NoValue /\ r.source_type = "ray" -> "ray"
    [] OTHER -> "unknown"
Given(r, field) == IF r[field] = NoValue THEN DefaultOf(field) ELSE r[field]
Confidence(r) == Plain(Given(r, "confidence_score"))

(* The name of its model is no string *)
OddlyNamed(r) == r.extra \notin {NoValue, Bad} /\ OddName(r.extra)

(* An LLM by its id, or by the name of its model *)
SaysLlm(r) == r.llm_id \/ (r.extra # NoValue /\ get(r.extra, "model_name") = "llm")

(* The i-th record makes an entity, and a later one is merged into it *)
MergedInto(i, j) ==
  /\ i < j
  /\ raw_records[i].entity_id = raw_records[j].entity_id
  /\ Usable(raw_records[i])
  /\ Norm!Accepts(raw_records[j])

(* Every variable keeps its type: in particular the bus holds one entity   *)
(* for each id an accepted record had, and the lists that follow one       *)
(* another have the length of what they were made from.                    *)
TypeOK ==
  /\ pc \in Stages
  /\ control_mode \in ControlMode
  /\ policy_mode \in PolicyModes
  /\ rules \in {<<>>} \cup {book.rules : book \in Rulebooks}
  /\ \A i \in DOMAIN entities :
       /\ \A j \in DOMAIN entities : entities[i].entity_id = entities[j].entity_id => i = j
       /\ \E r \in ToSet(raw_records) : /\ Norm!Accepts(r)
                                       /\ r.entity_id = entities[i].entity_id
       /\ entities[i].workload_type \in WorkloadType \cup {Bad}
  /\ DOMAIN recommendations \subseteq 1..Cardinality(Pairs)
  /\ DOMAIN results \subseteq DOMAIN recommendations

(* No result may be applied without approval unless the control mode is    *)
(* controlled_auto_act and the rule's risk is low or medium, although two  *)
(* components (policy_engine.py:335, recommender.py:45) each decide it.    *)
ApprovalGate ==
  \A i \in DOMAIN results :
    ~RecOf(i).requires_approval =>
      control_mode = "controlled_auto_act" /\ RecOf(i).risk_level \in {"low", "medium"}

(* Results are ranked by priority; equal ones stay in the order of their   *)
(* entities and then of their rules, through both sorts (policy_engine.py: *)
(* 137, recommender.py:52), so a replay always lists them the same way.    *)
Ranked ==
  \A i, j \in DOMAIN results : i < j =>
    \E x, y \in Pairs :
      /\ RecOf(i).recommendation_id = RecId[x]
      /\ RecOf(j).recommendation_id = RecId[y]
      /\ PairPriority(x) >= PairPriority(y)
      /\ PairPriority(x) = PairPriority(y) => Earlier(x, y)

(* With the shipped rules, an entity that is told to take no action,       *)
(* because nothing sure is known of it, is not told to take another        *)
(* (rules.yaml rule 5 against the minimum confidence of the others).       *)
NoActionIsExclusive ==
  rules = RulesYaml.rules =>
    \A e \in {entities[i] : i \in DOMAIN entities} :
      Recommended(e, "recommend_no_action") =>
        ~\E i \in DOMAIN results : /\ RecOf(i).entity_id = e.entity_id
                                   /\ RecOf(i).action_type # "recommend_no_action"

(* With the shipped rules, scaling is recommended exactly for the services *)
(* in Kubernetes, by their record or by the default of its source, online  *)
(* and not LLM, that are late and have a queue, when enough is known of    *)
(* them: what normalizer, bus, classifier, scenario, preconditions,        *)
(* signals, logic and gate amount to together.                             *)
ScaleUpTrigger ==
  pc = "done" /\ rules = RulesYaml.rules =>
    \A i \in {k \in DOMAIN raw_records : Single(k)} :
      LET r == raw_records[i] IN
      Recommended(r, "scale_replicas") <=>
        /\ Usable(r)
        /\ r.entity_type = "service" /\ Domain(r) = "kubernetes"
        /\ \/ Given(r, "workload_type") = "online_inference"
           \/ Given(r, "workload_type") = "unknown" /\ ~SaysLlm(r)
        /\ Greater(Plain(r.latency_p95_ms), Threshold(thresholds, "target_p95_ms")) = "yes"
        /\ Greater(Plain(r.queue_depth), Threshold(thresholds, "min_queue_depth_for_scale")) = "yes"
        /\ Confidence(r) >= 75

(* With the shipped rules, quarantine is recommended of nothing that is    *)
(* not degraded or critical, and of every such node and GPU under Slurm    *)
(* that is not known to do other work, when enough is known of it          *)
(* (policy_engine.py:296, docs/architecture/policy-engine.md:59): through  *)
(* the default domain, the classifier, the precondition and both gates.    *)
QuarantineTrigger ==
  pc = "done" /\ rules = RulesYaml.rules =>
    \A i \in {k \in DOMAIN raw_records : Single(k)} :
      LET r    == raw_records[i]
          sick == r.health_state \in {"degraded", "critical"}
          sure == Confidence(r) >= 85
      IN
      /\ Recommended(r, "quarantine_node") => Usable(r) /\ sick /\ sure
      /\ /\ Usable(r) /\ sick /\ sure
         /\ r.entity_type \in {"node", "gpu"} /\ Domain(r) = "slurm"
         /\ Given(r, "workload_type") \in {"unknown", "hpc_research", "distributed_training"}
         => Recommended(r, "quarantine_node")

(* With the shipped rules, scaling to zero is recommended exactly for      *)
(* services known to be online, not LLM, whose throughput is below the     *)
(* threshold in force (docs/architecture/policy-engine.md:103): busy or    *)
(* late as they are.  Nothing is said of a throughput that equals it,      *)
(* hence at most is below.                                                 *)
ScaleToZeroTrigger ==
  pc = "done" /\ rules = RulesYaml.rules =>
    \A i \in {k \in DOMAIN raw_records : Single(k)} :
      LET r == raw_records[i]
          idle_threshold == Threshold(thresholds, "idle_throughput_threshold")
      IN
      Plain(r.throughput) # idle_threshold =>
        (Recommended(r, "enable_scale_to_zero") <=>
           /\ Usable(r)
           /\ r.entity_type = "service"
           /\ \/ Given(r, "workload_type") = "online_inference"
              \/ /\ Given(r, "workload_type") = "unknown"
                 /\ Domain(r) = "kubernetes" /\ ~SaysLlm(r)
           /\ AtMost(Plain(r.throughput), idle_threshold) = "yes"
           /\ Confidence(r) >= 80)

(* A rule in which every check can be made, and thresholds that are numbers *)
WellFormed(rule) ==
  /\ Bad \notin {rule.scenario_family, rule.preconditions, rule.required_signals,
                  rule.keywords, rule.wording}
  /\ \A i \in DOMAIN rule.preconditions : rule.preconditions[i] # Bad
  /\ \A i \in DOMAIN rule.required_signals : rule.required_signals[i] # Bad
  /\ ~NaN(rule.minimum_confidence)
NumbersOnly(t) == t # Bad /\ \A name \in DOMAIN t : ~NaN(t[name])

(* The shipped rules are such, whatever Bad stands for. *)
ASSUME ShippedAssumption ==
  \A i \in DOMAIN RulesYaml.rules : WellFormed(RulesYaml.rules[i])

(* With rules and thresholds that are well formed, evaluation never raises *)
(* on what was validated, whichever fields it lacks: it takes a second     *)
(* record with what the class of the entity refuses or converts, as the    *)
(* bus merges it unseen (state_bus.py:116-119), and that may be a good     *)
(* record, of another type or alone; or a GPU utilization in extra, where  *)
(* validation does not look, that is no number (policy_engine.py:285-291). *)
RaisesOnlyOnUnvalidated ==
  pc = "failed_evaluate" =>
    \/ ~NumbersOnly(thresholds)
    \/ \E j \in DOMAIN rules : ~WellFormed(rules[j])
    \/ \E i, j \in DOMAIN raw_records :
         /\ MergedInto(i, j)
         /\ \/ ~ValidAs(raw_records[i].entity_type, raw_records[j])
            \/ \E f \in Numeric :
                 Brings(raw_records[i].entity_type, raw_records[j])[f] \in Texts
    \/ \E r \in ToSet(raw_records) :
         /\ Norm!Accepts(r) /\ r.extra \notin {NoValue, Bad}
         /\ get(r.extra, "gpu_utilization") = Bad

(* Three flaws of records stop a run before its rules are evaluated: a     *)
(* time with a zone (state_bus.py:103, 139), a merged record with a key    *)
(* that is an attribute but no field (state_bus.py:118-119), and a model   *)
(* name that is no string, or none to ask for as extra is no dict, which   *)
(* only a merge stores (workload_classifier.py:106).  Every other costs    *)
(* the one record: whatever is missing, unknown or no time (normalizer.py: *)
(* 57-63), or refused by validation (state_bus.py:86-91).                  *)
FlawsThatStop ==
  /\ pc = "failed_ingest" =>
       \/ \E r \in ToSet(raw_records) : Norm!Accepts(r) /\ Norm!has_zone(r)
       \/ \E i, j \in DOMAIN raw_records : MergedInto(i, j) /\ raw_records[j].clash
  /\ pc = "failed_classify" =>
       \/ \E r \in ToSet(raw_records) : Norm!Accepts(r) /\ OddlyNamed(r)
       \/ \E i, j \in DOMAIN raw_records : MergedInto(i, j) /\ raw_records[j].extra = Bad

-----------------------------------------------------------------------------
(* Claims of the repository *)

(* docs/architecture/policy-engine.md:58: batching is adjusted when the    *)
(* queue is high but the GPU underused.                                    *)
BatchingTrigger ==
  pc = "done" /\ rules = RulesYaml.rules =>
    \A i \in {k \in DOMAIN raw_records : Single(k) /\ Usable(raw_records[k])} :
      LET r == raw_records[i] IN
      /\ r.entity_type = "service" /\ r.workload_type = "online_inference"
      /\ Greater(Threshold(thresholds, "target_gpu_utilization"), r.gpu_utilization) = "yes"
      /\ Greater(r.queue_depth, Threshold(thresholds, "min_queue_depth_for_batching")) = "yes"
      /\ Confidence(r) >= 80
      => Recommended(r, "adjust_batching")
=============================================================================
