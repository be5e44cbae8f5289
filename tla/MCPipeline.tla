----------------------------- MODULE MCPipeline -----------------------------
(* Small instances of the pipeline for TLC: the shipped rules and what may *)
(* be wrong with them, three packs and records of services, nodes, GPUs    *)
(* and jobs around every threshold.                                        *)
EXTENDS PipelineProperties

CONSTANTS SixtyText, LateText  \* the texts "60" and "201"

Numbers == [x \in Texts |-> IF x = SixtyText THEN 60 ELSE 201]

(* What a record may have in extra *)
Gpu(v) == [gpu_utilization |-> v]
Named(name) == [model_name |-> name]

Record(id, type, domain, workload, health) ==
  [source_type |-> "replay", entity_type |-> type, entity_id |-> id,
   observed_at |-> 1, aware |-> FALSE, strings |-> TRUE, clash |-> FALSE,
   scheduler_domain |-> domain, workload_type |-> workload, health_state |-> health,
   llm_id |-> FALSE, extra |-> NoValue, latency_p95_ms |-> NoValue, queue_depth |-> NoValue,
   throughput |-> NoValue, gpu_utilization |-> NoValue, confidence_score |-> 90]

(* A service around the thresholds of the rules about services *)
Service ==
  { [Record("svc", "service", "kubernetes", "unknown", "healthy") EXCEPT
      !.llm_id = m, !.extra = x, !.latency_p95_ms = l, !.queue_depth = q,
      !.throughput = t, !.confidence_score = c] :
      m \in BOOLEAN, x \in {NoValue, Gpu(54)}, l \in {NoValue, 200, 201},
      q \in {NoValue, 10, 51}, t \in {0, 2}, c \in {49, 75, 80} }

Late ==
  [Record("svc", "service", "kubernetes", NoValue, NoValue) EXCEPT !.extra = Gpu(54),
     !.latency_p95_ms = 201, !.queue_depth = 51, !.throughput = 0]

(* Second records, some with values that only a merge takes as they are *)
Second ==
  { [Record("svc", "service", NoValue, w, "degraded") EXCEPT !.latency_p95_ms = l,
      !.queue_depth = q, !.throughput = t, !.confidence_score = c] :
      w \in {NoValue, "online_inference"}, l \in {200, LateText}, q \in {NoValue, Bad, SixtyText},
      t \in {NoValue, 2, Bad}, c \in {NoValue, 150, Bad} }
  \cup { [Late EXCEPT !.extra = x, !.workload_type = w, !.confidence_score = c] :
           x \in {Bad, Gpu(Bad), Gpu(SixtyText), Named("llm"), Named(NoValue)},
           w \in {NoValue, "online_inference"}, c \in {NoValue, SixtyText} }

(* A late service, from another source, without a domain, a time or a      *)
(* confidence, with a time zone or with what makes a record one to skip;   *)
(* one whose GPU utilization comes as a field; one that is good as a node; *)
(* one with numbers in quotes, and ones with a name or a key that stops.   *)
Variants ==
  { [Late EXCEPT !.source_type = s, !.scheduler_domain = d] :
      s \in {"prometheus", "kubernetes", "slurm", "replay", "custom"},
      d \in {NoValue, "kubernetes"} }
  \cup
  { [Late EXCEPT !.confidence_score = NoValue], [Late EXCEPT !.entity_type = "pod"],
    [Late EXCEPT !.strings = FALSE], [Late EXCEPT !.source_type = NoValue],
    [Late EXCEPT !.aware = TRUE, !.observed_at = NoValue], [Late EXCEPT !.entity_id = NoValue],
    [Late EXCEPT !.latency_p95_ms = Bad], [Late EXCEPT !.extra = Gpu(Bad)],
    [Late EXCEPT !.latency_p95_ms = Bad, !.entity_type = "node"], [Late EXCEPT !.clash = TRUE],
    [Late EXCEPT !.latency_p95_ms = LateText, !.queue_depth = SixtyText],
    [Late EXCEPT !.workload_type = Bad], [Late EXCEPT !.extra = Bad] }
  \cup { [Late EXCEPT !.observed_at = t, !.aware = z] : t \in {0, 2, BadTime}, z \in BOOLEAN }
  \cup { [Late EXCEPT !.extra = Named(n), !.llm_id = m] :
           n \in {"llm", "resnet", NoValue, Bad}, m \in BOOLEAN }
  \cup { [Late EXCEPT !.workload_type = "online_inference", !.extra = x,
            !.gpu_utilization = 54] : x \in {NoValue, Gpu(54)} }

Other ==
  { [Record("other", type, d, w, h) EXCEPT !.confidence_score = c] :
      type \in {"node", "gpu", "job", "storage_endpoint"},
      d \in {"slurm", "kubernetes"}, w \in {"unknown", "distributed_training"},
      h \in {"healthy", "critical"}, c \in {40, 85} }
  \cup { [Record("other", "node", NoValue, NoValue, "degraded") EXCEPT !.source_type = s] :
           s \in {"slurm", "dcgm"} }
  \cup
  { [Record("other", "service", "kubernetes", "unknown", "healthy") EXCEPT !.extra = Gpu(54),
      !.latency_p95_ms = 201, !.queue_depth = 11, !.throughput = t,
      !.confidence_score = 80] : t \in {1, 2} }

Busy == {s \in Service : s.latency_p95_ms = 201 /\ s.queue_depth = 51 /\ s.extra = Gpu(54)}

Batches ==
  {<<r>> : r \in Service} \cup {<<Late, r>> : r \in Second \cup Variants}
    \cup {<<r, Late>> : r \in Variants} \cup {<<r>> : r \in Variants}
    \cup {<<s, o>> : s \in Busy, o \in Other} \cup {<<o, s>> : s \in Busy, o \in Other}

File(shape, records) == [shape |-> shape, records |-> records]
Directory(yaml, json) == [telemetry_yaml |-> yaml, telemetry_json |-> json]

AllScenarios ==
  {Directory(File("records", b), NoFile) : b \in Batches}
    \cup {Directory(y, j) : y \in {NoFile, File("broken", <<>>), File("other", <<>>),
                                   File("list", <<>>), File("list", <<Late>>)},
                            j \in {NoFile, File("broken", <<>>), File("list", <<Late>>)}}

(* docs/guide/policy-rules.md's example with an idle threshold, a mode no  *)
(* one knows, and a pack whose thresholds are null                         *)
LatencyFirst ==
  [policy_mode |-> "latency_first",
   thresholds |-> [target_p95_ms |-> 100, idle_throughput_threshold |-> 3]]
UnknownMode ==
  [policy_mode |-> "latency-first", thresholds |-> [target_p95_ms |-> 100]]
NullPack == [policy_mode |-> NoValue, thresholds |-> Bad]

(* Each of the shipped rules with another flaw, so that it depends on the  *)
(* record which is met; and thresholds that are null, as a whole or one    *)
FlawedRules ==
  << [ScaleUp EXCEPT !.minimum_confidence = Bad], [AdjustBatching EXCEPT !.wording = Bad],
     [Quarantine EXCEPT !.required_signals = <<"health_state", Bad>>],
     [ScaleToZero EXCEPT !.preconditions = @ \o <<Bad>>],
     [NoAction EXCEPT !.keywords = Bad, !.scenario_family = "hpc_or_training"] >>

FewRules == {RulesYaml}
ManyRules ==
  {RulesYaml, [RulesYaml EXCEPT !.rules = FlawedRules], [RulesYaml EXCEPT !.thresholds = Bad],
   [RulesYaml EXCEPT !.thresholds.target_p95_ms = Bad]}
ManyPacks == {BalancedYaml, LatencyFirst, UnknownMode, NullPack}

Ids == [x \in (1..2) \X (1..5) |-> "rec-" \o ToString(x)]
=============================================================================
