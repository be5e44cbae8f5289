------------------------------ MODULE Entities ------------------------------
(***************************************************************************)
(* openaice/schemas/entities.py: the fields of the entity classes, and     *)
(* what validation makes of a value.                                       *)
(*                                                                         *)
(* NoValue stands for None and for what is missing.  Texts are numbers in  *)
(* quotes, whose value Number gives: validation converts them, what is     *)
(* stored without it (state_bus.py:119) stays a text.  Bad is a value that *)
(* is neither: null or a list for a number, no dict for a dict.  extra is  *)
(* a dict: a function on the keys it has.  Confidence and utilization are  *)
(* in percent.                                                             *)
(***************************************************************************)
EXTENDS Integers

CONSTANTS NoValue, Bad, Texts, Number

WorkloadType ==
  {"online_inference", "batch_inference", "distributed_training",
   "hpc_research", "llm_serving", "managed_cloud", "unknown"}

(* None of these is a number, or a word that classifier and rules look for *)
ASSUME ValueAssumption ==
  /\ NoValue # Bad /\ Bad # <<>> /\ {NoValue, Bad} \cap Texts = {}
  /\ Number \in [Texts -> Int]
  /\ \A v \in {NoValue, Bad} \cup Texts :
       v \notin Int \cup WorkloadType
                \cup {"degraded", "critical", "kubernetes", "slurm", "llm"}

Measured == {"latency_p95_ms", "queue_depth", "throughput", "gpu_utilization"}
Numeric == Measured \cup {"confidence_score"}

(* The measured fields that the class of a type has *)
Declared(type) ==
  CASE type = "service" -> {"latency_p95_ms", "queue_depth", "throughput"}
    [] type \in {"deployment", "gpu"} -> {"gpu_utilization"}
    [] type = "job" -> {"gpu_utilization", "queue_depth"}
    [] type = "queue" -> {"queue_depth"}
    [] OTHER -> {}

Attributes(type) ==
  {"source_type", "entity_type", "entity_id", "observed_at", "scheduler_domain",
   "workload_type", "health_state", "confidence_score", "extra"} \cup Declared(type)

DefaultOf(field) ==
  CASE field \in {"health_state", "workload_type"} -> "unknown"
    [] field = "confidence_score" -> 50
    [] field = "extra" -> <<>>
    [] OTHER -> NoValue

NaN(v) == v \in {NoValue, Bad} \cup Texts

(* The number a value is, or is the text of *)
Plain(v) == IF v \in Texts THEN Number[v] ELSE v

(* extra.get(key).  What is no dict has no get: see who asks.              *)
get(extra, key) == IF extra # Bad /\ key \in DOMAIN extra THEN extra[key] ELSE NoValue
=============================================================================
