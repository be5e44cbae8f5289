------------------------- MODULE WorkloadClassifier -------------------------
(***************************************************************************)
(* openaice/core/workload_classifier.py: the workload type the pipeline    *)
(* gives an entity before the rules are evaluated.  llm_id tells whether   *)
(* one of the keywords of line 99 occurs in the entity's id; of the name   *)
(* of a model, "llm" stands for one with a keyword in it.                  *)
(***************************************************************************)
EXTENDS Entities

(* A model_name that is no string, null among others, has no lower().      *)
OddName(extra) ==
  "model_name" \in DOMAIN extra /\ extra["model_name"] \in {NoValue, Bad}

_looks_like_llm(entity) ==
  /\ entity.entity_type = "service"
  /\ entity.llm_id \/ get(entity.extra, "model_name") = "llm"

(* The name is asked for if the id alone does not tell: line 106 raises    *)
NameRaises(entity) ==
  /\ entity.entity_type = "service" /\ entity.scheduler_domain = "kubernetes"
  /\ entity.workload_type = "unknown" /\ ~entity.llm_id
  /\ entity.extra = Bad \/ OddName(entity.extra)

SlurmOrOnline(entity) ==
  IF entity.scheduler_domain = "slurm" THEN "hpc_research" ELSE "online_inference"

(* What the heuristics say of an entity whose workload is unknown *)
Heuristic(entity) ==
  CASE entity.entity_type \in {"service", "deployment"} ->
         IF entity.scheduler_domain # "kubernetes" THEN "unknown"
         ELSE IF _looks_like_llm(entity) THEN "llm_serving"
         ELSE "online_inference"
    [] entity.entity_type = "job" ->
         IF entity.scheduler_domain = "slurm" THEN "hpc_research"
         ELSE IF entity.scheduler_domain = "kubernetes" THEN "batch_inference"
         ELSE "distributed_training"
    [] entity.entity_type \in {"gpu", "node", "queue"} -> SlurmOrOnline(entity)
    [] OTHER -> "unknown"

(* A type the telemetry gave, or an earlier classification, is kept. *)
_infer_workload_type(entity) ==
  IF entity.workload_type # "unknown" THEN entity.workload_type
  ELSE Heuristic(entity)

classify(entity) ==
  [entity EXCEPT !.workload_type = _infer_workload_type(entity)]

classify_all(entities) == [i \in DOMAIN entities |-> classify(entities[i])]
=============================================================================
