------------------------------ MODULE Adapters ------------------------------
(***************************************************************************)
(* The raw records that the adapters of openaice/adapters make of what     *)
(* their systems answer.  The order of the queries and their failures are  *)
(* actions of module Collector.                                            *)
(*                                                                         *)
(* A record has the fields its adapter fills in, of those the properties   *)
(* read; a value is text.  All live adapters take the time of a record     *)
(* from datetime.utcnow(), which has no zone; it is read for each record,  *)
(* and the clock of the model, at, is too coarse to move within an answer. *)
(* No live adapter uses a key that names an attribute and no field, so     *)
(* their records never clash (StateBus).                                   *)
(***************************************************************************)
EXTENDS Integers, SequencesExt

CONSTANTS
  NoValue,        \* a key the record has not
  Malformed,      \* an item the adapter's code raises on, or no number
  label_filters   \* PrometheusConfig: label |-> the value it must have

(* Mutated form: the clock is read with a zone *)
BugZonedClock(source, type, id, domain, fields, at) ==
  [source_type |-> source, entity_type |-> type, entity_id |-> id,
   scheduler_domain |-> domain, observed_at |-> at, aware |-> TRUE,
   clash |-> FALSE, strings |-> TRUE, fields |-> fields]

Record(source, type, id, domain, fields, at) ==
  [source_type |-> source, entity_type |-> type, entity_id |-> id,
   scheduler_domain |-> domain, observed_at |-> at, aware |-> FALSE,
   clash |-> FALSE, strings |-> TRUE, fields |-> fields]

Health(ok) == IF ok THEN "healthy" ELSE "degraded"

(* The items of s that are in S, in their order *)
Among(s, S) ==
  LET kept[n \in 0..Len(s)] ==
        IF n = 0 THEN <<>>
        ELSE IF s[n] \in S THEN Append(kept[n - 1], s[n]) ELSE kept[n - 1]
  IN  kept[Len(s)]

(* One of s, one of t, and so on *)
Alternate(s, t) ==
  [i \in 1..(2 * Len(s)) |-> IF i % 2 = 1 THEN s[(i + 1) \div 2] ELSE t[i \div 2]]

-----------------------------------------------------------------------------
(* Kubernetes *)

DeploymentId(ns, dep) == ns \o "/" \o dep.name

DeploymentRecord(ns, dep, at) ==
  Record("kubernetes", "deployment", DeploymentId(ns, dep), "kubernetes",
         [available_replicas |-> ToString(dep.available),
          health_state |-> Health(dep.available >= dep.desired)], at)

(* Mutated form: the replicas asked for, not those available *)
BugAskedFor(ns, dep, at) ==
  Record("kubernetes", "service", "svc-" \o DeploymentId(ns, dep), "kubernetes",
         [available_replicas |-> ToString(dep.desired),
          service_state |-> IF dep.available > 0 THEN "active" ELSE "degraded"], at)

ServiceRecord(ns, dep, at) ==
  Record("kubernetes", "service", "svc-" \o DeploymentId(ns, dep), "kubernetes",
         [available_replicas |-> ToString(dep.available),
          service_state |-> IF dep.available > 0 THEN "active" ELSE "degraded"], at)

_get_deployments(ns, deps, at) ==
  Alternate([i \in DOMAIN deps |-> DeploymentRecord(ns, deps[i], at)],
            [i \in DOMAIN deps |-> ServiceRecord(ns, deps[i], at)])

_get_nodes(nodes, at) ==
  [i \in DOMAIN nodes |->
     Record("kubernetes", "node", nodes[i].name, "kubernetes",
            [health_state |-> Health(nodes[i].ready)], at)]

-----------------------------------------------------------------------------
(* Slurm *)

_map_slurm_state(state) ==
  CASE state \in {"FAILED", "TIMEOUT", "NODE_FAIL"} -> "failed"
    [] state \in {"CANCELLED", "PREEMPTED"} -> "cancelled"
    [] state = "RUNNING" -> "running"
    [] state = "PENDING" -> "pending"
    [] state = "COMPLETING" -> "completing"
    [] state = "COMPLETED" -> "completed"
    [] state = "SUSPENDED" -> "suspended"
    [] OTHER -> "unknown"

(* The state of a job is one word, as mode cli reads it; mode rest takes   *)
(* the first of a list, and raises on an empty one (Malformed).            *)
JobRecords(jobs, at) ==
  [i \in DOMAIN jobs |->
     Record("slurm", "job", "slurm-job-" \o jobs[i].name, "slurm",
            [job_state |-> _map_slurm_state(jobs[i].state)], at)]

(* A node's state is a set of words.  The two modes do not agree on those  *)
(* that make it healthy.                                                   *)
Healthy(mode, node) ==
  \/ "IDLE" \in node.state
  \/ mode = "cli" /\ "ALLOCATED" \in node.state

NodeRecords(mode, nodes, at) ==
  [i \in DOMAIN nodes |->
     Record("slurm", "node", nodes[i].name, "slurm",
            [health_state |-> Health(Healthy(mode, nodes[i]))], at)]

-----------------------------------------------------------------------------
(* Prometheus: a series has labels, and a value that may be no number.     *)
(* A utilization is stored in percent in the model, as a ratio in the code *)
(* (see GPU metrics below); Prometheus' own is stored as it comes, so that *)
(* what DCGM_FI_DEV_GPU_UTIL gives in percent counts a hundredfold.        *)

Unconverted(field, value) == IF field = "gpu_utilization" THEN 100 * value ELSE value

EntityId(labels) ==
  LET present == SelectSeq(<<"service", "deployment", "job", "instance", "pod">>,
                           LAMBDA key : key \in DOMAIN labels)
  IN  IF present = <<>> THEN "unknown" ELSE labels[Head(present)]

EntityTypeOf(series) ==
  CASE series.dcgm -> "gpu"
    [] "node" \in DOMAIN series.labels -> "node"
    [] "job" \in DOMAIN series.labels /\ "service" \notin DOMAIN series.labels -> "job"
    [] OTHER -> "service"

Filtered(labels) ==
  \E key \in DOMAIN label_filters :
    key \notin DOMAIN labels \/ labels[key] # label_filters[key]

(* _result_to_record, of all results of a query *)
MetricRecords(field, result, at) ==
  LET kept == Among(result, {s \in ToSet(result) :
                               s.value # Malformed /\ ~Filtered(s.labels)})
  IN  [i \in DOMAIN kept |->
         Record("prometheus", EntityTypeOf(kept[i]), EntityId(kept[i].labels), NoValue,
                [f \in {field} |-> ToString(Unconverted(field, kept[i].value))], at)]

-----------------------------------------------------------------------------
(* GPU metrics: of a utilization, up to 1 is taken for a ratio already *)

Utilization(val) == IF val > 1 THEN val ELSE 100 * val

GpuId(series) == "gpu-" \o series.gpu

(* _to_record, of all results of a query *)
GpuRecords(field, result, at) ==
  LET kept == Among(result, {s \in ToSet(result) : s.value # Malformed})
  IN  [i \in DOMAIN kept |->
         Record("dcgm", "gpu", GpuId(kept[i]), NoValue,
                [f \in {field} |-> ToString(IF field = "gpu_utilization"
                                            THEN Utilization(kept[i].value)
                                            ELSE kept[i].value)], at)]

-----------------------------------------------------------------------------
(* Generic serving: a query adds its field to the one record of each       *)
(* service, which a service gets with its first result, number or not.     *)

ServingRecord(service, fields, at) ==
  Record("generic_serving", "service", service, "kubernetes", fields, at)

AddMetric(field, records, series) ==
  LET metric == IF series.value = Malformed THEN {} ELSE {field}
      With(fields) == [f \in metric \cup DOMAIN fields |->
                         IF f \in metric THEN ToString(series.value) ELSE fields[f]]
      at(i) == records[i].entity_id = series.service
  IN  IF \E i \in DOMAIN records : at(i)
      THEN [i \in DOMAIN records |->
              IF at(i) THEN ServingRecord(series.service, With(records[i].fields), NoValue)
              ELSE records[i]]
      ELSE Append(records, ServingRecord(series.service,
                                         With([workload_type |-> "online_inference"]), NoValue))

AddMetrics(field, records, result) ==
  LET after[n \in 0..Len(result)] ==
        IF n = 0 THEN records ELSE AddMetric(field, after[n - 1], result[n])
  IN  after[Len(result)]

(* The records get their time after the last query.                        *)
ServingRecords(records, at) ==
  [i \in DOMAIN records |-> ServingRecord(records[i].entity_id, records[i].fields, at)]
=============================================================================
