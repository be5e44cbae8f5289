----------------------------- MODULE MCCollector -----------------------------
(* A small site for TLC: one namespace with a deployment and one without,   *)
(* a node that both schedulers know, a job, an exporter, GPUs of two hosts. *)
EXTENDS Collector

MCIds == {"prod/web", "svc-prod/web", "web", "n1", "slurm-job-1", "dcgm-exporter",
          "gpu-0", "gpu-1"}

MCFields == {"scheduler_domain", "health_state", "workload_type", "service_state",
             "available_replicas", "job_state", "latency_p95_ms", "throughput",
             "gpu_utilization"}

MCValues == {"kubernetes", "slurm", "unknown", "healthy", "degraded", "rotten", "active",
             "online_inference", "running", "failed", "0", "1", "54", "100", "5400"}

MCKnown == [t \in Types |->
  {"scheduler_domain", "health_state", "workload_type"} \cup
  CASE t = "service" -> {"service_state", "available_replicas", "latency_p95_ms", "throughput"}
    [] t = "deployment" -> {"available_replicas", "gpu_utilization"}
    [] t = "job" -> {"job_state", "gpu_utilization"}
    [] t = "gpu" -> {"gpu_utilization"}
    [] OTHER -> {}]

MCMetrics == [prometheus |-> <<"latency_p95_ms", "gpu_utilization">>,
              gpu_metrics |-> <<"gpu_utilization">>,
              generic_serving |-> <<"latency_p95_ms", "throughput">>]

MCNamespaces == <<"prod", "ml">>

MCFilters == [env |-> "live"]

-----------------------------------------------------------------------------
Web(available, desired) == [name |-> "web", available |-> available, desired |-> desired]

Series(labels, dcgm, value) == [labels |-> labels, dcgm |-> dcgm, value |-> value]

(* Of a file: a late report on the node, one without a time or a domain,    *)
(* one that cannot be created, two to skip, one that clashes, and one with  *)
(* a time zone.                                                             *)
FileRecord(id, at, aware, domain, strings, fields) ==
  [source_type |-> "replay", entity_type |-> "node", entity_id |-> id,
   scheduler_domain |-> domain, observed_at |-> at, aware |-> aware,
   clash |-> FALSE, strings |-> strings, fields |-> fields]

Healthy == [health_state |-> "healthy"]

Files ==
  { <<FileRecord("n1", 0, FALSE, "slurm", TRUE, Healthy),
      FileRecord("web", NoValue, FALSE, NoValue, TRUE, [health_state |-> "rotten"])>>,
    <<FileRecord("n1", BadTime, FALSE, NoValue, TRUE, Healthy),
      FileRecord("gpu-1", 0, FALSE, NoValue, FALSE, Healthy)>>,
    <<[FileRecord("gpu-0", NoValue, FALSE, NoValue, TRUE, Healthy) EXCEPT !.clash = TRUE],
      FileRecord("gpu-1", 0, FALSE, NoValue, TRUE, Healthy)>>,
    <<FileRecord("gpu-1", 0, TRUE, NoValue, TRUE, Healthy)>> }

MCAnswers(a, q) ==
  CASE q.kind = "deployments" ->
         IF q.of = "prod" THEN {<<Web(0, 1)>>, <<Web(1, 1)>>, <<Web(0, 0)>>} ELSE {<<>>}
    [] q.kind = "jobs" -> {<<[name |-> "1", state |-> "RUNNING"]>>,
                           <<[name |-> "1", state |-> "NODE_FAIL"],
                             [name |-> "2", state |-> Malformed]>>}
    [] q.kind = "nodes" /\ a = "kubernetes" ->
         {<<[name |-> "n1", ready |-> b]>> : b \in BOOLEAN}
    [] q.kind = "nodes" /\ a = "slurm" ->
         {<<[name |-> "n1", state |-> {"ALLOCATED"}]>>,
          <<[name |-> "n1", state |-> {"IDLE"}], [name |-> "n2", state |-> Malformed]>>}
    [] q.kind = "file" -> Files
    [] a = "prometheus" /\ q.of = "latency_p95_ms" ->
         {<<Series([service |-> "web", job |-> "apps", env |-> "live"], FALSE, 54),
            Series([service |-> "web", env |-> "test"], FALSE, 1)>>,
          <<Series([instance |-> "n1", node |-> "n1", env |-> "live"], FALSE, 1),
            Series([service |-> "web", env |-> "live"], FALSE, Malformed)>>}
    [] a = "prometheus" /\ q.of = "gpu_utilization" ->
         {<<Series([job |-> "dcgm-exporter", env |-> "live"], TRUE, 54)>>}
    [] a = "gpu_metrics" ->
         {<<[host |-> "h1", gpu |-> "0", value |-> 54], [host |-> "h1", gpu |-> "1", value |-> 1]>>,
          <<[host |-> "h2", gpu |-> "0", value |-> Malformed],
            [host |-> "h2", gpu |-> "1", value |-> 0]>>}
    [] a = "generic_serving" ->
         {<<[service |-> "web", value |-> 1]>>, <<[service |-> "web", value |-> Malformed]>>}

-----------------------------------------------------------------------------
(* What could be delivered, by source: more than what is, in that any time may
   have a zone and any record clash or lack a domain. *)
Data(domain, fields) ==
  [f \in MCFields |-> IF f = "scheduler_domain" THEN domain
                     ELSE IF f \in DOMAIN fields THEN fields[f] ELSE NoValue]

From(source, ids, types, data) ==
  [id : ids, type : types, source : {source}, at : 0..MaxTime, aware : BOOLEAN,
   clash : BOOLEAN, fields : data]

Of(domain, records) == {Data(d, r) : d \in {domain, NoValue}, r \in records}

Metric(domain, field, values) == Of(domain, [{field} -> values])

MCFragments ==
  UNION {
    From("kubernetes", {"prod/web"}, {"deployment"}, Of("kubernetes",
         [available_replicas : {"0", "1"}, health_state : {"healthy", "degraded"}])),
    From("kubernetes", {"svc-prod/web"}, {"service"}, Of("kubernetes",
         [available_replicas : {"0", "1"}, service_state : {"active", "degraded"}])),
    From("kubernetes", {"n1"}, {"node"},
         Metric("kubernetes", "health_state", {"healthy", "degraded"})),
    From("slurm", {"n1"}, {"node"},
         Metric("slurm", "health_state", {"healthy", "degraded"})),
    From("slurm", {"slurm-job-1"}, {"job"},
         Metric("slurm", "job_state", {"running", "failed"})),
    From("prometheus", {"web", "n1"}, {"service", "node"},
         Metric("unknown", "latency_p95_ms", {"1", "54"})),
    From("prometheus", {"dcgm-exporter"}, {"gpu"},
         Metric("unknown", "gpu_utilization", {"5400"})),
    From("dcgm", {"gpu-0", "gpu-1"}, {"gpu"},
         Metric("unknown", "gpu_utilization", {"0", "54", "100"})),
    From("generic_serving", {"web"}, {"service"}, Of("kubernetes",
         UNION {[fs -> {"1", "online_inference"}] :
                  fs \in {{"workload_type"} \cup m : m \in SUBSET {"latency_p95_ms", "throughput"}}})),
    From("replay", {"n1", "web", "gpu-0", "gpu-1"}, {"node"},
         Metric("slurm", "health_state", {"healthy"})
           \cup Metric("unknown", "health_state", {"healthy", "rotten"})) }
=============================================================================
