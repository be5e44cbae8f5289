------------------------------ MODULE Collector ------------------------------
(***************************************************************************)
(* From the systems that are watched to the state bus: an adapter takes a  *)
(* snapshot, query by query, the normalizer makes fragments of its records *)
(* and put_fragments merges them, one after the other, as                  *)
(* docs/adapters/custom.md and _run_pipeline (openaice/cli/cli.py) put the *)
(* parts together.  A query answers, fails, or answers with something the  *)
(* adapter raises on; the clock ticks between any two steps.               *)
(***************************************************************************)
EXTENDS StateBus, FiniteSets, SequencesExt

CONSTANTS
  BadTime,        \* a string that is no time
  Malformed,      \* an item the adapter's code raises on, or no number
  label_filters,  \* PrometheusConfig: label |-> the value it must have
  AdapterNames,   \* the adapters in use
  namespaces,     \* KubernetesConfig
  Metrics,        \* adapter |-> the metrics it queries, in order
  Answers(_, _),  \* adapter, query |-> the answers it may get
  Idle,           \* no adapter is at work
  MaxSnapshots    \* bound: snapshots taken

Norm == INSTANCE Normalizer

Raw == INSTANCE Adapters

VARIABLES
  slurm_mode,   \* SlurmConfig.mode; for "mock", see replay
  adapter,      \* the adapter that takes a snapshot, or Idle
  queries,      \* the queries it has yet to send
  raw_records,  \* the records it has
  fragments,    \* normalized records put_fragments has yet to take
  snapshots,    \* history: the number of snapshots begun
  said,         \* history: node |-> the last answer about it, and when
  devices,      \* history: entity |-> the GPUs reported under this id
  files         \* history: the records of files that were taken

collector == <<slurm_mode, adapter, queries, raw_records, fragments,
               snapshots, said, devices, files>>

collectorVars == <<vars, collector>>

CollectorInit ==
  /\ Init
  /\ slurm_mode \in {"cli", "rest"}
  /\ adapter = Idle
  /\ queries = <<>>
  /\ raw_records = <<>>
  /\ fragments = <<>>
  /\ snapshots = 0
  /\ said = [e \in Ids |-> NoValue]
  /\ devices = [e \in Ids |-> {}]
  /\ files = {}

-----------------------------------------------------------------------------
(* Queries *)

Query(kind, of) == [kind |-> kind, of |-> of]

(* What a snapshot asks.  The nodes are listed once per namespace.         *)
Queries(a) ==
  CASE a = "kubernetes" ->
         Raw!Alternate([i \in DOMAIN namespaces |-> Query("deployments", namespaces[i])],
                       [i \in DOMAIN namespaces |-> Query("nodes", NoValue)])
    [] a = "slurm" -> <<Query("jobs", NoValue), Query("nodes", NoValue)>>
    [] a = "replay" -> <<Query("file", NoValue)>>
    [] OTHER -> [i \in DOMAIN Metrics[a] |-> Query("metric", Metrics[a][i])]

(* The records that an adapter has after an answer, from those before it   *)
Records(a, mode, q, answer, before, at) ==
  CASE a = "generic_serving" -> Raw!AddMetrics(q.of, before, answer)
    [] a = "replay" -> answer
    [] OTHER -> before \o
         CASE q.kind = "deployments" -> Raw!_get_deployments(q.of, answer, at)
           [] q.kind = "jobs" -> Raw!JobRecords(answer, at)
           [] q.kind = "nodes" /\ a = "kubernetes" -> Raw!_get_nodes(answer, at)
           [] q.kind = "nodes" /\ a = "slurm" -> Raw!NodeRecords(mode, answer, at)
           [] q.kind = "metric" /\ a = "prometheus" -> Raw!MetricRecords(q.of, answer, at)
           [] q.kind = "metric" /\ a = "gpu_metrics" -> Raw!GpuRecords(q.of, answer, at)

Take(q, answer) ==
  raw_records' = Records(adapter, slurm_mode, q, answer, raw_records, now)

Usable(node) ==
  IF adapter = "kubernetes" THEN node.ready ELSE Raw!Healthy(slurm_mode, node)

(* What the histories keep of an answer the adapter took                   *)
Remember(q, answer) ==
  /\ said' = [e \in Ids |->
       IF q.kind = "nodes" /\ \E i \in DOMAIN answer : answer[i].name = e
       THEN LET i == CHOOSE i \in DOMAIN answer : answer[i].name = e
            IN  [usable |-> Usable(answer[i]), at |-> now]
       ELSE said[e]]
  /\ devices' = [e \in Ids |->
       devices[e] \cup
         IF adapter = "gpu_metrics"
         THEN {<<answer[i].host, answer[i].gpu>> :
                 i \in {j \in DOMAIN answer : /\ answer[j].value # Malformed
                                             /\ Raw!GpuId(answer[j]) = e}}
         ELSE {}]
  /\ files' = files \cup IF q.kind = "file" THEN ToSet(answer) ELSE {}

(* Slurm's code raises on an item whose state is not of the type it expects; *)
(* the metric adapters skip one whose value is no number.                    *)
Spoils(item) == adapter = "slurm" /\ item.state = Malformed

-----------------------------------------------------------------------------
(* What is watched *)

(* The id under which an item of an answer is reported *)
EntityIdOf(a, q, item) ==
  CASE q.kind = "deployments" -> Raw!DeploymentId(q.of, item)
    [] q.kind = "jobs" -> "slurm-job-" \o item.name
    [] q.kind = "nodes" -> item.name
    [] q.kind = "metric" /\ a = "prometheus" -> Raw!EntityId(item.labels)
    [] q.kind = "metric" /\ a = "gpu_metrics" -> Raw!GpuId(item)
    [] q.kind = "metric" /\ a = "generic_serving" -> item.service

Items(a, q) == UNION {ToSet(answer) : answer \in Answers(a, q)}

Reported(a, kinds) ==
  UNION {{EntityIdOf(a, q, item) : item \in Items(a, q)} :
           q \in {q \in ToSet(Queries(a)) : q.kind \in kinds}}

DeploymentIds == Reported("kubernetes", {"deployments"})

OtherIds == UNION {Reported(a, {"jobs", "nodes", "metric"}) : a \in AdapterNames}

MetricAdapters == {"prometheus", "gpu_metrics", "generic_serving"}

LiveSources == {"kubernetes", "slurm", "prometheus", "dcgm", "generic_serving"}

(* An answer is a list, in which a node is there once; no metric is stored *)
(* under the name of a field that a scheduler reports, or of an attribute  *)
(* that is no field (metric_mappings).                                     *)
ASSUME AnswersAssumption ==
  /\ AdapterNames \subseteq {"kubernetes", "slurm", "replay"} \cup MetricAdapters
  /\ namespaces \in Seq(ToSet(namespaces))
  /\ \A a \in AdapterNames \cap MetricAdapters :
       /\ Metrics[a] \in Seq(ToSet(Metrics[a]))
       /\ ToSet(Metrics[a]) \cap {"scheduler_domain", "health_state", "service_state",
                                  "available_replicas"} = {}
  /\ \A a \in AdapterNames : \A q \in ToSet(Queries(a)) : \A answer \in Answers(a, q) :
       /\ answer \in Seq(ToSet(answer))
       /\ q.kind = "nodes" =>
            \A i, j \in DOMAIN answer : answer[i].name = answer[j].name => i = j
       /\ q.kind = "deployments" =>
            \A i \in DOMAIN answer : answer[i].available \in Nat

(* Every entity has a domain and a health, deployments and services their  *)
(* replicas; what the adapters themselves write is valid, and not None.    *)
ASSUME WordsAssumption ==
  /\ {"deployment", "service"} \subseteq Types
  /\ \A t \in Types :
       /\ {"scheduler_domain", "health_state"} \subseteq Known[t]
       /\ t \in {"deployment", "service"} => "available_replicas" \in Known[t]
       /\ t = "service" => "service_state" \in Known[t]
  /\ LET words == {"kubernetes", "slurm", "unknown", "healthy", "degraded", "active"}
     IN  words \cap Bad = {} /\ NoValue \notin words \cup LiveSources \cup Norm!EntityType
  /\ {BadTime, NoValue} \cap Nat = {} /\ BadTime # NoValue

(* What is watched has a name; the deployments and the services made of    *)
(* them have names of their own (kubernetes.py:76, 94).                    *)
ASSUME NamesAssumption ==
  LET service(d) == "svc-" \o d
  IN  /\ DeploymentIds \cap OtherIds = {}
      /\ NoValue \notin DeploymentIds \cup OtherIds
      /\ \A d \in DeploymentIds : service(d) \notin DeploymentIds \cup OtherIds \cup {NoValue}
      /\ \A d, e \in DeploymentIds : service(d) = service(e) => d = e

(* Numbers are written so that 0, and nothing else, is "0".                *)
ASSUME TextAssumption ==
  \A q \in ToSet(Queries("kubernetes")) : q.kind = "deployments" =>
    \A item \in Items("kubernetes", q) :
      LET text == ToString(item.available)
      IN  text \notin Bad \cup {NoValue} /\ (text = "0" <=> item.available = 0)

-----------------------------------------------------------------------------
(* A snapshot *)

Snapshot(a) ==
  /\ adapter = Idle /\ ~putting
  /\ snapshots < MaxSnapshots
  /\ snapshots' = snapshots + 1
  /\ adapter' = a
  /\ queries' = Queries(a)
  /\ raw_records' = <<>>
  /\ UNCHANGED <<vars, slurm_mode, fragments, said, devices, files>>

Asks == adapter # Idle /\ queries # <<>>

Answer(answer) ==
  /\ Asks
  /\ ~\E i \in DOMAIN answer : Spoils(answer[i])
  /\ Take(Head(queries), answer)
  /\ queries' = Tail(queries)
  /\ Remember(Head(queries), answer)
  /\ UNCHANGED <<vars, slurm_mode, adapter, fragments, snapshots>>

(* No answer, a bad status, or in mode cli something squeue or sinfo says  *)
(* that cannot be parsed: the query is caught on its own.                  *)
Fails ==
  /\ Asks
  /\ Head(queries).kind # "file"
  /\ queries' = Tail(queries)
  /\ UNCHANGED <<vars, slurm_mode, adapter, raw_records, fragments, snapshots,
                 said, devices, files>>

(* An item raises in the midst of an answer: those before it are kept, but *)
(* by squeue and sinfo (Fails).  In mode rest one try is around both       *)
(* queries.  Any item may be no such object as the other adapters expect;  *)
(* a deployment's two records read the same of it, so both come or none.   *)
BreaksOff(answer) ==
  /\ Asks
  /\ Head(queries).kind # "file"
  /\ adapter = "slurm" => slurm_mode = "rest"
  /\ \E i \in DOMAIN answer :
       LET before == SubSeq(answer, 1, i - 1) IN
       /\ adapter = "slurm" => Spoils(answer[i])
       /\ ~\E j \in DOMAIN before : Spoils(before[j])
       /\ Take(Head(queries), before)
       /\ Remember(Head(queries), before)
  /\ queries' = IF adapter = "slurm" THEN <<>> ELSE Tail(queries)
  /\ UNCHANGED <<vars, slurm_mode, adapter, fragments, snapshots>>

RestDown ==
  /\ Asks
  /\ adapter = "slurm" /\ slurm_mode = "rest"
  /\ queries' = <<>>
  /\ UNCHANGED <<vars, slurm_mode, adapter, raw_records, fragments, snapshots,
                 said, devices, files>>

-----------------------------------------------------------------------------
(* Normalization and merge *)

FragmentOf(r, at) ==
  [id |-> r.entity_id, type |-> r.entity_type, source |-> r.source_type,
   at |-> Norm!observed_at(r, at), aware |-> Norm!has_zone(r), clash |-> r.clash,
   fields |-> [f \in Fields |->
                 IF f = "scheduler_domain" THEN Norm!scheduler_domain(r)
                 ELSE IF f \in DOMAIN r.fields THEN r.fields[f] ELSE NoValue]]

Normalize ==
  /\ adapter # Idle /\ queries = <<>>
  /\ LET taken == IF adapter = "generic_serving"
                  THEN Raw!ServingRecords(raw_records, now) ELSE raw_records
         kept  == Norm!normalize(taken)
     IN  fragments' = [i \in DOMAIN kept |-> FragmentOf(kept[i], now)]
  /\ adapter' = Idle
  /\ raw_records' = <<>>
  /\ PutBegin
  /\ UNCHANGED <<slurm_mode, queries, snapshots, said, devices, files>>

(* What raises in put_fragments loses the rest of its batch.               *)
Put ==
  /\ fragments # <<>>
  /\ PutFragment(Head(fragments))
  /\ fragments' = IF putting' THEN Tail(fragments) ELSE <<>>
  /\ UNCHANGED <<slurm_mode, adapter, queries, raw_records, snapshots, said,
                 devices, files>>

Return ==
  /\ fragments = <<>>
  /\ PutReturn
  /\ UNCHANGED collector

(* What the pipeline does with the bus between two snapshots *)
Read == GetAllEntities /\ UNCHANGED collector

Time == Tick /\ UNCHANGED collector

CollectorNext ==
  \/ \E a \in AdapterNames : Snapshot(a)
  \/ Asks /\ \E answer \in Answers(adapter, Head(queries)) :
               Answer(answer) \/ BreaksOff(answer)
  \/ Fails \/ RestDown
  \/ Normalize \/ Put \/ Return
  \/ Read \/ Time

CollectorSpec == CollectorInit /\ [][CollectorNext]_collectorVars

-----------------------------------------------------------------------------
(* Properties *)

AtRest == adapter = Idle /\ ~putting

(* A record of a file on which put_fragments may raise                     *)
Flawed(r) == r.aware \/ r.clash

(* No file gave such a record, and none gave one of e                      *)
OnlyLive(e) == \A r \in files : ~Flawed(r) /\ r.entity_id # e

(* Whatever the other queries of a snapshot did, and however often and at  *)
(* whatever instant a node was listed, by one scheduler or by two, the bus *)
(* at rest has each node healthy exactly when the last answer about it     *)
(* found it so; no query that failed, and no item lost with a malformed    *)
(* one, changed it (slurm.py:67-164, kubernetes.py:58-67,                  *)
(* state_bus.py:99-123).                                                   *)
LastAnswerWins ==
  AtRest =>
    \A e \in {n \in Ids : said[n] # NoValue /\ OnlyLive(n)} :
      /\ Present(e)
      /\ entities[e].at >= said[e].at
      /\ entities[e].fields["health_state"] = "healthy" <=> said[e].usable

(* The two entities that Kubernetes' answer about one deployment becomes   *)
(* never disagree at rest: both are there, with the same replicas, and the *)
(* service is active exactly when there are any; so one scaled to zero on  *)
(* purpose is degraded while its deployment is healthy                     *)
(* (kubernetes.py:70-107).                                                 *)
ServiceMirrorsDeployment ==
  AtRest =>
    \A d \in Ids \cap DeploymentIds : LET s == "svc-" \o d IN
      s \in Ids /\ OnlyLive(d) /\ OnlyLive(s) =>
        /\ Present(d) <=> Present(s)
        /\ Present(d) =>
             LET available == entities[d].fields["available_replicas"] IN
             /\ entities[s].fields["available_replicas"] = available
             /\ entities[s].fields["service_state"] =
                  IF available = "0" THEN "degraded" ELSE "active"

DomainOf(source) ==
  CASE source \in {"kubernetes", "generic_serving"} -> "kubernetes"
    [] source = "slurm" -> "slurm"
    [] source \in {"prometheus", "dcgm"} -> "unknown"

(* The domain of an entity follows the source that reported last: once a   *)
(* scheduler, a serving system or dcgm has, nothing of what Prometheus or  *)
(* another scheduler said before is left of it (normalizer.py:96-100 with  *)
(* state_bus.py:112-119).  Nothing is claimed of Prometheus' own reports.  *)
DomainIsReporters ==
  \A e \in Ids :
    Present(e) /\ OnlyLive(e) /\ entities[e].source # "prometheus" =>
      entities[e].fields["scheduler_domain"] = DomainOf(entities[e].source)

(* put_fragments raises only after a file gave a time with a zone or a key *)
(* that clashes, and an entity has a zone only after a file gave one: no   *)
(* live adapter does either, and a record without a time gets one without  *)
(* zone (normalizer.py:85-90).                                             *)
OnlyFilesPoison ==
  /\ returned.outcome = "raised" => \E r \in files : Flawed(r)
  /\ (\E e \in Ids : Present(e) /\ entities[e].aware) => \E r \in files : r.aware

(* docs/adapters/gpu-metrics.md:27: an entity is one GPU of one host,      *)
(* `{hostname}-gpu{index}`; the code names it by the index alone           *)
(* (gpu_metrics.py:80-81).                                                 *)
DevicesApart == \A e \in Ids : Cardinality(devices[e]) <= 1
=============================================================================
