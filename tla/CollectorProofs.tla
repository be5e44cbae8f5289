-------------------------- MODULE CollectorProofs --------------------------
(***************************************************************************)
(* Proofs about the collector: whatever adapters there are and whatever    *)
(* they are answered, the state bus behind them is the state bus, and all  *)
(* that StateBusProofs proves of the one holds of the other; and the bus   *)
(* at rest holds what the watched systems said last.                       *)
(*                                                                         *)
(* The second part goes from records (what each adapter makes of what it   *)
(* is answered) by fragments to Consistent, which relates the fragments    *)
(* that are pending to the entities, the files and the answers; every      *)
(* action of the collector keeps it.                                       *)
(***************************************************************************)
EXTENDS Collector, StateBusProofs, SequenceLemmas

(* Every step of the collector is a step of the bus, or leaves it alone:   *)
(* an adapter reaches the bus by put_fragments alone.                      *)
LEMMA StepsOfTheBus == [CollectorNext]_collectorVars => [Next]_vars
<1> SUFFICES ASSUME [CollectorNext]_collectorVars PROVE [Next]_vars
  OBVIOUS
<1>1. ASSUME NEW a \in AdapterNames, Snapshot(a) PROVE UNCHANGED vars
  BY <1>1 DEF Snapshot
<1>2. ASSUME NEW answer, Answer(answer) \/ BreaksOff(answer) PROVE UNCHANGED vars
  BY <1>2 DEF Answer, BreaksOff
<1>3. CASE Fails \/ RestDown
  BY <1>3 DEF Fails, RestDown
<1>4. CASE Normalize
  BY <1>4 DEF Normalize, Next
<1>5. CASE Put
  <2> DEFINE frag == Head(fragments)
  <2>1. PutFragment(frag)
    BY <1>5 DEF Put
  <2>2. frag \in Fragments
    BY <2>1 DEF PutFragment, PutCreate, PutCreateFails, PutSkip, PutMerge,
                PutMergeRaises, PutMergeClash, PutCompareRaises, Merge, Takes
  <2> QED
    BY <2>1, <2>2 DEF Next
<1>6. CASE Return \/ Read \/ Time
  BY <1>6 DEF Return, Read, Time, Next
<1>7. CASE UNCHANGED collectorVars
  BY <1>7 DEF collectorVars
<1> QED
  BY <1>1, <1>2, <1>3, <1>4, <1>5, <1>6, <1>7 DEF CollectorNext

(* The collector implements the bus: snapshots, failed queries, malformed  *)
(* items and the normalizer in between make no behaviour of the bus that   *)
(* StateBus does not have (cli.py:98-105 calls it in no other way).        *)
THEOREM BusImplemented == CollectorSpec => Spec
<1>1. CollectorInit => Init
  BY DEF CollectorInit
<1> QED
  BY <1>1, StepsOfTheBus, PTL DEF CollectorSpec, Spec

(* With any adapters, a field of an entity holds what the last of the      *)
(* newest reports that carried it said (state_bus.py:99-123).              *)
THEOREM CollectedNewestWins == CollectorSpec => []NewestWins
BY BusImplemented, NewestWinsHolds, PTL

(* With any adapters, naive and aware times never meet in an entity,       *)
(* although batches stop half-way when they try (state_bus.py:103).        *)
THEOREM CollectedOneZone == CollectorSpec => []OneZone
BY BusImplemented, OneZoneHolds, PTL

(* With any adapters, the bus implements the store its documents describe. *)
THEOREM CollectedStore == CollectorSpec => ImplementsStore
BY BusImplemented, StoreImplemented, PTL

-----------------------------------------------------------------------------
(* Loops over lists *)

(* What a filter keeps is in the list and passes (prometheus.py:60-62).    *)
LEMMA AmongIs ==
  ASSUME NEW s, IsList(s), NEW T
  PROVE  /\ IsList(Raw!Among(s, T))
         /\ \A i \in 1..Len(Raw!Among(s, T)) : Raw!Among(s, T)[i] \in ToSet(s)
<1> DEFINE S == Seq(ToSet(s))
           Body(acc, n) == IF s[n] \in T THEN Append(acc, s[n]) ELSE acc
           Loop(f) == f = [n \in 0..Len(s) |-> IF n = 0 THEN <<>> ELSE Body(f[n - 1], n)]
           Step == [n \in 1..Len(s) |-> [acc \in S |-> Body(acc, n)]]
           h == CHOOSE f : Loop(f)
<1>1. Raw!Among(s, T) = h[Len(s)]
  BY DEF Raw!Among
<1>2. Len(s) \in Nat /\ \A n \in 1..Len(s) : s[n] \in ToSet(s)
  BY ListIs
<1>3. <<>> \in S /\ \A n \in 1..Len(s), acc \in S : Body(acc, n) \in S
  BY <1>2
<1> HIDE DEF S, Body
<1>4. Step \in [1..Len(s) -> [S -> S]]
  BY <1>3
<1>5. PICK f : Runs(f, Len(s), S, <<>>, Step)
  <2> HIDE DEF Step, h
  <2> QED
    BY <1>2, <1>3, <1>4, LoopRuns
<1>6. \A n \in 1..Len(s) : f[n] = Body(f[n - 1], n)
  <2> SUFFICES ASSUME NEW n \in 1..Len(s) PROVE f[n] = Body(f[n - 1], n)
    OBVIOUS
  <2>1. f[n - 1] \in S
    BY <1>2, <1>5 DEF Runs
  <2> QED
    BY <1>5, <2>1 DEF Runs
<1>7. Loop(f)
  <2>1. \A n \in 0..Len(s) : f[n] = IF n = 0 THEN <<>> ELSE Body(f[n - 1], n)
    BY <1>2, <1>5, <1>6 DEF Runs
  <2> QED
    BY <1>5, <2>1 DEF Runs
<1>8. Loop(h)
  BY <1>7
<1> HIDE DEF h
<1>9. h[0] = <<>> /\ \A n \in 1..Len(s) : h[n] = Body(h[n - 1], n)
  BY <1>2, <1>8
<1>10. h[Len(s)] \in S
  <2> DEFINE G == {n \in 0..Len(s) : h[n] \in S}
  <2>1. 0 \in G
    BY <1>2, <1>3, <1>9
  <2>2. ASSUME NEW n \in 1..Len(s), n - 1 \in G PROVE n \in G
    BY <1>2, <1>3, <1>9, <2>2
  <2> HIDE DEF G
  <2>3. 0..Len(s) \subseteq G
    BY <1>2, <2>1, <2>2, BoundedInduction
  <2>4. Len(s) \in 0..Len(s)
    BY <1>2
  <2> QED
    BY <2>3, <2>4 DEF G
<1> QED
  BY <1>1, <1>10, ListOf DEF S

(* The loop of normalize, run to its end (normalizer.py:49-65)             *)
LEMMA NormalizeRuns ==
  ASSUME NEW raw, IsList(raw)
  PROVE  \E h :
           /\ h[0] = <<>>
           /\ \A n \in 1..Len(raw) :
                h[n] = IF Norm!Accepts(raw[n]) THEN Append(h[n - 1], raw[n]) ELSE h[n - 1]
           /\ Norm!normalize(raw) = h[Len(raw)]
<1> DEFINE S == Seq(ToSet(raw))
           Body(acc, n) == IF Norm!Accepts(raw[n]) THEN Append(acc, raw[n]) ELSE acc
           Loop(f) == f = [n \in 0..Len(raw) |-> IF n = 0 THEN <<>> ELSE Body(f[n - 1], n)]
           Step == [n \in 1..Len(raw) |-> [acc \in S |-> Body(acc, n)]]
           h == CHOOSE f : Loop(f)
<1>1. Norm!normalize(raw) = h[Len(raw)]
  BY DEF Norm!normalize
<1>2. Len(raw) \in Nat /\ \A n \in 1..Len(raw) : raw[n] \in ToSet(raw)
  BY ListIs
<1>3. <<>> \in S /\ \A n \in 1..Len(raw), acc \in S : Body(acc, n) \in S
  BY <1>2
<1> HIDE DEF S, Body
<1>4. Step \in [1..Len(raw) -> [S -> S]]
  BY <1>3
<1>5. PICK f : Runs(f, Len(raw), S, <<>>, Step)
  <2> HIDE DEF Step, h
  <2> QED
    BY <1>2, <1>3, <1>4, LoopRuns
<1>6. \A n \in 1..Len(raw) : f[n] = Body(f[n - 1], n)
  <2> SUFFICES ASSUME NEW n \in 1..Len(raw) PROVE f[n] = Body(f[n - 1], n)
    OBVIOUS
  <2>1. f[n - 1] \in S
    BY <1>2, <1>5 DEF Runs
  <2> QED
    BY <1>5, <2>1 DEF Runs
<1>7. Loop(f)
  <2>1. \A n \in 0..Len(raw) : f[n] = IF n = 0 THEN <<>> ELSE Body(f[n - 1], n)
    BY <1>2, <1>5, <1>6 DEF Runs
  <2> QED
    BY <1>5, <2>1 DEF Runs
<1>8. Loop(h)
  BY <1>7
<1> HIDE DEF h
<1>9. h[0] = <<>> /\ \A n \in 1..Len(raw) : h[n] = Body(h[n - 1], n)
  BY <1>2, <1>8
<1> QED
  BY <1>1, <1>9 DEF Body

(* The normalizer adds no record, and drops none that it accepts: a list   *)
(* of such records comes out as it went in (normalizer.py:57-63).          *)
LEMMA NormalizeIs ==
  ASSUME NEW raw, IsList(raw)
  PROVE  /\ IsList(Norm!normalize(raw))
         /\ \A i \in 1..Len(Norm!normalize(raw)) : Norm!normalize(raw)[i] \in ToSet(raw)
         /\ (\A i \in 1..Len(raw) : Norm!Accepts(raw[i])) => Norm!normalize(raw) = raw
<1>1. PICK h :
        /\ h[0] = <<>>
        /\ \A n \in 1..Len(raw) :
             h[n] = IF Norm!Accepts(raw[n]) THEN Append(h[n - 1], raw[n]) ELSE h[n - 1]
        /\ Norm!normalize(raw) = h[Len(raw)]
  BY NormalizeRuns
<1>2. Len(raw) \in Nat /\ \A n \in 1..Len(raw) : raw[n] \in ToSet(raw)
  BY ListIs
<1>3. h[Len(raw)] \in Seq(ToSet(raw))
  <2> DEFINE S == Seq(ToSet(raw))
             G == {n \in 0..Len(raw) : h[n] \in S}
  <2>1. <<>> \in S /\ \A acc \in S, x \in ToSet(raw) : Append(acc, x) \in S
    OBVIOUS
  <2> HIDE DEF S
  <2>2. 0 \in G
    BY <1>1, <1>2, <2>1
  <2>3. ASSUME NEW n \in 1..Len(raw), n - 1 \in G PROVE n \in G
    BY <1>1, <1>2, <2>1, <2>3
  <2> HIDE DEF G
  <2>4. 0..Len(raw) \subseteq G
    BY <1>2, <2>2, <2>3, BoundedInduction
  <2>5. Len(raw) \in 0..Len(raw)
    BY <1>2
  <2> QED
    BY <2>4, <2>5 DEF G, S
<1>4. ASSUME \A i \in 1..Len(raw) : Norm!Accepts(raw[i]) PROVE h[Len(raw)] = raw
  <2> DEFINE G == {n \in 0..Len(raw) : h[n] = [i \in 1..n |-> raw[i]]}
  <2>1. 0 \in G
    BY <1>1, <1>2
  <2>2. ASSUME NEW n \in 1..Len(raw), n - 1 \in G PROVE n \in G
    <3>1. h[n - 1] = [i \in 1..(n - 1) |-> raw[i]] /\ n \in 0..Len(raw) /\ n - 1 \in Nat
      BY <1>2, <2>2
    <3>2. h[n] = Append(h[n - 1], raw[n])
      BY <1>1, <1>4
    <3> DEFINE T == ToSet(raw)
               p == h[n - 1]
    <3>3. p \in Seq(T) /\ Len(p) = n - 1
      <4>1. \A i \in 1..(n - 1) : raw[i] \in T
        BY <1>2
      <4>2. p \in [1..(n - 1) -> T]
        BY <3>1, <4>1
      <4> HIDE DEF p, T
      <4> QED
        BY <3>1, <4>2
    <3>4. /\ \A i \in 1..(n - 1) : p[i] = raw[i]
          /\ raw[n] \in T
      BY <1>2, <3>1
    <3> HIDE DEF p, T
    <3>5. Append(p, raw[n]) = [i \in 1..n |-> raw[i]]
      <4>1. /\ Append(p, raw[n]) \in Seq(T) /\ Len(Append(p, raw[n])) = n
            /\ \A i \in 1..(n - 1) : Append(p, raw[n])[i] = p[i]
            /\ Append(p, raw[n])[n] = raw[n]
        BY <3>1, <3>3, <3>4
      <4>2. \A i \in 1..n : Append(p, raw[n])[i] = raw[i]
        <5>1. \A i \in 1..n : i = n \/ i \in 1..(n - 1)
          BY <3>1
        <5> QED
          BY <3>4, <4>1, <5>1
      <4>3. Append(p, raw[n]) = [i \in 1..n |-> Append(p, raw[n])[i]]
        BY <4>1
      <4> QED
        BY <4>2, <4>3
    <3> QED
      BY <3>1, <3>2, <3>5 DEF p
  <2> HIDE DEF G
  <2>3. 0..Len(raw) \subseteq G
    BY <1>2, <2>1, <2>2, BoundedInduction
  <2>4. Len(raw) \in 0..Len(raw)
    BY <1>2
  <2>5. h[Len(raw)] = [i \in 1..Len(raw) |-> raw[i]]
    BY <2>3, <2>4 DEF G
  <2> QED
    BY <2>5, ListIs
<1> QED
  BY <1>1, <1>3, <1>4, ListOf

-----------------------------------------------------------------------------
(* What the live adapters report *)

ServiceIds == {"svc-" \o d : d \in DeploymentIds}

(* The fields that schedulers report and the properties are about *)
Told == {"health_state", "service_state", "available_replicas"}

(* A record of a live adapter, which the normalizer accepts *)
LiveRecord(r) ==
  /\ r.aware = FALSE /\ r.clash = FALSE /\ r.strings = TRUE
  /\ r.source_type \in LiveSources /\ r.entity_type \in Norm!EntityType
  /\ r.entity_id \in OtherIds \cup DeploymentIds \cup ServiceIds
  /\ Norm!scheduler_domain(r) = DomainOf(r.source_type)

(* One of a job or a metric *)
Silent(r) == r.entity_id \in OtherIds /\ DOMAIN r.fields \cap Told = {}

(* One of a node *)
TellsHealth(r, node, usable) ==
  /\ r.entity_id = node /\ r.entity_id \in OtherIds
  /\ r.fields = [health_state |-> Raw!Health(usable)]

(* Two of a deployment, that agree *)
TellsDeployment(r, available) ==
  /\ r.entity_id \in DeploymentIds /\ r.entity_type = "deployment"
  /\ \E ok : r.fields = [available_replicas |-> available, health_state |-> Raw!Health(ok)]

TellsService(r, d, available) ==
  /\ r.entity_id = "svc-" \o d /\ r.entity_type = "service"
  /\ r.fields = [available_replicas |-> available,
                 service_state |-> IF available = "0" THEN "degraded" ELSE "active"]

Pair(r, t) ==
  \E available : /\ available \notin Bad \cup {NoValue}
                 /\ TellsDeployment(r, available)
                 /\ TellsService(t, r.entity_id, available)

(* Records, all of live adapters, made at this time *)
AllLive(s, at) == \A i \in 1..Len(s) : LiveRecord(s[i]) /\ s[i].observed_at = at

AllSilent(s) == \A i \in 1..Len(s) : Silent(s[i])

(* The answer's nodes, one by one *)
AllNodes(s, a, mode, answer) ==
  /\ Len(s) = Len(answer)
  /\ \A i \in 1..Len(s) :
       TellsHealth(s[i], answer[i].name,
                   IF a = "kubernetes" THEN answer[i].ready
                   ELSE Raw!Healthy(mode, answer[i]))

Pairs(s) ==
  \A i \in 1..Len(s) : \/ i < Len(s) /\ Pair(s[i], s[i + 1])
                       \/ i > 1 /\ Pair(s[i - 1], s[i])

(* Part of an answer that an adapter may get *)
Heard(a, q, answer) == IsList(answer) /\ ToSet(answer) \subseteq Items(a, q)

(* An item is reported under a name that NamesAssumption knows.            *)
LEMMA ItemIs ==
  ASSUME NEW a \in AdapterNames, NEW q \in ToSet(Queries(a)), NEW item \in Items(a, q)
  PROVE  /\ q.kind \in {"jobs", "nodes", "metric"} => EntityIdOf(a, q, item) \in OtherIds
         /\ q.kind = "deployments" /\ a = "kubernetes" => EntityIdOf(a, q, item) \in DeploymentIds
BY DEF OtherIds, DeploymentIds, Reported

(* The queries of each adapter                                             *)
LEMMA QueriesAre ==
  ASSUME NEW a \in AdapterNames
  PROVE  /\ IsList(Queries(a))
         /\ \A q \in ToSet(Queries(a)) :
              /\ a = "kubernetes" => q.kind \in {"deployments", "nodes"}
              /\ a = "slurm" => q.kind \in {"jobs", "nodes"}
              /\ a = "replay" => q.kind = "file"
              /\ a \in MetricAdapters => q.kind = "metric" /\ q.of \in ToSet(Metrics[a])
<1>1. CASE a = "kubernetes"
  <2> DEFINE s == [i \in DOMAIN namespaces |-> Query("deployments", namespaces[i])]
             t == [i \in DOMAIN namespaces |-> Query("nodes", NoValue)]
             n == Len(namespaces)
             Q == Queries(a)
  <2>1. Q = Raw!Alternate(s, t)
    BY <1>1 DEF Queries
  <2>2. n \in Nat /\ DOMAIN namespaces = 1..n /\ Len(s) = n
    <3>1. IsList(namespaces)
      BY AnswersAssumption DEF IsList
    <3>2. n \in Nat /\ DOMAIN namespaces = 1..n
      BY <3>1, ListIs
    <3>3. s = [i \in 1..n |-> s[i]]
      BY <3>2
    <3> QED
      BY <3>2, <3>3, IsListIf
  <2>3. /\ \A i \in 1..n : s[i] = Query("deployments", namespaces[i])
        /\ \A i \in 1..n : t[i] = Query("nodes", NoValue)
    BY <2>2
  <2> HIDE DEF s, t, n, Q
  <2>4. Q = [i \in 1..(2 * n) |-> IF i % 2 = 1 THEN s[(i + 1) \div 2] ELSE t[i \div 2]]
    BY <2>1, <2>2 DEF Raw!Alternate
  <2>5. ASSUME NEW i \in 1..(2 * n) PROVE Q[i].kind \in {"deployments", "nodes"}
    <3>1. i % 2 = 1 => (i + 1) \div 2 \in 1..n
      BY <2>2
    <3>2. i % 2 # 1 => i \div 2 \in 1..n
      BY <2>2
    <3>3. Q[i] = IF i % 2 = 1 THEN s[(i + 1) \div 2] ELSE t[i \div 2]
      BY <2>4
    <3>4. (\E j \in 1..n : Q[i] = s[j]) \/ (\E j \in 1..n : Q[i] = t[j])
      BY <3>1, <3>2, <3>3
    <3>5. \A k, x : Query(k, x).kind = k
      BY DEF Query
    <3> HIDE DEF Query
    <3>6. CASE \E j \in 1..n : Q[i] = s[j]
      BY <2>3, <3>5, <3>6
    <3>7. CASE \E j \in 1..n : Q[i] = t[j]
      BY <2>3, <3>5, <3>7
    <3> QED
      BY <3>4, <3>6, <3>7
  <2>6. DOMAIN Q = 1..(2 * n) /\ 2 * n \in Nat /\ Q = [i \in 1..(2 * n) |-> Q[i]]
    BY <2>2, <2>4
  <2>7. IsList(Q)
    BY <2>6, IsListIf
  <2> QED
    BY <1>1, <2>5, <2>6, <2>7 DEF Q, ToSet, MetricAdapters
<1>2. CASE a = "slurm"
  <2>1. Queries(a) = <<Query("jobs", NoValue), Query("nodes", NoValue)>>
    BY <1>2 DEF Queries
  <2>2. Queries(a) \in Seq({Query("jobs", NoValue), Query("nodes", NoValue)})
    BY <2>1
  <2>3. /\ IsList(Queries(a))
        /\ ToSet(Queries(a)) \subseteq {Query("jobs", NoValue), Query("nodes", NoValue)}
    BY <2>2, ListOf
  <2> QED
    BY <1>2, <2>3 DEF Query, MetricAdapters
<1>3. CASE a = "replay"
  <2>1. Queries(a) = <<Query("file", NoValue)>>
    BY <1>3 DEF Queries
  <2>2. Queries(a) \in Seq({Query("file", NoValue)})
    BY <2>1
  <2>3. IsList(Queries(a)) /\ ToSet(Queries(a)) \subseteq {Query("file", NoValue)}
    BY <2>2, ListOf
  <2> QED
    BY <1>3, <2>3 DEF Query, MetricAdapters
<1>4. CASE a \in MetricAdapters
  <2>1. Queries(a) = [i \in DOMAIN Metrics[a] |-> Query("metric", Metrics[a][i])]
    BY <1>4 DEF Queries, MetricAdapters
  <2>2. IsList(Metrics[a])
    BY <1>4, AnswersAssumption DEF IsList
  <2>3. Len(Metrics[a]) \in Nat /\ DOMAIN Metrics[a] = 1..Len(Metrics[a])
    BY <2>2, ListIs
  <2>4. Queries(a) = [i \in 1..Len(Metrics[a]) |-> Queries(a)[i]]
    BY <2>1, <2>3
  <2>5. IsList(Queries(a))
    BY <2>3, <2>4, IsListIf
  <2>6. ToSet(Queries(a)) = {Query("metric", m) : m \in ToSet(Metrics[a])}
    BY <2>1 DEF ToSet
  <2> QED
    BY <1>4, <2>5, <2>6 DEF Query, MetricAdapters
<1> QED
  BY <1>1, <1>2, <1>3, <1>4, AnswersAssumption

(* The domain of a record, and that it is accepted                         *)
LEMMA RecordIs ==
  ASSUME NEW source \in LiveSources, NEW type \in Norm!EntityType,
         NEW id \in OtherIds \cup DeploymentIds \cup ServiceIds, NEW fields, NEW at,
         NEW domain, \/ domain = NoValue /\ source \in {"prometheus", "dcgm"}
                     \/ /\ domain = DomainOf(source)
                        /\ source \in {"kubernetes", "slurm", "generic_serving"}
  PROVE  LET r == Raw!Record(source, type, id, domain, fields, at)
         IN  LiveRecord(r) /\ r.fields = fields /\ r.entity_id = id /\ r.observed_at = at
<1> DEFINE r == Raw!Record(source, type, id, domain, fields, at)
<1>1. /\ r.aware = FALSE /\ r.clash = FALSE /\ r.strings = TRUE /\ r.source_type = source /\ r.entity_type = type
      /\ r.entity_id = id /\ r.fields = fields /\ r.scheduler_domain = domain /\ r.observed_at = at
  BY DEF Raw!Record
<1> HIDE DEF r
<1>2. NoValue \notin {"kubernetes", "slurm", "unknown"}
  BY WordsAssumption
<1>3. Norm!scheduler_domain(r) = DomainOf(source)
  <2>1. CASE domain = NoValue /\ source \in {"prometheus", "dcgm"}
    BY <1>1, <2>1 DEF Norm!scheduler_domain, Norm!SOURCE_DOMAIN_MAP, DomainOf
  <2>2. CASE domain = DomainOf(source) /\ source \in {"kubernetes", "slurm", "generic_serving"}
    <3>1. domain # NoValue
      BY <1>2, <2>2 DEF DomainOf
    <3> QED
      BY <1>1, <2>2, <3>1 DEF Norm!scheduler_domain
  <2> QED
    BY <2>1, <2>2
<1> QED
  BY <1>1, <1>3 DEF LiveRecord, r

(* The records of a metric, those that are filtered out aside              *)
(* (prometheus.py:87-136)                                                  *)
LEMMA MetricRecordsAre ==
  ASSUME "prometheus" \in AdapterNames, NEW q \in ToSet(Queries("prometheus")),
         NEW answer, Heard("prometheus", q, answer), NEW at
  PROVE  LET new == Raw!MetricRecords(q.of, answer, at)
         IN  IsList(new) /\ AllLive(new, at) /\ AllSilent(new)
<1> DEFINE kept == Raw!Among(answer, {s \in Raw!ToSet(answer) :
                                       s.value # Malformed /\ ~Raw!Filtered(s.labels)})
           new == Raw!MetricRecords(q.of, answer, at)
           type(i) == Raw!EntityTypeOf(kept[i])
           id(i) == Raw!EntityId(kept[i].labels)
           fields(i) == [f \in {q.of} |-> ToString(Raw!Unconverted(q.of, kept[i].value))]
<1>1. IsList(kept) /\ \A i \in 1..Len(kept) : kept[i] \in ToSet(answer)
  <2>1. \E T : kept = Raw!Among(answer, T)
    OBVIOUS
  <2>2. IsList(answer)
    BY DEF Heard
  <2> HIDE DEF kept
  <2> QED
    BY <2>1, <2>2, AmongIs
<1>2. new = [i \in DOMAIN kept |->
               Raw!Record("prometheus", type(i), id(i), NoValue, fields(i), at)]
  BY DEF Raw!MetricRecords
<1>3. Len(kept) \in Nat /\ DOMAIN kept = 1..Len(kept)
  BY <1>1, ListIs
<1>4. q.kind = "metric" /\ q.of \in ToSet(Metrics["prometheus"])
  BY QueriesAre DEF MetricAdapters
<1>5. ASSUME NEW i \in 1..Len(kept)
      PROVE  type(i) \in Norm!EntityType /\ id(i) \in OtherIds
  <2>1. kept[i] \in Items("prometheus", q)
    BY <1>1 DEF Heard
  <2>2. EntityIdOf("prometheus", q, kept[i]) \in OtherIds
    BY <1>4, <2>1, ItemIs
  <2> HIDE DEF kept
  <2>3. type(i) \in {"gpu", "node", "job", "service"}
    BY DEF Raw!EntityTypeOf
  <2> QED
    BY <1>4, <2>2, <2>3 DEF EntityIdOf, Norm!EntityType
<1>6. \A i \in 1..Len(kept) : DOMAIN fields(i) \cap Told = {}
  <2>1. q.of \notin Told
    BY <1>4, AnswersAssumption DEF Told, MetricAdapters
  <2> QED
    BY <2>1
<1> HIDE DEF kept, new, type, id, fields
<1>7. ASSUME NEW i \in 1..Len(kept)
      PROVE  LiveRecord(new[i]) /\ Silent(new[i]) /\ new[i].observed_at = at
  <2>1. new[i] = Raw!Record("prometheus", type(i), id(i), NoValue, fields(i), at)
    BY <1>2, <1>3
  <2>2. /\ LiveRecord(new[i]) /\ new[i].fields = fields(i) /\ new[i].entity_id = id(i)
        /\ new[i].observed_at = at
    BY <1>5, <2>1, RecordIs DEF LiveSources
  <2> QED
    BY <1>5, <1>6, <2>2 DEF Silent
<1>8. new = [i \in 1..Len(kept) |-> new[i]]
  BY <1>2, <1>3
<1>9. IsList(new) /\ Len(new) = Len(kept)
  BY <1>3, <1>8, IsListIf
<1> QED
  BY <1>7, <1>9 DEF new, AllLive, AllSilent

(* The records of a metric of GPUs (gpu_metrics.py:58-110)                 *)
LEMMA GpuRecordsAre ==
  ASSUME "gpu_metrics" \in AdapterNames, NEW q \in ToSet(Queries("gpu_metrics")),
         NEW answer, Heard("gpu_metrics", q, answer), NEW at
  PROVE  LET new == Raw!GpuRecords(q.of, answer, at)
         IN  IsList(new) /\ AllLive(new, at) /\ AllSilent(new)
<1> DEFINE kept == Raw!Among(answer, {s \in Raw!ToSet(answer) : s.value # Malformed})
           new == Raw!GpuRecords(q.of, answer, at)
           id(i) == Raw!GpuId(kept[i])
           fields(i) == [f \in {q.of} |-> ToString(IF q.of = "gpu_utilization"
                                                   THEN Raw!Utilization(kept[i].value)
                                                   ELSE kept[i].value)]
<1>1. IsList(kept) /\ \A i \in 1..Len(kept) : kept[i] \in ToSet(answer)
  <2>1. \E T : kept = Raw!Among(answer, T)
    OBVIOUS
  <2>2. IsList(answer)
    BY DEF Heard
  <2> HIDE DEF kept
  <2> QED
    BY <2>1, <2>2, AmongIs
<1>2. new = [i \in DOMAIN kept |->
               Raw!Record("dcgm", "gpu", id(i), NoValue, fields(i), at)]
  BY DEF Raw!GpuRecords
<1>3. Len(kept) \in Nat /\ DOMAIN kept = 1..Len(kept)
  BY <1>1, ListIs
<1>4. q.kind = "metric" /\ q.of \in ToSet(Metrics["gpu_metrics"])
  BY QueriesAre DEF MetricAdapters
<1>5. ASSUME NEW i \in 1..Len(kept) PROVE id(i) \in OtherIds
  <2>1. kept[i] \in Items("gpu_metrics", q)
    BY <1>1 DEF Heard
  <2>2. EntityIdOf("gpu_metrics", q, kept[i]) \in OtherIds
    BY <1>4, <2>1, ItemIs
  <2> QED
    BY <1>4, <2>2 DEF EntityIdOf
<1>6. \A i \in 1..Len(kept) : DOMAIN fields(i) \cap Told = {}
  <2>1. q.of \notin Told
    BY <1>4, AnswersAssumption DEF Told, MetricAdapters
  <2> QED
    BY <2>1
<1> HIDE DEF kept, new, id, fields
<1>7. ASSUME NEW i \in 1..Len(kept)
      PROVE  LiveRecord(new[i]) /\ Silent(new[i]) /\ new[i].observed_at = at
  <2>1. new[i] = Raw!Record("dcgm", "gpu", id(i), NoValue, fields(i), at)
    BY <1>2, <1>3
  <2>2. /\ LiveRecord(new[i]) /\ new[i].fields = fields(i) /\ new[i].entity_id = id(i)
        /\ new[i].observed_at = at
    BY <1>5, <2>1, RecordIs DEF LiveSources, Norm!EntityType
  <2> QED
    BY <1>5, <1>6, <2>2 DEF Silent
<1>8. new = [i \in 1..Len(kept) |-> new[i]]
  BY <1>2, <1>3
<1>9. IsList(new) /\ Len(new) = Len(kept)
  BY <1>3, <1>8, IsListIf
<1> QED
  BY <1>7, <1>9 DEF new, AllLive, AllSilent

(* The records of the jobs (slurm.py:67-83, 115-130)                       *)
LEMMA JobRecordsAre ==
  ASSUME "slurm" \in AdapterNames, NEW q \in ToSet(Queries("slurm")), q.kind = "jobs",
         NEW answer, Heard("slurm", q, answer), NEW at
  PROVE  LET new == Raw!JobRecords(answer, at)
         IN  IsList(new) /\ AllLive(new, at) /\ AllSilent(new)
<1> DEFINE new == Raw!JobRecords(answer, at)
           id(i) == "slurm-job-" \o answer[i].name
           fields(i) == [job_state |-> Raw!_map_slurm_state(answer[i].state)]
<1>1. new = [i \in DOMAIN answer |->
               Raw!Record("slurm", "job", id(i), "slurm", fields(i), at)]
  BY DEF Raw!JobRecords
<1>2. /\ Len(answer) \in Nat /\ DOMAIN answer = 1..Len(answer)
      /\ \A i \in 1..Len(answer) : answer[i] \in Items("slurm", q)
  BY ListIs DEF Heard
<1>3. ASSUME NEW i \in 1..Len(answer) PROVE id(i) \in OtherIds
  <2>1. EntityIdOf("slurm", q, answer[i]) \in OtherIds
    BY <1>2, ItemIs
  <2> QED
    BY <2>1 DEF EntityIdOf
<1>4. \A i \in 1..Len(answer) : DOMAIN fields(i) \cap Told = {}
  BY DEF Told
<1> HIDE DEF new, id, fields
<1>5. ASSUME NEW i \in 1..Len(answer)
      PROVE  LiveRecord(new[i]) /\ Silent(new[i]) /\ new[i].observed_at = at
  <2>1. new[i] = Raw!Record("slurm", "job", id(i), "slurm", fields(i), at)
    BY <1>1, <1>2
  <2>2. /\ LiveRecord(new[i]) /\ new[i].fields = fields(i) /\ new[i].entity_id = id(i)
        /\ new[i].observed_at = at
    BY <1>3, <2>1, RecordIs DEF LiveSources, Norm!EntityType, DomainOf
  <2> QED
    BY <1>3, <1>4, <2>2 DEF Silent
<1>6. new = [i \in 1..Len(answer) |-> new[i]]
  BY <1>1, <1>2
<1>7. IsList(new) /\ Len(new) = Len(answer)
  BY <1>2, <1>6, IsListIf
<1> QED
  BY <1>5, <1>7 DEF new, AllLive, AllSilent

(* The records of the nodes, one for each, in the order of the answer      *)
(* (kubernetes.py:113-135, slurm.py:85-109, 132-148)                       *)
LEMMA NodeRecordsAre ==
  ASSUME NEW a \in AdapterNames, a \in {"kubernetes", "slurm"},
         NEW q \in ToSet(Queries(a)), q.kind = "nodes",
         NEW answer, Heard(a, q, answer), NEW at, NEW mode, NEW new,
         \/ a = "kubernetes" /\ new = Raw!_get_nodes(answer, at)
         \/ a = "slurm" /\ new = Raw!NodeRecords(mode, answer, at)
  PROVE  IsList(new) /\ AllLive(new, at) /\ AllNodes(new, a, mode, answer)
<1> DEFINE usable(i) == IF a = "kubernetes" THEN answer[i].ready
                        ELSE Raw!Healthy(mode, answer[i])
           fields(i) == [health_state |-> Raw!Health(usable(i))]
<1>1. new = [i \in DOMAIN answer |->
               Raw!Record(a, "node", answer[i].name, a, fields(i), at)]
  BY DEF Raw!_get_nodes, Raw!NodeRecords
<1>2. /\ Len(answer) \in Nat /\ DOMAIN answer = 1..Len(answer)
      /\ \A i \in 1..Len(answer) : answer[i] \in Items(a, q)
  BY ListIs DEF Heard
<1>3. ASSUME NEW i \in 1..Len(answer) PROVE answer[i].name \in OtherIds
  <2>1. EntityIdOf(a, q, answer[i]) \in OtherIds
    BY <1>2, ItemIs
  <2> QED
    BY <2>1 DEF EntityIdOf
<1> HIDE DEF usable
<1>4. ASSUME NEW i \in 1..Len(answer)
      PROVE  /\ LiveRecord(new[i]) /\ TellsHealth(new[i], answer[i].name, usable(i))
             /\ new[i].observed_at = at
  <2>1. new[i] = Raw!Record(a, "node", answer[i].name, a, fields(i), at)
    BY <1>1, <1>2
  <2>2. /\ LiveRecord(new[i]) /\ new[i].fields = fields(i) /\ new[i].entity_id = answer[i].name
        /\ new[i].observed_at = at
    <3> HIDE DEF fields
    <3>1. a \in LiveSources /\ "node" \in Norm!EntityType /\ a = DomainOf(a)
      BY DEF LiveSources, Norm!EntityType, DomainOf
    <3> QED
      BY <1>3, <2>1, <3>1, RecordIs
  <2> QED
    BY <1>3, <2>2 DEF TellsHealth
<1>5. new = [i \in 1..Len(answer) |-> new[i]]
  BY <1>1, <1>2
<1>6. IsList(new) /\ Len(new) = Len(answer)
  BY <1>2, <1>5, IsListIf
<1> QED
  BY <1>4, <1>6 DEF usable, AllLive, AllNodes

(* The records of the deployments, two for each (kubernetes.py:70-107)     *)
LEMMA DeploymentRecordsAre ==
  ASSUME "kubernetes" \in AdapterNames, NEW q \in ToSet(Queries("kubernetes")),
         q.kind = "deployments", NEW answer, Heard("kubernetes", q, answer), NEW at
  PROVE  LET new == Raw!_get_deployments(q.of, answer, at)
         IN  IsList(new) /\ AllLive(new, at) /\ Pairs(new)
<1> DEFINE new == Raw!_get_deployments(q.of, answer, at)
           n == Len(answer)
           s == [i \in DOMAIN answer |-> Raw!DeploymentRecord(q.of, answer[i], at)]
           t == [i \in DOMAIN answer |-> Raw!ServiceRecord(q.of, answer[i], at)]
           text(i) == ToString(answer[i].available)
           id(i) == Raw!DeploymentId(q.of, answer[i])
<1>1. /\ n \in Nat /\ DOMAIN answer = 1..n
      /\ \A i \in 1..n : answer[i] \in Items("kubernetes", q)
  BY ListIs DEF Heard
<1>2. new = [i \in 1..(2 * n) |-> IF i % 2 = 1 THEN s[(i + 1) \div 2] ELSE t[i \div 2]]
  <2>1. s = [i \in 1..n |-> s[i]]
    BY <1>1
  <2>2. Len(s) = n
    BY <1>1, <2>1, IsListIf
  <2>3. new = Raw!Alternate(s, t)
    BY DEF Raw!_get_deployments
  <2> HIDE DEF new, s, t, n
  <2> QED
    BY <2>2, <2>3 DEF Raw!Alternate
<1>3. ASSUME NEW i \in 1..n
      PROVE  /\ id(i) \in DeploymentIds /\ answer[i].available \in Nat
             /\ text(i) \notin Bad \cup {NoValue}
             /\ text(i) = "0" <=> answer[i].available = 0
  <2>1. answer[i] \in Items("kubernetes", q)
    BY <1>1
  <2>2. id(i) \in DeploymentIds
    BY <2>1, ItemIs DEF EntityIdOf
  <2>3. PICK whole \in Answers("kubernetes", q) : answer[i] \in ToSet(whole)
    BY <2>1 DEF Items
  <2>4. \A j \in DOMAIN whole : whole[j].available \in Nat
    BY AnswersAssumption
  <2>5. answer[i].available \in Nat
    BY <2>3, <2>4 DEF ToSet
  <2> QED
    BY <2>1, <2>2, <2>5, TextAssumption
<1>4. ASSUME NEW i \in 1..n
      PROVE  /\ LiveRecord(s[i]) /\ LiveRecord(t[i])
             /\ s[i].observed_at = at /\ t[i].observed_at = at
             /\ Pair(s[i], t[i])
  <2> DEFINE sf == [available_replicas |-> text(i),
                    health_state |-> Raw!Health(answer[i].available >= answer[i].desired)]
             tf == [available_replicas |-> text(i),
                    service_state |-> IF answer[i].available > 0 THEN "active" ELSE "degraded"]
             sid == "svc-" \o id(i)
  <2>1. /\ s[i] = Raw!Record("kubernetes", "deployment", id(i), "kubernetes", sf, at)
        /\ t[i] = Raw!Record("kubernetes", "service", sid, "kubernetes", tf, at)
    BY <1>1 DEF Raw!DeploymentRecord, Raw!ServiceRecord
  <2>2. /\ id(i) \in DeploymentIds /\ sid \in ServiceIds
        /\ "kubernetes" \in LiveSources /\ "kubernetes" = DomainOf("kubernetes")
        /\ {"service", "deployment"} \subseteq Norm!EntityType
    BY <1>3 DEF ServiceIds, LiveSources, DomainOf, Norm!EntityType
  <2>3. \E ok : sf = [available_replicas |-> text(i), health_state |-> Raw!Health(ok)]
    OBVIOUS
  <2>4. tf = [available_replicas |-> text(i),
              service_state |-> IF text(i) = "0" THEN "degraded" ELSE "active"]
    BY <1>3
  <2>5. text(i) \notin Bad \cup {NoValue}
    BY <1>3
  <2>6. s[i].entity_type = "deployment" /\ t[i].entity_type = "service"
    BY <2>1 DEF Raw!Record
  <2> HIDE DEF sf, tf, s, t, id, text, sid
  <2>7. LiveRecord(s[i]) /\ s[i].fields = sf /\ s[i].entity_id = id(i) /\ s[i].observed_at = at
    BY <2>1, <2>2, RecordIs
  <2>8. /\ LiveRecord(t[i]) /\ t[i].fields = tf /\ t[i].entity_id = sid
        /\ t[i].observed_at = at
    BY <2>1, <2>2, RecordIs
  <2>9. TellsDeployment(s[i], text(i))
    BY <2>2, <2>3, <2>6, <2>7 DEF TellsDeployment
  <2>10. TellsService(t[i], s[i].entity_id, text(i))
    BY <2>4, <2>6, <2>7, <2>8 DEF TellsService, sid
  <2> QED
    BY <2>5, <2>7, <2>8, <2>9, <2>10 DEF Pair
<1> HIDE DEF new, s, t, n, id, text
<1>5. 2 * n \in Nat /\ new = [i \in 1..(2 * n) |-> new[i]]
  BY <1>1, <1>2
<1>6. IsList(new) /\ Len(new) = 2 * n
  BY <1>5, IsListIf
<1>7. ASSUME NEW i \in 1..(2 * n)
      PROVE  /\ LiveRecord(new[i]) /\ new[i].observed_at = at
             /\ \/ i < 2 * n /\ Pair(new[i], new[i + 1])
                \/ i > 1 /\ Pair(new[i - 1], new[i])
  <2>1. CASE i % 2 = 1
    <3>1. /\ (i + 1) \div 2 \in 1..n /\ (i + 1) % 2 # 1 /\ i + 1 \in 1..(2 * n) /\ i < 2 * n
          /\ i \in Int
      BY <1>1, <2>1
    <3>2. new[i] = s[(i + 1) \div 2] /\ new[i + 1] = t[(i + 1) \div 2]
      BY <1>2, <2>1, <3>1
    <3> QED
      BY <1>4, <3>1, <3>2
  <2>2. CASE i % 2 # 1
    <3>1. /\ i \div 2 \in 1..n /\ (i - 1) % 2 = 1 /\ i - 1 \in 1..(2 * n) /\ i > 1
          /\ i \in Int /\ ((i - 1) + 1) \div 2 = i \div 2
      BY <1>1, <2>2
    <3>2. new[i] = t[i \div 2] /\ new[i - 1] = s[i \div 2]
      BY <1>2, <2>2, <3>1
    <3> QED
      BY <1>4, <3>1, <3>2
  <2> QED
    BY <2>1, <2>2
<1>8. Pairs(new)
  BY <1>6, <1>7 DEF Pairs
<1> QED
  BY <1>6, <1>7, <1>8 DEF new, AllLive

(* A serving runtime's record has a service, and of the metrics some. *)
ServingTexts ==
  {"online_inference"} \cup
    {ToString(item.value) : item \in UNION {Items("generic_serving", q) :
                                              q \in ToSet(Queries("generic_serving"))}}

ServingFields ==
  UNION {[names -> ServingTexts] :
           names \in SUBSET ({"workload_type"} \cup ToSet(Metrics["generic_serving"]))}

Serving == {Raw!ServingRecord(id, fields, NoValue) : id \in OtherIds, fields \in ServingFields}

(* It is silent, and has no time yet (generic_serving.py:57-101).          *)
LEMMA ServingIs ==
  ASSUME "generic_serving" \in AdapterNames, NEW r \in Serving
  PROVE  /\ LiveRecord(r) /\ Silent(r) /\ r.observed_at = NoValue
         /\ r.fields \in ServingFields /\ r = Raw!ServingRecord(r.entity_id, r.fields, NoValue)
<1>1. PICK id \in OtherIds, fields \in ServingFields : r = Raw!ServingRecord(id, fields, NoValue)
  BY DEF Serving
<1>2. LiveRecord(r) /\ r.fields = fields /\ r.entity_id = id /\ r.observed_at = NoValue
  <2>1. /\ "generic_serving" \in LiveSources /\ "service" \in Norm!EntityType
        /\ "kubernetes" = DomainOf("generic_serving")
    BY DEF LiveSources, Norm!EntityType, DomainOf
  <2> QED
    BY <1>1, <2>1, RecordIs DEF Raw!ServingRecord
<1>3. DOMAIN fields \cap Told = {}
  <2>1. DOMAIN fields \subseteq {"workload_type"} \cup ToSet(Metrics["generic_serving"])
    BY DEF ServingFields
  <2>2. ToSet(Metrics["generic_serving"]) \cap Told = {}
    BY AnswersAssumption DEF Told, MetricAdapters
  <2> QED
    BY <2>1, <2>2 DEF Told
<1> QED
  BY <1>1, <1>2, <1>3 DEF Silent

(* One result changes one record or adds one (generic_serving.py:66-88).   *)
LEMMA AddMetricIs ==
  ASSUME "generic_serving" \in AdapterNames, NEW q \in ToSet(Queries("generic_serving")),
         NEW series \in Items("generic_serving", q), NEW records \in Seq(Serving)
  PROVE  Raw!AddMetric(q.of, records, series) \in Seq(Serving)
<1> DEFINE metric == IF series.value = Malformed THEN {} ELSE {q.of}
           With(fields) == [f \in metric \cup DOMAIN fields |->
                              IF f \in metric THEN ToString(series.value) ELSE fields[f]]
           at(i) == records[i].entity_id = series.service
           changed == [i \in DOMAIN records |->
                         IF at(i) THEN Raw!ServingRecord(series.service,
                                                         With(records[i].fields), NoValue)
                         ELSE records[i]]
           new == Raw!ServingRecord(series.service,
                                    With([workload_type |-> "online_inference"]), NoValue)
<1>1. Raw!AddMetric(q.of, records, series)
        = IF \E i \in DOMAIN records : at(i) THEN changed ELSE Append(records, new)
  BY DEF Raw!AddMetric
<1>2. q.kind = "metric" /\ q.of \in ToSet(Metrics["generic_serving"])
  BY QueriesAre DEF MetricAdapters
<1>3. series.service \in OtherIds
  <2>1. EntityIdOf("generic_serving", q, series) \in OtherIds
    BY <1>2, ItemIs
  <2> QED
    BY <1>2, <2>1 DEF EntityIdOf
<1>4. ASSUME NEW fields \in ServingFields PROVE With(fields) \in ServingFields
  <2> DEFINE all == {"workload_type"} \cup ToSet(Metrics["generic_serving"])
  <2>1. PICK names \in SUBSET all : fields \in [names -> ServingTexts]
    BY DEF ServingFields
  <2>2. ToString(series.value) \in ServingTexts
    BY DEF ServingTexts
  <2>3. metric \subseteq {q.of} /\ q.of \in all
    BY <1>2
  <2>4. metric \cup names \in SUBSET all
    BY <2>3
  <2> HIDE DEF metric
  <2>5. With(fields) \in [metric \cup names -> ServingTexts]
    BY <2>1, <2>2
  <2> QED
    BY <2>4, <2>5 DEF ServingFields
<1>5. new \in Serving
  <2>1. [workload_type |-> "online_inference"] \in ServingFields
    <3>1. "online_inference" \in ServingTexts
      BY DEF ServingTexts
    <3>2. [workload_type |-> "online_inference"] \in [{"workload_type"} -> ServingTexts]
      BY <3>1
    <3> QED
      BY <3>2 DEF ServingFields
  <2>2. With([workload_type |-> "online_inference"]) \in ServingFields
    BY <1>4, <2>1
  <2> HIDE DEF With
  <2> QED
    BY <1>3, <2>2 DEF Serving
<1>6. changed \in Seq(Serving)
  <2>1. Len(records) \in Nat /\ DOMAIN records = 1..Len(records)
    OBVIOUS
  <2>2. ASSUME NEW i \in 1..Len(records) PROVE changed[i] \in Serving
    <3>1. records[i].fields \in ServingFields
      BY ServingIs
    <3>2. With(records[i].fields) \in ServingFields
      BY <1>4, <3>1
    <3> DEFINE w == With(records[i].fields)
    <3>3. changed[i] = Raw!ServingRecord(series.service, w, NoValue) \/ changed[i] = records[i]
      BY <2>1
    <3> HIDE DEF changed, w
    <3> QED
      BY <1>3, <3>2, <3>3 DEF Serving, w
  <2>3. DOMAIN changed = 1..Len(records) /\ changed = [i \in 1..Len(records) |-> changed[i]]
    BY <2>1
  <2> HIDE DEF changed
  <2>4. changed \in [1..Len(records) -> Serving]
    BY <2>2, <2>3
  <2> QED
    BY <2>1, <2>4
<1> HIDE DEF changed, new, at
<1>7. Append(records, new) \in Seq(Serving)
  BY <1>5
<1> QED
  BY <1>1, <1>6, <1>7

(* All results of a query (generic_serving.py:62-88)                       *)
LEMMA AddMetricsIs ==
  ASSUME "generic_serving" \in AdapterNames, NEW q \in ToSet(Queries("generic_serving")),
         NEW answer, Heard("generic_serving", q, answer), NEW records \in Seq(Serving)
  PROVE  Raw!AddMetrics(q.of, records, answer) \in Seq(Serving)
<1> DEFINE S == Seq(Serving)
           Body(acc, n) == Raw!AddMetric(q.of, acc, answer[n])
           Loop(f) == f = [n \in 0..Len(answer) |-> IF n = 0 THEN records ELSE Body(f[n - 1], n)]
           Step == [n \in 1..Len(answer) |-> [acc \in S |-> Body(acc, n)]]
           h == CHOOSE f : Loop(f)
<1>1. Raw!AddMetrics(q.of, records, answer) = h[Len(answer)]
  BY DEF Raw!AddMetrics
<1>2. Len(answer) \in Nat /\ \A n \in 1..Len(answer) : answer[n] \in Items("generic_serving", q)
  BY ListIs DEF Heard
<1>3. records \in S /\ \A n \in 1..Len(answer), acc \in S : Body(acc, n) \in S
  BY <1>2, AddMetricIs
<1> HIDE DEF S, Body
<1>4. Step \in [1..Len(answer) -> [S -> S]]
  BY <1>3
<1>5. PICK f : Runs(f, Len(answer), S, records, Step)
  <2> HIDE DEF Step, h
  <2> QED
    BY <1>2, <1>3, <1>4, LoopRuns
<1>6. \A n \in 1..Len(answer) : f[n] = Body(f[n - 1], n)
  <2> SUFFICES ASSUME NEW n \in 1..Len(answer) PROVE f[n] = Body(f[n - 1], n)
    OBVIOUS
  <2>1. f[n - 1] \in S
    BY <1>2, <1>5 DEF Runs
  <2> QED
    BY <1>5, <2>1 DEF Runs
<1>7. Loop(f)
  <2>1. \A n \in 0..Len(answer) : f[n] = IF n = 0 THEN records ELSE Body(f[n - 1], n)
    BY <1>2, <1>5, <1>6 DEF Runs
  <2> QED
    BY <1>5, <2>1 DEF Runs
<1>8. Loop(h)
  BY <1>7
<1> HIDE DEF h
<1>9. h[0] = records /\ \A n \in 1..Len(answer) : h[n] = Body(h[n - 1], n)
  BY <1>2, <1>8
<1> DEFINE G == {n \in 0..Len(answer) : h[n] \in S}
<1>10. 0 \in G
  BY <1>2, <1>3, <1>9
<1>11. ASSUME NEW n \in 1..Len(answer), n - 1 \in G PROVE n \in G
  BY <1>2, <1>3, <1>9, <1>11
<1> HIDE DEF G
<1>12. 0..Len(answer) \subseteq G
  BY <1>2, <1>10, <1>11, BoundedInduction
<1>13. Len(answer) \in 0..Len(answer)
  BY <1>2
<1> QED
  BY <1>1, <1>12, <1>13 DEF G, S

(* What an answer adds to the records of an adapter that keeps a list      *)
Adds(new, a, mode, q, answer, at) ==
  /\ IsList(new) /\ AllLive(new, at)
  /\ \/ q.kind = "nodes" /\ AllNodes(new, a, mode, answer)
     \/ q.kind # "nodes" /\ AllSilent(new)
     \/ q.kind # "nodes" /\ Pairs(new)

(* The records after an answer, or after the part of it that was taken     *)
LEMMA RecordsAre ==
  ASSUME NEW a \in AdapterNames, NEW mode, NEW q \in ToSet(Queries(a)), NEW answer,
         Heard(a, q, answer), NEW before, NEW at
  PROVE  LET after == Records(a, mode, q, answer, before, at)
         IN  /\ a = "generic_serving" /\ before \in Seq(Serving) => after \in Seq(Serving)
             /\ a = "replay" => after = answer
             /\ a \notin {"generic_serving", "replay"} =>
                  \E new : after = before \o new /\ Adds(new, a, mode, q, answer, at)
<1> DEFINE after == Records(a, mode, q, answer, before, at)
<1>1. CASE a = "generic_serving"
  <2>1. after = Raw!AddMetrics(q.of, before, answer)
    BY <1>1 DEF Records
  <2> QED
    BY <1>1, <2>1, AddMetricsIs
<1>2. CASE a = "replay"
  BY <1>2 DEF Records
<1>3. CASE a = "prometheus"
  <2> DEFINE new == Raw!MetricRecords(q.of, answer, at)
  <2>1. q.kind = "metric"
    BY <1>3, QueriesAre DEF MetricAdapters
  <2>2. after = before \o new
    BY <1>3, <2>1 DEF Records
  <2> HIDE DEF new
  <2>3. IsList(new) /\ AllLive(new, at) /\ AllSilent(new)
    BY <1>3, <2>1, MetricRecordsAre DEF new
  <2>4. Adds(new, a, mode, q, answer, at)
    BY <2>1, <2>3 DEF Adds
  <2> QED
    BY <1>3, <2>2, <2>4
<1>4. CASE a = "gpu_metrics"
  <2> DEFINE new == Raw!GpuRecords(q.of, answer, at)
  <2>1. q.kind = "metric"
    BY <1>4, QueriesAre DEF MetricAdapters
  <2>2. after = before \o new
    BY <1>4, <2>1 DEF Records
  <2> HIDE DEF new
  <2>3. IsList(new) /\ AllLive(new, at) /\ AllSilent(new)
    BY <1>4, <2>1, GpuRecordsAre DEF new
  <2>4. Adds(new, a, mode, q, answer, at)
    BY <2>1, <2>3 DEF Adds
  <2> QED
    BY <1>4, <2>2, <2>4
<1>5. CASE a = "slurm" /\ q.kind = "jobs"
  <2> DEFINE new == Raw!JobRecords(answer, at)
  <2>1. q.kind = "jobs"
    BY <1>5
  <2>2. after = before \o new
    BY <1>5, <2>1 DEF Records
  <2> HIDE DEF new
  <2>3. IsList(new) /\ AllLive(new, at) /\ AllSilent(new)
    BY <1>5, <2>1, JobRecordsAre DEF new
  <2>4. Adds(new, a, mode, q, answer, at)
    BY <2>1, <2>3 DEF Adds
  <2> QED
    BY <1>5, <2>2, <2>4
<1>6. CASE a = "slurm" /\ q.kind = "nodes"
  <2> DEFINE new == Raw!NodeRecords(mode, answer, at)
  <2>1. q.kind = "nodes"
    BY <1>6
  <2>2. after = before \o new
    BY <1>6, <2>1 DEF Records
  <2> HIDE DEF new
  <2>3. IsList(new) /\ AllLive(new, at) /\ AllNodes(new, a, mode, answer)
    BY <1>6, <2>1, NodeRecordsAre DEF new
  <2>4. Adds(new, a, mode, q, answer, at)
    BY <2>1, <2>3 DEF Adds
  <2> QED
    BY <1>6, <2>2, <2>4
<1>7. CASE a = "kubernetes" /\ q.kind = "deployments"
  <2> DEFINE new == Raw!_get_deployments(q.of, answer, at)
  <2>1. q.kind = "deployments"
    BY <1>7
  <2>2. after = before \o new
    BY <1>7, <2>1 DEF Records
  <2> HIDE DEF new
  <2>3. IsList(new) /\ AllLive(new, at) /\ Pairs(new)
    BY <1>7, <2>1, DeploymentRecordsAre DEF new
  <2>4. Adds(new, a, mode, q, answer, at)
    BY <2>1, <2>3 DEF Adds
  <2> QED
    BY <1>7, <2>2, <2>4
<1>8. CASE a = "kubernetes" /\ q.kind = "nodes"
  <2> DEFINE new == Raw!_get_nodes(answer, at)
  <2>1. q.kind = "nodes"
    BY <1>8
  <2>2. after = before \o new
    BY <1>8, <2>1 DEF Records
  <2> HIDE DEF new
  <2>3. IsList(new) /\ AllLive(new, at) /\ AllNodes(new, a, mode, answer)
    BY <1>8, <2>1, NodeRecordsAre DEF new
  <2>4. Adds(new, a, mode, q, answer, at)
    BY <2>1, <2>3 DEF Adds
  <2> QED
    BY <1>8, <2>2, <2>4
<1> HIDE DEF after
<1>9. \/ a \in {"generic_serving", "replay", "prometheus", "gpu_metrics"}
      \/ a = "slurm" /\ q.kind \in {"jobs", "nodes"}
      \/ a = "kubernetes" /\ q.kind \in {"deployments", "nodes"}
  BY QueriesAre, AnswersAssumption DEF MetricAdapters
<1> QED
  BY <1>1, <1>2, <1>3, <1>4, <1>5, <1>6, <1>7, <1>8, <1>9 DEF after

-----------------------------------------------------------------------------
(* Fragments *)

(* All the fields validation would let pass *)
Sound(frag) == \A f \in Fields : frag.fields[f] \notin Bad

(* The fragment of a live record *)
LiveFragment(frag) ==
  /\ frag.aware = FALSE /\ frag.clash = FALSE /\ frag.source \in LiveSources
  /\ frag.id \in OtherIds \cup DeploymentIds \cup ServiceIds
  /\ frag.fields["scheduler_domain"] = DomainOf(frag.source)

(* One that says how healthy its entity is *)
Tells(frag) == frag.id \in OtherIds /\ frag.fields["health_state"] # NoValue

(* Two of the same deployment *)
FragmentPair(frag, twin) ==
  LET available == frag.fields["available_replicas"]
  IN  /\ frag.id \in DeploymentIds /\ twin.id = "svc-" \o frag.id
      /\ frag.type = "deployment" /\ twin.type = "service"
      /\ Sound(frag) /\ Sound(twin)
      /\ available # NoValue
      /\ twin.fields["available_replicas"] = available
      /\ twin.fields["service_state"] = IF available = "0" THEN "degraded" ELSE "active"

(* The fields that WordsAssumption names are there.                        *)
LEMMA FieldsAre ==
  /\ {"scheduler_domain", "health_state", "available_replicas", "service_state"}
       \subseteq Fields
  /\ NoValue \notin Bad
<1>1. "service" \in Types
  BY WordsAssumption
<1>2. Known["service"] \subseteq Fields
  BY <1>1, StateBusAssumption
<1>3. {"scheduler_domain", "health_state", "available_replicas", "service_state"}
        \subseteq Known["service"]
  BY <1>1, WordsAssumption
<1> QED
  BY <1>2, <1>3, StateBusAssumption

(* A live record's fragment says what the record says.                     *)
LEMMA FragmentIs ==
  ASSUME NEW r, LiveRecord(r), NEW at
  PROVE  LET frag == FragmentOf(r, at)
         IN  /\ LiveFragment(frag)
             /\ frag.id = r.entity_id /\ frag.type = r.entity_type
             /\ frag.at = IF r.observed_at = NoValue THEN at ELSE r.observed_at
             /\ \A f \in Fields \ {"scheduler_domain"} :
                  frag.fields[f] = IF f \in DOMAIN r.fields THEN r.fields[f] ELSE NoValue
             /\ frag.fields["scheduler_domain"] \notin Bad
<1> DEFINE frag == FragmentOf(r, at)
           values == [f \in Fields |->
                        IF f = "scheduler_domain" THEN Norm!scheduler_domain(r)
                        ELSE IF f \in DOMAIN r.fields THEN r.fields[f] ELSE NoValue]
<1>1. /\ frag.id = r.entity_id /\ frag.type = r.entity_type /\ frag.source = r.source_type
      /\ frag.at = Norm!observed_at(r, at) /\ frag.aware = Norm!has_zone(r)
      /\ frag.clash = r.clash /\ frag.fields = values
  BY DEF FragmentOf
<1>2. /\ values["scheduler_domain"] = Norm!scheduler_domain(r)
      /\ \A f \in Fields \ {"scheduler_domain"} :
           values[f] = IF f \in DOMAIN r.fields THEN r.fields[f] ELSE NoValue
  BY FieldsAre
<1> HIDE DEF frag, values
<1>3. DomainOf(r.source_type) \notin Bad
  <2>1. r.source_type \in LiveSources
    BY DEF LiveRecord
  <2>2. DomainOf(r.source_type) \in {"kubernetes", "slurm", "unknown"}
    BY <2>1 DEF DomainOf, LiveSources
  <2> QED
    BY <2>2, WordsAssumption
<1>4. frag.aware = FALSE /\ frag.clash = FALSE
  BY <1>1 DEF LiveRecord, Norm!has_zone
<1>5. frag.at = IF r.observed_at = NoValue THEN at ELSE r.observed_at
  BY <1>1 DEF Norm!observed_at
<1>6. LiveFragment(frag)
  BY <1>1, <1>2, <1>4 DEF LiveRecord, LiveFragment
<1>7. frag.fields["scheduler_domain"] \notin Bad
  BY <1>1, <1>2, <1>3 DEF LiveRecord
<1> QED
  BY <1>1, <1>2, <1>5, <1>6, <1>7 DEF frag

(* One of a job or a metric tells no node's health.                        *)
LEMMA SilentFragment ==
  ASSUME NEW r, LiveRecord(r), Silent(r), NEW at
  PROVE  FragmentOf(r, at).id \in OtherIds /\ ~Tells(FragmentOf(r, at))
<1>1. "health_state" \notin DOMAIN r.fields /\ r.entity_id \in OtherIds
  BY DEF Silent, Told
<1>2. "health_state" \in Fields \ {"scheduler_domain"}
  BY FieldsAre
<1> QED
  BY <1>1, <1>2, FragmentIs DEF Tells

(* A node's fragment says its health, and nothing that is not valid.       *)
LEMMA HealthFragment ==
  ASSUME NEW r, LiveRecord(r), NEW node, NEW usable, TellsHealth(r, node, usable), NEW at
  PROVE  LET frag == FragmentOf(r, at)
         IN  /\ frag.id = node /\ Tells(frag) /\ Sound(frag)
             /\ frag.fields["health_state"] = Raw!Health(usable)
<1> DEFINE frag == FragmentOf(r, at)
<1>1. /\ r.entity_id = node /\ node \in OtherIds
      /\ DOMAIN r.fields = {"health_state"} /\ r.fields["health_state"] = Raw!Health(usable)
  BY DEF TellsHealth
<1>2. Raw!Health(usable) \notin Bad \cup {NoValue}
  BY WordsAssumption DEF Raw!Health
<1>3. /\ frag.id = node /\ frag.fields["scheduler_domain"] \notin Bad
      /\ \A f \in Fields \ {"scheduler_domain"} :
           frag.fields[f] = IF f \in DOMAIN r.fields THEN r.fields[f] ELSE NoValue
  BY <1>1, FragmentIs
<1> HIDE DEF frag
<1>4. frag.fields["health_state"] = Raw!Health(usable)
  BY <1>1, <1>3, FieldsAre
<1>5. Sound(frag)
  BY <1>1, <1>2, <1>3, FieldsAre DEF Sound
<1> QED
  BY <1>1, <1>2, <1>3, <1>4, <1>5 DEF Tells, frag

(* The fragments of a deployment's two records are a pair, and tell no     *)
(* node's health.                                                          *)
LEMMA PairFragments ==
  ASSUME NEW r, LiveRecord(r), NEW t, LiveRecord(t), Pair(r, t), NEW at
  PROVE  FragmentPair(FragmentOf(r, at), FragmentOf(t, at))
<1> DEFINE frag == FragmentOf(r, at)
           twin == FragmentOf(t, at)
<1>1. PICK available : /\ available \notin Bad \cup {NoValue}
                       /\ TellsDeployment(r, available)
                       /\ TellsService(t, r.entity_id, available)
  BY DEF Pair
<1>2. PICK ok : r.fields = [available_replicas |-> available, health_state |-> Raw!Health(ok)]
  BY <1>1 DEF TellsDeployment
<1>3. /\ r.entity_id \in DeploymentIds /\ r.entity_type = "deployment"
      /\ t.entity_id = "svc-" \o r.entity_id /\ t.entity_type = "service"
      /\ DOMAIN r.fields = {"available_replicas", "health_state"}
      /\ r.fields["available_replicas"] = available
      /\ r.fields["health_state"] \in {"healthy", "degraded"}
      /\ DOMAIN t.fields = {"available_replicas", "service_state"}
      /\ t.fields["available_replicas"] = available
      /\ t.fields["service_state"] = IF available = "0" THEN "degraded" ELSE "active"
  BY <1>1, <1>2 DEF TellsDeployment, TellsService, Raw!Health
<1>4. /\ frag.id = r.entity_id /\ frag.type = r.entity_type
      /\ frag.fields["scheduler_domain"] \notin Bad
      /\ \A f \in Fields \ {"scheduler_domain"} :
           frag.fields[f] = IF f \in DOMAIN r.fields THEN r.fields[f] ELSE NoValue
  BY FragmentIs
<1>5. /\ twin.id = t.entity_id /\ twin.type = t.entity_type
      /\ twin.fields["scheduler_domain"] \notin Bad
      /\ \A f \in Fields \ {"scheduler_domain"} :
           twin.fields[f] = IF f \in DOMAIN t.fields THEN t.fields[f] ELSE NoValue
  BY FragmentIs
<1> HIDE DEF frag, twin
<1>6. /\ "available_replicas" \in Fields \ {"scheduler_domain"}
      /\ "service_state" \in Fields \ {"scheduler_domain"}
  BY FieldsAre
<1>7. /\ frag.fields["available_replicas"] = available
      /\ twin.fields["available_replicas"] = available
      /\ twin.fields["service_state"] = IF available = "0" THEN "degraded" ELSE "active"
  BY <1>3, <1>4, <1>5, <1>6
<1>8. {"healthy", "degraded", "active"} \cap Bad = {} /\ NoValue \notin Bad
  BY WordsAssumption, FieldsAre
<1>9. Sound(frag)
  BY <1>1, <1>3, <1>4, <1>8 DEF Sound
<1>10. Sound(twin)
  BY <1>1, <1>3, <1>5, <1>8 DEF Sound
<1>11. FragmentPair(frag, twin)
  BY <1>1, <1>3, <1>4, <1>5, <1>7, <1>9, <1>10 DEF FragmentPair
<1> QED
  BY <1>11 DEF frag, twin

-----------------------------------------------------------------------------
(* The state between two snapshots, and in the midst of one: fragments P   *)
(* that are yet to be merged into the entities E at time t, after files F  *)
(* and answers S.                                                          *)

OnlyLiveIn(e, F) == \A r \in F : ~Flawed(r) /\ r.entity_id # e

ZonedIn(F) == \E r \in F : r.aware

PoisonedIn(F) == \E r \in F : Flawed(r)

(* A live fragment has a sound content, unless it is a metric's or a job's *)
Reliable(frag) ==
  /\ LiveFragment(frag)
  /\ frag.id \notin OtherIds \/ Tells(frag) => Sound(frag)
  /\ frag.id \in DeploymentIds => frag.type = "deployment"
  /\ frag.id \in ServiceIds => frag.type = "service"

Made(frag, F, t) ==
  /\ (frag.aware => ZonedIn(F)) /\ (frag.clash => PoisonedIn(F))
  /\ OnlyLiveIn(frag.id, F) => Reliable(frag) /\ frag.at \in Nat /\ frag.at <= t

Queued(P, F, t) ==
  /\ IsList(P)
  /\ \A i \in 1..Len(P) : Made(P[i], F, t)
  /\ \A i, j \in 1..Len(P) :
       i < j /\ P[i].id = P[j].id /\ OnlyLiveIn(P[i].id, F) => P[i].at <= P[j].at

Kept(x, e, F, t) ==
  /\ x.aware => ZonedIn(F)
  /\ OnlyLiveIn(e, F) =>
       /\ x.at <= t
       /\ x.fields["scheduler_domain"] = DomainOf(x.source)
       /\ e \in DeploymentIds => x.type = "deployment"
       /\ e \in ServiceIds => x.type = "service"

Stored(E, F, t) ==
  /\ E \in [Ids -> Entity \cup {Absent}]
  /\ \A e \in Ids : E[e] # Absent => Kept(E[e], e, F, t)

(* No live fragment comes too late *)
Behind(P, E, F) ==
  \A e \in Ids : \A i \in 1..Len(P) :
    E[e] # Absent /\ P[i].id = e /\ OnlyLiveIn(e, F) => E[e].at <= P[i].at

(* The last answer about a node is in the last fragment that tells its     *)
(* health, or when there is none any more, in the entity.                  *)
Speaks(P, e, i) == P[i].id = e /\ Tells(P[i])

Silence(P, e) == \A i \in 1..Len(P) : ~Speaks(P, e, i)

Repeats(x, report) ==
  x.at >= report.at /\ x.fields["health_state"] = Raw!Health(report.usable)

Awaits(P, e, report) ==
  \E j \in 1..Len(P) : /\ Speaks(P, e, j) /\ Repeats(P[j], report)
                       /\ \A k \in 1..Len(P) : k > j => ~Speaks(P, e, k)

Heeded(P, E, F, S) ==
  \A e \in Ids :
    S[e] # NoValue /\ OnlyLiveIn(e, F) =>
      /\ e \in OtherIds /\ S[e].at \in Nat
      /\ \/ Awaits(P, e, S[e])
         \/ Silence(P, e) /\ E[e] # Absent /\ Repeats(E[e], S[e])

(* A deployment's two fragments are neighbours; when the first is merged,  *)
(* the entity is what the second one mirrors, else its service does.       *)
Mirrors(x, twin) ==
  LET available == x.fields["available_replicas"]
  IN  /\ twin.fields["available_replicas"] = available
      /\ twin.fields["service_state"] = IF available = "0" THEN "degraded" ELSE "active"

Half(x, twin) == x # Absent /\ Mirrors(x, twin) /\ x.fields["available_replicas"] # NoValue

Whole(x, y) == (x # Absent <=> y # Absent) /\ (x # Absent => Mirrors(x, y))

Coupled(P, E, d, s) ==
  /\ \A i \in 1..Len(P) : P[i].id = d => i < Len(P) /\ FragmentPair(P[i], P[i + 1])
  /\ \A i \in 1..Len(P) :
       P[i].id = s =>
         \/ i = 1 /\ Half(E[d], P[1])
         \/ i > 1 /\ FragmentPair(P[i - 1], P[i])
  /\ Len(P) = 0 \/ P[1].id # s => Whole(E[d], E[s])

AllCoupled(P, E, F) ==
  \A d \in Ids \cap DeploymentIds : \A s \in Ids :
    s = "svc-" \o d /\ OnlyLiveIn(d, F) /\ OnlyLiveIn(s, F) => Coupled(P, E, d, s)

Consistent(P, E, F, t, S) ==
  /\ Queued(P, F, t)
  /\ Stored(E, F, t)
  /\ Behind(P, E, F)
  /\ Heeded(P, E, F, S)
  /\ AllCoupled(P, E, F)

(* Time alone, and the refresh of the entities, change nothing of this. *)
SameEntity(x, y) ==
  /\ x # Absent <=> y # Absent
  /\ x # Absent => /\ x.type = y.type /\ x.source = y.source /\ x.at = y.at
                   /\ x.aware = y.aware /\ x.fields = y.fields

(* Time, and the refresh of the entities, keep the state consistent        *)
(* (state_bus.py:125-156).                                                 *)
LEMMA Later ==
  ASSUME NEW P, NEW E, NEW F, NEW t \in Nat, NEW S, Consistent(P, E, F, t, S),
         NEW E2, NEW t2 \in Nat, t <= t2, E2 \in [Ids -> Entity \cup {Absent}],
         \A e \in Ids : SameEntity(E2[e], E[e])
  PROVE  Consistent(P, E2, F, t2, S)
<1>1. /\ Queued(P, F, t) /\ Stored(E, F, t) /\ Behind(P, E, F) /\ Heeded(P, E, F, S)
      /\ AllCoupled(P, E, F)
  BY DEF Consistent
<1>2. Queued(P, F, t2)
  <2> SUFFICES ASSUME NEW i \in 1..Len(P) PROVE Made(P[i], F, t2)
    BY <1>1 DEF Queued
  <2>1. P[i].at \in Nat /\ P[i].at <= t => P[i].at <= t2
    OBVIOUS
  <2> QED
    BY <1>1, <2>1 DEF Queued, Made
<1>3. \A e \in Ids : E[e] # Absent => E[e].at \in Nat
  BY <1>1 DEF Stored, Entity
<1>4. Stored(E2, F, t2)
  <2> SUFFICES ASSUME NEW e \in Ids, E2[e] # Absent PROVE Kept(E2[e], e, F, t2)
    BY DEF Stored
  <2>1. SameEntity(E2[e], E[e])
    OBVIOUS
  <2>2. E[e] # Absent /\ Kept(E[e], e, F, t) /\ E[e].at \in Nat
    BY <1>1, <1>3, <2>1 DEF Stored, SameEntity
  <2>3. E[e].at <= t => E[e].at <= t2
    BY <2>2
  <2> QED
    BY <2>1, <2>2, <2>3 DEF Kept, SameEntity
<1>5. Behind(P, E2, F)
  BY <1>1 DEF Behind, SameEntity
<1>6. Heeded(P, E2, F, S)
  BY <1>1 DEF Heeded, SameEntity, Repeats
<1>7. AllCoupled(P, E2, F)
  <2> SUFFICES ASSUME NEW d \in Ids \cap DeploymentIds, NEW s \in Ids, s = "svc-" \o d,
                      OnlyLiveIn(d, F), OnlyLiveIn(s, F)
               PROVE  Coupled(P, E2, d, s)
    BY DEF AllCoupled
  <2>1. Coupled(P, E, d, s)
    BY <1>1 DEF AllCoupled
  <2>2. SameEntity(E2[d], E[d]) /\ SameEntity(E2[s], E[s])
    OBVIOUS
  <2>3. Half(E[d], P[1]) => Half(E2[d], P[1])
    BY <2>2 DEF Half, SameEntity, Mirrors
  <2>4. Whole(E[d], E[s]) => Whole(E2[d], E2[s])
    BY <2>2 DEF Whole, SameEntity, Mirrors
  <2> QED
    BY <2>1, <2>3, <2>4 DEF Coupled
<1> QED
  BY <1>2, <1>4, <1>5, <1>6, <1>7 DEF Consistent

(* Lists that say nothing of a node, a deployment or a service *)
Quiet(P, F) ==
  \A i \in 1..Len(P) : OnlyLiveIn(P[i].id, F) => P[i].id \in OtherIds /\ ~Tells(P[i])

(* Deployments and services have names of their own.                       *)
LEMMA NamesApart ==
  ASSUME NEW d \in DeploymentIds, NEW s, s = "svc-" \o d
  PROVE  /\ d \notin OtherIds /\ s \notin OtherIds /\ d # s /\ s \in ServiceIds
         /\ s \notin DeploymentIds /\ d \notin ServiceIds
         /\ \A e \in DeploymentIds : s = "svc-" \o e => e = d
<1> DEFINE service(e) == "svc-" \o e
<1>1. /\ DeploymentIds \cap OtherIds = {}
      /\ \A e \in DeploymentIds : service(e) \notin DeploymentIds \cup OtherIds
      /\ \A e, f \in DeploymentIds : service(e) = service(f) => e = f
  BY NamesAssumption
<1>2. s = service(d) /\ ServiceIds = {service(e) : e \in DeploymentIds}
  BY DEF ServiceIds
<1>3. (\A e \in DeploymentIds : s = service(e) => e = d)
  <2> HIDE DEF service
  <2> QED
    BY <1>1, <1>2
<1>4. /\ d \notin OtherIds /\ s \notin OtherIds /\ d # s /\ s \in ServiceIds
      /\ s \notin DeploymentIds /\ d \notin ServiceIds
  <2> HIDE DEF service
  <2> QED
    BY <1>1, <1>2
<1> QED
  BY <1>3, <1>4

(* More files only take entities out of what is claimed.                   *)
LEMMA MoreFiles ==
  ASSUME NEW F, NEW F2, F \subseteq F2
  PROVE  /\ (PoisonedIn(F) => PoisonedIn(F2)) /\ (ZonedIn(F) => ZonedIn(F2))
         /\ \A e : OnlyLiveIn(e, F2) => OnlyLiveIn(e, F)
BY DEF PoisonedIn, ZonedIn, OnlyLiveIn

(* Fragments that neither tell a health nor are about a deployment can be  *)
(* replaced by others of the kind, and files added.                        *)
LEMMA QuietStep ==
  ASSUME NEW P, NEW E, NEW F, NEW t \in Nat, NEW S, Consistent(P, E, F, t, S), Quiet(P, F),
         NEW P2, NEW F2, F \subseteq F2, Queued(P2, F2, t), Quiet(P2, F2), Behind(P2, E, F2)
  PROVE  Consistent(P2, E, F2, t, S)
<1>1. Stored(E, F, t) /\ Heeded(P, E, F, S) /\ AllCoupled(P, E, F) /\ Queued(P, F, t)
  BY DEF Consistent
<1>2. /\ (PoisonedIn(F) => PoisonedIn(F2)) /\ (ZonedIn(F) => ZonedIn(F2))
      /\ \A e : OnlyLiveIn(e, F2) => OnlyLiveIn(e, F)
  BY MoreFiles
<1>3. Stored(E, F2, t)
  BY <1>1, <1>2 DEF Stored, Kept
<1>4. Heeded(P2, E, F2, S)
  <2> SUFFICES ASSUME NEW e \in Ids, S[e] # NoValue, OnlyLiveIn(e, F2)
               PROVE  /\ e \in OtherIds /\ S[e].at \in Nat
                      /\ Silence(P2, e) /\ E[e] # Absent /\ Repeats(E[e], S[e])
    BY DEF Heeded
  <2>1. OnlyLiveIn(e, F)
    BY <1>2
  <2>2. \A j \in 1..Len(P) : ~Speaks(P, e, j)
    BY <2>1 DEF Quiet, Speaks
  <2>3. Silence(P2, e)
    BY DEF Quiet, Speaks, Silence
  <2>4. ~Awaits(P, e, S[e])
    BY <2>2 DEF Awaits
  <2> QED
    BY <1>1, <2>1, <2>3, <2>4 DEF Heeded
<1>5. AllCoupled(P2, E, F2)
  <2> SUFFICES ASSUME NEW d \in Ids \cap DeploymentIds, NEW s \in Ids, s = "svc-" \o d,
                      OnlyLiveIn(d, F2), OnlyLiveIn(s, F2)
               PROVE  Coupled(P2, E, d, s)
    BY DEF AllCoupled
  <2>1. d \notin OtherIds /\ s \notin OtherIds
    BY NamesApart
  <2>2. Coupled(P, E, d, s) /\ OnlyLiveIn(s, F)
    BY <1>1, <1>2 DEF AllCoupled
  <2>3. Len(P) = 0 \/ P[1].id # s
    <3>1. Len(P) \in Nat
      BY <1>1, ListIs DEF Queued
    <3>2. Len(P) # 0 => 1 \in 1..Len(P)
      BY <3>1
    <3> QED
      BY <2>1, <2>2, <3>2 DEF Quiet
  <2>4. \A i \in 1..Len(P2) : P2[i].id # d /\ P2[i].id # s
    BY <2>1 DEF Quiet
  <2> QED
    BY <2>2, <2>3, <2>4 DEF Coupled
<1> QED
  BY <1>3, <1>4, <1>5 DEF Consistent

(* An answer adds fragments behind those that wait, with the time of now.  *)
Added(N, S, S2, t) ==
  /\ IsList(N)
  /\ \A i \in 1..Len(N) : Reliable(N[i]) /\ N[i].at = t
  /\ \A e \in Ids : \/ Silence(N, e) /\ S2[e] = S[e]
                    \/ Awaits(N, e, S2[e]) /\ S2[e].at = t
  /\ \A i \in 1..Len(N) : N[i].id \in DeploymentIds =>
       i < Len(N) /\ FragmentPair(N[i], N[i + 1])
  /\ \A i \in 1..Len(N) : N[i].id \in ServiceIds =>
       i > 1 /\ FragmentPair(N[i - 1], N[i])

(* Fragments made now go behind those there are.                           *)
LEMMA AddedQueued ==
  ASSUME NEW P, NEW F, NEW t \in Nat, Queued(P, F, t), NEW N, IsList(N),
         \A i \in 1..Len(N) : Reliable(N[i]) /\ N[i].at = t
  PROVE  Queued(P \o N, F, t)
<1> DEFINE Q == P \o N
<1>1. /\ IsList(Q) /\ Len(Q) = Len(P) + Len(N) /\ Len(P) \in Nat /\ Len(N) \in Nat
      /\ \A i \in 1..Len(P) : Q[i] = P[i]
      /\ \A i \in 1..Len(N) : Q[Len(P) + i] = N[i]
  BY ConcatIs DEF Queued
<1> HIDE DEF Q
<1>2. ASSUME NEW i \in 1..Len(Q)
      PROVE  \/ i \in 1..Len(P)
             \/ i - Len(P) \in 1..Len(N) /\ Q[i] = N[i - Len(P)]
  <2>1. i \notin 1..Len(P) => i - Len(P) \in 1..Len(N) /\ Len(P) + (i - Len(P)) = i
    BY <1>1
  <2> QED
    BY <1>1, <2>1
<1>3. \A i \in 1..Len(N) : Made(N[i], F, t)
  BY DEF Made, Reliable, LiveFragment
<1>4. ASSUME NEW i \in 1..Len(Q) PROVE Made(Q[i], F, t)
  BY <1>1, <1>2, <1>3 DEF Queued
<1>5. ASSUME NEW i \in 1..Len(Q), NEW j \in 1..Len(Q), i < j, Q[i].id = Q[j].id,
             OnlyLiveIn(Q[i].id, F)
      PROVE  Q[i].at <= Q[j].at
  <2>1. CASE j \in 1..Len(P)
    <3>1. i \in 1..Len(P)
      BY <1>1, <1>5, <2>1
    <3> QED
      BY <1>1, <1>5, <2>1, <3>1 DEF Queued
  <2>2. CASE j \notin 1..Len(P)
    <3>1. Q[j].at = t
      BY <1>2, <2>2
    <3>2. Q[i].at \in Nat /\ Q[i].at <= t
      BY <1>4, <1>5 DEF Made
    <3> QED
      BY <3>1, <3>2
  <2> QED
    BY <2>1, <2>2
<1>6. Queued(Q, F, t)
  BY <1>1, <1>4, <1>5 DEF Queued
<1> QED
  BY <1>6 DEF Q

(* What an answer adds keeps the state consistent with that answer.        *)
LEMMA AppendStep ==
  ASSUME NEW P, NEW E, NEW F, NEW t \in Nat, NEW S, Consistent(P, E, F, t, S),
         NEW N, NEW S2, Added(N, S, S2, t)
  PROVE  Consistent(P \o N, E, F, t, S2)
<1> DEFINE Q == P \o N
<1>1. /\ Queued(P, F, t) /\ Stored(E, F, t) /\ Behind(P, E, F) /\ Heeded(P, E, F, S)
      /\ AllCoupled(P, E, F)
  BY DEF Consistent
<1>2. IsList(N) /\ \A i \in 1..Len(N) : Reliable(N[i]) /\ N[i].at = t
  BY DEF Added
<1>3. /\ IsList(Q) /\ Len(Q) = Len(P) + Len(N) /\ Len(P) \in Nat /\ Len(N) \in Nat
      /\ \A i \in 1..Len(P) : Q[i] = P[i] /\ i \in 1..Len(Q)
      /\ \A i \in 1..Len(N) : Q[Len(P) + i] = N[i] /\ Len(P) + i \in 1..Len(Q)
  <2>1. /\ IsList(Q) /\ Len(Q) = Len(P) + Len(N) /\ Len(P) \in Nat /\ Len(N) \in Nat
        /\ \A i \in 1..Len(P) : Q[i] = P[i]
        /\ \A i \in 1..Len(N) : Q[Len(P) + i] = N[i]
    BY <1>1, <1>2, ConcatIs DEF Queued
  <2> HIDE DEF Q
  <2> QED
    BY <2>1
<1>4. Queued(Q, F, t)
  BY <1>1, <1>2, AddedQueued
<1> HIDE DEF Q
<1>5. ASSUME NEW i \in 1..Len(Q)
      PROVE  \/ i \in 1..Len(P) /\ Q[i] = P[i]
             \/ i > Len(P) /\ i - Len(P) \in 1..Len(N) /\ Q[i] = N[i - Len(P)]
  <2>1. i \notin 1..Len(P) => i > Len(P) /\ i - Len(P) \in 1..Len(N) /\ Len(P) + (i - Len(P)) = i
    BY <1>3
  <2> QED
    BY <1>3, <2>1
<1>6. Behind(Q, E, F)
  <2> SUFFICES ASSUME NEW e \in Ids, NEW i \in 1..Len(Q), E[e] # Absent, Q[i].id = e,
                      OnlyLiveIn(e, F)
               PROVE  E[e].at <= Q[i].at
    BY DEF Behind
  <2>1. CASE i \in 1..Len(P) /\ Q[i] = P[i]
    BY <1>1, <2>1 DEF Behind
  <2>2. CASE i - Len(P) \in 1..Len(N) /\ Q[i] = N[i - Len(P)]
    <3>1. E[e].at <= t
      BY <1>1 DEF Stored, Kept
    <3>2. Q[i].at = t
      BY <1>2, <2>2
    <3> QED
      BY <3>1, <3>2
  <2> QED
    BY <1>5, <2>1, <2>2
<1>7. Heeded(Q, E, F, S2)
  <2> SUFFICES ASSUME NEW e \in Ids, S2[e] # NoValue, OnlyLiveIn(e, F)
               PROVE  /\ e \in OtherIds /\ S2[e].at \in Nat
                      /\ \/ Awaits(Q, e, S2[e])
                         \/ Silence(Q, e) /\ E[e] # Absent /\ Repeats(E[e], S2[e])
    BY DEF Heeded
  <2>1. /\ \A i \in 1..Len(P) : Speaks(Q, e, i) <=> Speaks(P, e, i)
        /\ \A i \in 1..Len(N) : Speaks(Q, e, Len(P) + i) <=> Speaks(N, e, i)
    BY <1>3 DEF Speaks
  <2>2. CASE Silence(N, e) /\ S2[e] = S[e]
    <3>1. \A i \in 1..Len(Q) : i \notin 1..Len(P) => ~Speaks(Q, e, i)
      BY <1>5, <2>2 DEF Silence, Speaks
    <3>2. CASE Awaits(P, e, S[e])
      <4>1. PICK j \in 1..Len(P) : /\ Speaks(P, e, j) /\ Repeats(P[j], S[e])
                                   /\ \A k \in 1..Len(P) : k > j => ~Speaks(P, e, k)
        BY <3>2 DEF Awaits
      <4>2. \A k \in 1..Len(Q) : k > j => ~Speaks(Q, e, k)
        BY <2>1, <3>1, <4>1
      <4>3. j \in 1..Len(Q) /\ Speaks(Q, e, j) /\ Repeats(Q[j], S[e])
        BY <1>3, <2>1, <4>1
      <4>4. Awaits(Q, e, S2[e])
        BY <2>2, <4>2, <4>3 DEF Awaits
      <4> QED
        BY <1>1, <2>2, <4>4 DEF Heeded
    <3>3. CASE Silence(P, e) /\ E[e] # Absent /\ Repeats(E[e], S[e])
      <4>1. Silence(Q, e)
        BY <2>1, <3>1, <3>3 DEF Silence
      <4> QED
        BY <1>1, <2>2, <3>3, <4>1 DEF Heeded
    <3> QED
      BY <1>1, <2>2, <3>2, <3>3 DEF Heeded
  <2>3. CASE Awaits(N, e, S2[e]) /\ S2[e].at = t
    <3>1. PICK j \in 1..Len(N) : /\ Speaks(N, e, j) /\ Repeats(N[j], S2[e])
                                 /\ \A k \in 1..Len(N) : k > j => ~Speaks(N, e, k)
      BY <2>3 DEF Awaits
    <3>2. /\ Len(P) + j \in 1..Len(Q) /\ Speaks(Q, e, Len(P) + j)
          /\ Repeats(Q[Len(P) + j], S2[e])
      BY <1>3, <2>1, <3>1
    <3>3. ASSUME NEW k \in 1..Len(Q), k > Len(P) + j PROVE ~Speaks(Q, e, k)
      <4>1. k \notin 1..Len(P) /\ k - Len(P) > j
        BY <1>3, <3>3
      <4>2. k - Len(P) \in 1..Len(N) /\ Q[k] = N[k - Len(P)]
        BY <1>5, <4>1
      <4> QED
        BY <3>1, <4>1, <4>2 DEF Speaks
    <3>4. e \in OtherIds
      BY <3>1 DEF Speaks, Tells
    <3> QED
      BY <2>3, <3>2, <3>3, <3>4 DEF Awaits
  <2> QED
    BY <2>2, <2>3 DEF Added
<1>8. AllCoupled(Q, E, F)
  <2> SUFFICES ASSUME NEW d \in Ids \cap DeploymentIds, NEW s \in Ids, s = "svc-" \o d,
                      OnlyLiveIn(d, F), OnlyLiveIn(s, F)
               PROVE  Coupled(Q, E, d, s)
    BY DEF AllCoupled
  <2>1. Coupled(P, E, d, s)
    BY <1>1 DEF AllCoupled
  <2>2. s \in ServiceIds /\ d # s
    BY NamesApart
  <2>3. ASSUME NEW i \in 1..Len(Q), Q[i].id = d
        PROVE  i < Len(Q) /\ FragmentPair(Q[i], Q[i + 1])
    <3>1. CASE i \in 1..Len(P) /\ Q[i] = P[i]
      <4>1. i < Len(P) /\ FragmentPair(P[i], P[i + 1])
        BY <2>1, <2>3, <3>1 DEF Coupled
      <4>2. i + 1 \in 1..Len(P) /\ i < Len(Q)
        BY <1>3, <4>1
      <4>3. Q[i + 1] = P[i + 1]
        BY <1>3, <4>2
      <4> QED
        BY <3>1, <4>1, <4>2, <4>3
    <3>2. CASE i - Len(P) \in 1..Len(N) /\ Q[i] = N[i - Len(P)]
      <4> DEFINE j == i - Len(P)
      <4>1. j < Len(N) /\ FragmentPair(N[j], N[j + 1])
        BY <2>3, <3>2 DEF Added
      <4>2. j + 1 \in 1..Len(N) /\ Len(P) + (j + 1) = i + 1 /\ i < Len(Q)
        BY <1>3, <3>2, <4>1
      <4>3. Q[i + 1] = N[j + 1]
        BY <1>3, <4>2
      <4> QED
        BY <3>2, <4>1, <4>2, <4>3
    <3> QED
      BY <1>5, <3>1, <3>2
  <2>4. ASSUME NEW i \in 1..Len(Q), Q[i].id = s
        PROVE  \/ i = 1 /\ Half(E[d], Q[1])
               \/ i > 1 /\ FragmentPair(Q[i - 1], Q[i])
    <3>1. CASE i \in 1..Len(P) /\ Q[i] = P[i]
      <4>1. \/ i = 1 /\ Half(E[d], P[1])
            \/ i > 1 /\ FragmentPair(P[i - 1], P[i])
        BY <2>1, <2>4, <3>1 DEF Coupled
      <4>2. i > 1 => i - 1 \in 1..Len(P)
        BY <1>3, <3>1
      <4>3. i > 1 => Q[i - 1] = P[i - 1]
        BY <1>3, <4>2
      <4> QED
        BY <3>1, <4>1, <4>3
    <3>2. CASE i > Len(P) /\ i - Len(P) \in 1..Len(N) /\ Q[i] = N[i - Len(P)]
      <4> DEFINE j == i - Len(P)
      <4>1. j > 1 /\ FragmentPair(N[j - 1], N[j])
        BY <2>2, <2>4, <3>2 DEF Added
      <4>2. j - 1 \in 1..Len(N) /\ Len(P) + (j - 1) = i - 1 /\ i > 1
        BY <1>3, <3>2, <4>1
      <4>3. Q[i - 1] = N[j - 1]
        BY <1>3, <4>2
      <4> QED
        BY <3>2, <4>1, <4>2, <4>3
    <3> QED
      BY <1>5, <3>1, <3>2
  <2>5. ASSUME Len(Q) = 0 \/ Q[1].id # s PROVE Whole(E[d], E[s])
    <3>1. Len(P) = 0 \/ P[1].id # s
      <4>1. Len(P) # 0 => Len(Q) # 0 /\ Q[1] = P[1]
        BY <1>3
      <4> QED
        BY <2>5, <4>1
    <3> QED
      BY <2>1, <3>1 DEF Coupled
  <2> QED
    BY <2>3, <2>4, <2>5 DEF Coupled
<1>9. Consistent(Q, E, F, t, S2)
  BY <1>1, <1>4, <1>6, <1>7, <1>8 DEF Consistent
<1> QED
  BY <1>9 DEF Q

(* What put_fragments does with the first of the fragments                 *)
(* (state_bus.py:99-150): it cannot make an entity of it, it is stale, or  *)
(* the entity has its time, its source and the fields that it carries.     *)
Written(x, y, frag) ==
  /\ y # Absent /\ y.at = frag.at /\ y.source = frag.source /\ y.aware = frag.aware
  /\ y.type \in Types /\ y.type = IF x = Absent THEN frag.type ELSE x.type
  /\ \E old : y.fields = Overlay(y.type, old, frag) /\ (x # Absent => old = x.fields)
  /\ x # Absent => ~(frag.at < x.at)

Takes1(E, E2, frag) ==
  /\ frag.id \in Ids
  /\ E2 \in [Ids -> Entity \cup {Absent}]
  /\ \A e \in Ids : e # frag.id => E2[e] = E[e]
  /\ \/ E[frag.id] = Absent /\ E2[frag.id] = Absent /\ ~Sound(frag)
     \/ E[frag.id] # Absent /\ E2[frag.id] = E[frag.id] /\ frag.at < E[frag.id].at
     \/ Written(E[frag.id], E2[frag.id], frag)

(* A field that every entity of the type has is overwritten, or left alone *)
LEMMA OverlayIs ==
  ASSUME NEW type, NEW old, NEW frag, NEW f \in Fields, f \in Known[type]
  PROVE  Overlay(type, old, frag)[f]
           = IF frag.fields[f] # NoValue THEN frag.fields[f] ELSE old[f]
BY DEF Overlay, Carries

(* Every class has the fields the properties are about.                    *)
LEMMA KnownFields ==
  ASSUME NEW type \in Types
  PROVE  /\ {"scheduler_domain", "health_state"} \subseteq Known[type] \cap Fields
         /\ type \in {"deployment", "service"} => "available_replicas" \in Known[type] \cap Fields
         /\ type = "service" => "service_state" \in Known[type] \cap Fields
BY WordsAssumption, FieldsAre

(* The domain of a live source is a domain.                                *)
LEMMA DomainIsWord ==
  ASSUME NEW source \in LiveSources
  PROVE  DomainOf(source) # NoValue
<1>1. DomainOf(source) \in {"kubernetes", "slurm", "unknown"}
  BY DEF DomainOf, LiveSources
<1> QED
  BY <1>1, WordsAssumption

(* A live fragment that is taken is written, unless it is not sound.       *)
LEMMA LiveTaken ==
  ASSUME NEW P, NEW E, NEW F, NEW t, Queued(P, F, t), Behind(P, E, F), Len(P) > 0,
         NEW E2, Takes1(E, E2, P[1]), OnlyLiveIn(P[1].id, F)
  PROVE  /\ 1 \in 1..Len(P) /\ Reliable(P[1]) /\ P[1].at \in Nat /\ P[1].at <= t
         /\ \/ Written(E[P[1].id], E2[P[1].id], P[1])
            \/ /\ E[P[1].id] = Absent /\ E2[P[1].id] = Absent
               /\ ~Sound(P[1]) /\ P[1].id \in OtherIds /\ ~Tells(P[1])
<1>1. 1 \in 1..Len(P)
  BY ListIs DEF Queued
<1>2. Reliable(P[1]) /\ P[1].at \in Nat /\ P[1].at <= t
  BY <1>1 DEF Queued, Made
<1>3. ASSUME E[P[1].id] # Absent, P[1].at < E[P[1].id].at, E[P[1].id] \in Entity \cup {Absent}
      PROVE FALSE
  <2>1. E[P[1].id].at <= P[1].at
    BY <1>1, <1>3 DEF Behind, Takes1
  <2>2. E[P[1].id].at \in Nat
    BY <1>3 DEF Entity
  <2> QED
    BY <1>2, <1>3, <2>1, <2>2
<1>4. ~Sound(P[1]) => P[1].id \in OtherIds /\ ~Tells(P[1])
  BY <1>2 DEF Reliable
<1>5. E2[P[1].id] \in Entity \cup {Absent}
  BY DEF Takes1
<1> QED
  BY <1>1, <1>2, <1>3, <1>4, <1>5 DEF Takes1

(* What is written of a live fragment                                      *)
LEMMA WrittenIs ==
  ASSUME NEW x, NEW y, NEW frag, Written(x, y, frag), Reliable(frag)
  PROVE  /\ y.fields["scheduler_domain"] = DomainOf(y.source)
         /\ Tells(frag) => y.fields["health_state"] = frag.fields["health_state"]
         /\ ~Tells(frag) /\ frag.id \in OtherIds /\ x # Absent =>
              y.fields["health_state"] = x.fields["health_state"]
<1>1. PICK old : /\ y.fields = Overlay(y.type, old, frag)
                 /\ x # Absent => old = x.fields
  BY DEF Written
<1>2. y.type \in Types /\ y.source = frag.source
  BY DEF Written
<1>3. {"scheduler_domain", "health_state"} \subseteq Known[y.type] \cap Fields
  BY <1>2, KnownFields
<1>4. frag.source \in LiveSources /\ frag.fields["scheduler_domain"] = DomainOf(frag.source)
  BY DEF Reliable, LiveFragment
<1>5. DomainOf(frag.source) # NoValue
  BY <1>4, DomainIsWord
<1>6. \A f \in {"scheduler_domain", "health_state"} :
        y.fields[f] = IF frag.fields[f] # NoValue THEN frag.fields[f] ELSE old[f]
  BY <1>1, <1>3, OverlayIs
<1> QED
  BY <1>1, <1>2, <1>4, <1>5, <1>6 DEF Tells

(* What is written of a deployment, and of its service                     *)
LEMMA WrittenPair ==
  ASSUME NEW x, NEW y, NEW frag, NEW twin, FragmentPair(frag, twin),
         Written(x, y, frag), x # Absent => x.type = "deployment"
  PROVE  Half(y, twin)
<1>1. PICK old : y.fields = Overlay(y.type, old, frag)
  BY DEF Written
<1>2. y # Absent /\ y.type = "deployment" /\ y.type \in Types
  BY DEF Written, FragmentPair
<1>3. "available_replicas" \in Known[y.type] \cap Fields
  BY <1>2, KnownFields
<1>4. frag.fields["available_replicas"] # NoValue
  BY DEF FragmentPair
<1>5. y.fields["available_replicas"] = frag.fields["available_replicas"]
  BY <1>1, <1>3, <1>4, OverlayIs
<1> QED
  BY <1>2, <1>4, <1>5 DEF Half, Mirrors, FragmentPair

(* The second of a pair, merged into its service, makes it mirror the      *)
(* deployment.                                                             *)
LEMMA WrittenTwin ==
  ASSUME NEW z, NEW x, NEW y, NEW twin, Half(z, twin), Written(x, y, twin),
         twin.type = "service", x # Absent => x.type = "service"
  PROVE  Mirrors(z, y)
<1>1. PICK old : y.fields = Overlay(y.type, old, twin)
  BY DEF Written
<1>2. y.type = "service" /\ y.type \in Types
  BY DEF Written
<1>3. {"available_replicas", "service_state"} \subseteq Known[y.type] \cap Fields
  BY <1>2, KnownFields
<1>4. /\ twin.fields["available_replicas"] # NoValue
      /\ twin.fields["service_state"] # NoValue
  BY WordsAssumption DEF Half, Mirrors
<1>5. \A f \in {"available_replicas", "service_state"} : y.fields[f] = twin.fields[f]
  BY <1>1, <1>3, <1>4, OverlayIs
<1> QED
  BY <1>5 DEF Half, Mirrors

(* After the first fragment is merged, those behind it are a queue,        *)
LEMMA PutQueued ==
  ASSUME NEW P, NEW F, NEW t, Queued(P, F, t), P # <<>>
  PROVE  Queued(Tail(P), F, t)
<1>1. /\ IsList(Tail(P)) /\ Len(Tail(P)) = Len(P) - 1 /\ Len(P) \in Nat
      /\ \A i \in 1..Len(Tail(P)) : Tail(P)[i] = P[i + 1]
  BY TailIs DEF Queued
<1>2. \A i \in 1..Len(Tail(P)) : i + 1 \in 1..Len(P)
  BY <1>1
<1>3. \A i, j \in 1..Len(Tail(P)) : i < j => i + 1 < j + 1
  BY <1>1
<1> QED
  BY <1>1, <1>2, <1>3 DEF Queued

(* what it is merged into is an entity that may be there,                  *)
LEMMA PutStored ==
  ASSUME NEW P, NEW E, NEW F, NEW t \in Nat, Queued(P, F, t), Stored(E, F, t), Behind(P, E, F),
         Len(P) > 0, NEW E2, Takes1(E, E2, P[1])
  PROVE  Stored(E2, F, t)
<1> DEFINE frag == P[1]
           e0 == P[1].id
<1>1. 1 \in 1..Len(P) /\ Made(frag, F, t)
  BY ListIs DEF Queued
<1>2. e0 \in Ids /\ \A e \in Ids : e # e0 => E2[e] = E[e]
  BY DEF Takes1
<1>3. ASSUME E2[e0] # Absent PROVE Kept(E2[e0], e0, F, t)
  <2>1. CASE E2[e0] = E[e0]
    BY <1>2, <1>3, <2>1 DEF Stored
  <2>2. CASE Written(E[e0], E2[e0], frag)
    <3>1. E2[e0].aware => ZonedIn(F)
      BY <1>1, <2>2 DEF Written, Made
    <3>2. ASSUME OnlyLiveIn(e0, F)
          PROVE  /\ E2[e0].at <= t
                 /\ E2[e0].fields["scheduler_domain"] = DomainOf(E2[e0].source)
                 /\ e0 \in DeploymentIds => E2[e0].type = "deployment"
                 /\ e0 \in ServiceIds => E2[e0].type = "service"
      <4>1. Reliable(frag) /\ frag.at <= t
        BY <1>1, <3>2 DEF Made
      <4>2. E2[e0].fields["scheduler_domain"] = DomainOf(E2[e0].source)
        BY <2>2, <4>1, WrittenIs
      <4>3. E2[e0].at <= t
        BY <2>2, <4>1 DEF Written
      <4>4. E2[e0].type = IF E[e0] = Absent THEN frag.type ELSE E[e0].type
        BY <2>2 DEF Written
      <4>5. /\ e0 \in DeploymentIds => frag.type = "deployment"
            /\ e0 \in ServiceIds => frag.type = "service"
        BY <4>1 DEF Reliable
      <4>6. E[e0] # Absent => Kept(E[e0], e0, F, t)
        BY <1>2 DEF Stored
      <4> QED
        BY <3>2, <4>2, <4>3, <4>4, <4>5, <4>6 DEF Kept
    <3> QED
      BY <3>1, <3>2 DEF Kept
  <2> QED
    BY <1>3, <2>1, <2>2 DEF Takes1
<1>4. E2 \in [Ids -> Entity \cup {Absent}]
  BY DEF Takes1
<1> HIDE DEF e0
<1>5. ASSUME NEW e \in Ids, E2[e] # Absent PROVE Kept(E2[e], e, F, t)
  BY <1>2, <1>3, <1>5 DEF Stored
<1> QED
  BY <1>4, <1>5 DEF Stored

(* no live fragment left is older than the entity it is for,               *)
LEMMA PutBehind ==
  ASSUME NEW P, NEW E, NEW F, NEW t \in Nat, Queued(P, F, t), Stored(E, F, t), Behind(P, E, F),
         P # <<>>, Len(P) > 0, NEW E2, Takes1(E, E2, P[1])
  PROVE  Behind(Tail(P), E2, F)
<1>1. /\ Len(Tail(P)) = Len(P) - 1 /\ Len(P) \in Nat
      /\ \A i \in 1..Len(Tail(P)) : Tail(P)[i] = P[i + 1]
  BY TailIs DEF Queued
<1> SUFFICES ASSUME NEW e \in Ids, NEW i \in 1..Len(Tail(P)), E2[e] # Absent,
                    Tail(P)[i].id = e, OnlyLiveIn(e, F)
             PROVE  E2[e].at <= Tail(P)[i].at
  BY DEF Behind
<1>2. i + 1 \in 1..Len(P) /\ 1 \in 1..Len(P) /\ 1 < i + 1 /\ Tail(P)[i] = P[i + 1]
  BY <1>1
<1>3. CASE E2[e] = E[e]
  BY <1>2, <1>3 DEF Behind
<1>4. CASE e = P[1].id /\ Written(E[e], E2[e], P[1])
  <2>1. P[1].at <= P[i + 1].at
    BY <1>2, <1>4 DEF Queued
  <2> QED
    BY <1>2, <1>4, <2>1 DEF Written
<1> QED
  BY <1>3, <1>4 DEF Takes1

(* the last answer about a node is in the entity or still to come,         *)
LEMMA PutHeeded ==
  ASSUME NEW P, NEW E, NEW F, NEW t \in Nat, NEW S, Queued(P, F, t), Stored(E, F, t),
         Behind(P, E, F), Heeded(P, E, F, S),
         P # <<>>, Len(P) > 0, NEW E2, Takes1(E, E2, P[1])
  PROVE  Heeded(Tail(P), E2, F, S)
<1> DEFINE Q == Tail(P)
<1>1. /\ Len(Q) = Len(P) - 1 /\ Len(P) \in Nat
      /\ \A i \in 1..Len(Q) : Q[i] = P[i + 1]
  BY TailIs DEF Queued
<1> HIDE DEF Q
<1> SUFFICES ASSUME NEW e \in Ids, S[e] # NoValue, OnlyLiveIn(e, F)
             PROVE  /\ e \in OtherIds /\ S[e].at \in Nat
                    /\ \/ Awaits(Q, e, S[e])
                       \/ Silence(Q, e) /\ E2[e] # Absent /\ Repeats(E2[e], S[e])
  BY DEF Heeded, Q
<1>2. /\ e \in OtherIds /\ S[e].at \in Nat
      /\ \/ Awaits(P, e, S[e])
         \/ Silence(P, e) /\ E[e] # Absent /\ Repeats(E[e], S[e])
  BY DEF Heeded
<1>3. /\ \A i \in 1..Len(Q) : i + 1 \in 1..Len(P) /\ (Speaks(Q, e, i) <=> Speaks(P, e, i + 1))
      /\ \A i \in 1..Len(P) : i # 1 =>
           i - 1 \in 1..Len(Q) /\ Q[i - 1] = P[i] /\ (Speaks(Q, e, i - 1) <=> Speaks(P, e, i))
      /\ 1 \in 1..Len(P)
  <2>1. \A i \in 1..Len(Q) : i + 1 \in 1..Len(P)
    BY <1>1
  <2>2. \A i \in 1..Len(P) : i # 1 => i - 1 \in 1..Len(Q) /\ (i - 1) + 1 = i
    BY <1>1
  <2> QED
    BY <1>1, <2>1, <2>2 DEF Speaks
<1>4. ASSUME NEW j \in 1..Len(P), j # 1, Speaks(P, e, j), Repeats(P[j], S[e]),
             \A k \in 1..Len(P) : k > j => ~Speaks(P, e, k)
      PROVE  Awaits(Q, e, S[e])
  <2>1. j - 1 \in 1..Len(Q) /\ Speaks(Q, e, j - 1) /\ Repeats(Q[j - 1], S[e])
    BY <1>3, <1>4
  <2>2. \A k \in 1..Len(Q) : k > j - 1 => k + 1 > j /\ k + 1 \in 1..Len(P)
    BY <1>1, <1>3
  <2>3. \A k \in 1..Len(Q) : k > j - 1 => ~Speaks(Q, e, k)
    BY <1>3, <1>4, <2>2
  <2> QED
    BY <2>1, <2>3 DEF Awaits
<1>5. Silence(P, e) => Silence(Q, e)
  BY <1>3 DEF Silence
<1>6. CASE e # P[1].id
  <2>1. E2[e] = E[e] /\ ~Speaks(P, e, 1)
    BY <1>6 DEF Takes1, Speaks
  <2>2. Awaits(P, e, S[e]) => Awaits(Q, e, S[e])
    BY <1>4, <2>1 DEF Awaits
  <2> QED
    BY <1>2, <1>5, <2>1, <2>2
<1>7. CASE e = P[1].id
  <2>1. /\ Reliable(P[1]) /\ P[1].at \in Nat
        /\ \/ Written(E[e], E2[e], P[1])
           \/ E[e] = Absent /\ E2[e] = Absent /\ ~Tells(P[1])
    BY <1>7, LiveTaken
  <2>2. Speaks(P, e, 1) <=> Tells(P[1])
    BY <1>7 DEF Speaks
  <2>3. CASE E[e] = Absent /\ ~Tells(P[1])
    <3>1. Awaits(P, e, S[e]) => Awaits(Q, e, S[e])
      BY <1>4, <2>2, <2>3 DEF Awaits
    <3> QED
      BY <1>2, <2>3, <3>1
  <2>4. CASE Written(E[e], E2[e], P[1])
    <3>1. E2[e] # Absent /\ E2[e].at = P[1].at
      BY <2>4 DEF Written
    <3>2. CASE Awaits(P, e, S[e])
      <4>1. PICK j \in 1..Len(P) : /\ Speaks(P, e, j) /\ Repeats(P[j], S[e])
                                   /\ \A k \in 1..Len(P) : k > j => ~Speaks(P, e, k)
        BY <3>2 DEF Awaits
      <4>2. CASE j = 1
        <5>1. Silence(Q, e)
          <6>1. \A k \in 1..Len(Q) : k + 1 > 1
            BY <1>1
          <6> QED
            BY <1>3, <4>1, <4>2, <6>1 DEF Silence
        <5>2. E2[e].fields["health_state"] = P[1].fields["health_state"]
          BY <2>1, <2>2, <2>4, <4>1, <4>2, WrittenIs
        <5>3. Repeats(E2[e], S[e])
          BY <3>1, <4>1, <4>2, <5>2 DEF Repeats
        <5> QED
          BY <1>2, <3>1, <5>1, <5>3
      <4> QED
        BY <1>2, <1>4, <4>1, <4>2
    <3>3. CASE Silence(P, e) /\ E[e] # Absent /\ Repeats(E[e], S[e])
      <4>1. ~Tells(P[1])
        BY <1>3, <2>2, <3>3 DEF Silence
      <4>2. E2[e].fields["health_state"] = E[e].fields["health_state"]
        BY <1>2, <1>7, <2>1, <2>4, <3>3, <4>1, WrittenIs
      <4>3. E[e].at \in Nat
        BY <3>3 DEF Stored, Entity
      <4>4. E2[e].at >= S[e].at
        BY <1>2, <2>1, <2>4, <3>1, <3>3, <4>3 DEF Written, Repeats
      <4> QED
        BY <1>2, <1>5, <3>1, <3>3, <4>2, <4>4 DEF Repeats
    <3> QED
      BY <1>2, <3>2, <3>3
  <2> QED
    BY <2>1, <2>3, <2>4
<1> QED
  BY <1>6, <1>7

(* a deployment and its service agree, or the fragment that makes them     *)
(* agree is the next,                                                      *)
LEMMA PutCoupled ==
  ASSUME NEW P, NEW E, NEW F, NEW t \in Nat, Queued(P, F, t), Stored(E, F, t),
         Behind(P, E, F), AllCoupled(P, E, F),
         P # <<>>, Len(P) > 0, NEW E2, Takes1(E, E2, P[1])
  PROVE  AllCoupled(Tail(P), E2, F)
<1> DEFINE Q == Tail(P)
<1>1. /\ Len(Q) = Len(P) - 1 /\ Len(P) \in Nat
      /\ \A i \in 1..Len(Q) : Q[i] = P[i + 1]
  BY TailIs DEF Queued
<1> HIDE DEF Q
<1> SUFFICES ASSUME NEW d \in Ids \cap DeploymentIds, NEW s \in Ids, s = "svc-" \o d,
                    OnlyLiveIn(d, F), OnlyLiveIn(s, F)
             PROVE  Coupled(Q, E2, d, s)
  BY DEF AllCoupled, Q
<1>2. Coupled(P, E, d, s)
  BY DEF AllCoupled
<1>3. /\ d \notin OtherIds /\ s \notin OtherIds /\ d # s /\ s \in ServiceIds
      /\ \A e \in DeploymentIds : s = "svc-" \o e => e = d
  BY NamesApart
<1>4. /\ \A i \in 1..Len(Q) : i + 1 \in 1..Len(P) /\ i \in 1..Len(P)
      /\ 1 \in 1..Len(P) /\ ~(1 > 1) /\ Len(Q) \in Nat
  BY <1>1
<1>5. \A x, y : FragmentPair(x, y) /\ y.id = s => x.id = d
  BY <1>3 DEF FragmentPair
<1>6. /\ E[d] # Absent => E[d].type = "deployment"
      /\ E[s] # Absent => E[s].type = "service"
  BY <1>3 DEF Stored, Kept
<1>7. ASSUME P[1].id = d PROVE Written(E[d], E2[d], P[1])
  BY <1>3, <1>7, LiveTaken
<1>8. ASSUME P[1].id = s PROVE Written(E[s], E2[s], P[1]) /\ P[1].type = "service"
  <2>1. Written(E[s], E2[s], P[1]) /\ Reliable(P[1])
    BY <1>3, <1>8, LiveTaken
  <2> QED
    BY <1>3, <1>8, <2>1 DEF Reliable
<1>9. ASSUME NEW i \in 1..Len(Q), Q[i].id = d
      PROVE  i < Len(Q) /\ FragmentPair(Q[i], Q[i + 1])
  <2>1. i + 1 < Len(P) /\ FragmentPair(P[i + 1], P[(i + 1) + 1])
    BY <1>1, <1>2, <1>4, <1>9 DEF Coupled
  <2>2. i < Len(Q) /\ i + 1 \in 1..Len(Q)
    BY <1>1, <1>4, <2>1
  <2> QED
    BY <1>1, <2>1, <2>2
<1>10. ASSUME NEW i \in 1..Len(Q), Q[i].id = s
       PROVE  \/ i = 1 /\ Half(E2[d], Q[1])
              \/ i > 1 /\ FragmentPair(Q[i - 1], Q[i])
  <2>1. i + 1 \in 1..Len(P) /\ Q[i] = P[i + 1] /\ i + 1 # 1 /\ (i + 1) - 1 = i
    BY <1>1, <1>4
  <2>2. FragmentPair(P[i], P[i + 1])
    BY <1>2, <1>10, <2>1 DEF Coupled
  <2>3. CASE i = 1
    <3>1. P[1].id = d
      BY <1>5, <1>10, <2>1, <2>2, <2>3
    <3>2. Written(E[d], E2[d], P[1])
      BY <1>7, <3>1
    <3>3. Half(E2[d], P[i + 1])
      BY <1>6, <2>2, <2>3, <3>2, WrittenPair
    <3> QED
      BY <2>1, <2>3, <3>3
  <2>4. CASE i # 1
    <3>1. i > 1 /\ i - 1 \in 1..Len(Q) /\ (i - 1) + 1 = i
      BY <1>4, <2>4
    <3>2. Q[i - 1] = P[i]
      BY <1>1, <3>1
    <3> QED
      BY <2>1, <2>2, <3>1, <3>2
  <2> QED
    BY <2>3, <2>4
<1>11. ASSUME Len(Q) = 0 \/ Q[1].id # s PROVE Whole(E2[d], E2[s])
  <2>1. CASE P[1].id = d
    <3>1. 1 < Len(P) /\ FragmentPair(P[1], P[1 + 1])
      BY <1>2, <1>4, <2>1 DEF Coupled
    <3>2. 1 \in 1..Len(Q)
      BY <1>1, <3>1
    <3>3. Q[1].id = s
      BY <1>1, <2>1, <3>1, <3>2 DEF FragmentPair
    <3> QED
      BY <1>11, <3>2, <3>3, <1>4
  <2>2. CASE P[1].id = s
    <3>1. Half(E[d], P[1])
      BY <1>2, <1>4, <2>2 DEF Coupled
    <3>2. E2[d] = E[d]
      BY <1>3, <2>2 DEF Takes1
    <3>3. Written(E[s], E2[s], P[1]) /\ P[1].type = "service"
      BY <1>8, <2>2
    <3>4. Mirrors(E[d], E2[s])
      BY <1>6, <3>1, <3>3, WrittenTwin
    <3> QED
      BY <3>1, <3>2, <3>3, <3>4 DEF Whole, Half, Written
  <2>3. CASE P[1].id # d /\ P[1].id # s
    <3>1. E2[d] = E[d] /\ E2[s] = E[s]
      BY <2>3 DEF Takes1
    <3>2. Whole(E[d], E[s])
      BY <1>2, <2>3 DEF Coupled
    <3> QED
      BY <3>1, <3>2
  <2> QED
    BY <2>1, <2>2, <2>3
<1> QED
  BY <1>9, <1>10, <1>11 DEF Coupled

(* and the state is consistent (state_bus.py:84-123).                      *)
LEMMA PutStep ==
  ASSUME NEW P, NEW E, NEW F, NEW t \in Nat, NEW S, Consistent(P, E, F, t, S),
         P # <<>>, NEW E2, Takes1(E, E2, Head(P))
  PROVE  Consistent(Tail(P), E2, F, t, S)
<1>1. /\ Queued(P, F, t) /\ Stored(E, F, t) /\ Behind(P, E, F) /\ Heeded(P, E, F, S)
      /\ AllCoupled(P, E, F)
  BY DEF Consistent
<1>2. Len(P) > 0 /\ Head(P) = P[1]
  BY <1>1, TailIs DEF Queued
<1>3. Takes1(E, E2, P[1])
  BY <1>2
<1> QED
  BY <1>1, <1>2, <1>3, PutQueued, PutStored, PutBehind, PutHeeded, PutCoupled DEF Consistent

(* A batch that raises is lost, after a file with a time that has a zone.  *)
LEMMA RaiseStep ==
  ASSUME NEW E, NEW F, NEW t, NEW S, PoisonedIn(F), E \in [Ids -> Entity \cup {Absent}],
         \A e \in Ids : E[e] # Absent /\ E[e].aware => ZonedIn(F)
  PROVE  Consistent(<<>>, E, F, t, S)
<1>1. \A e : ~OnlyLiveIn(e, F)
  BY DEF PoisonedIn, OnlyLiveIn
<1>2. Stored(E, F, t)
  BY <1>1 DEF Stored, Kept
<1>3. Queued(<<>>, F, t)
  BY DEF Queued, IsList, ToSet
<1>4. Behind(<<>>, E, F)
  BY DEF Behind
<1> QED
  BY <1>1, <1>2, <1>3, <1>4 DEF Consistent, Heeded, AllCoupled

-----------------------------------------------------------------------------
(* The fragments of the records *)

Frags(s, at) == [i \in DOMAIN s |-> FragmentOf(s[i], at)]

(* There is one fragment per record, in the same order.                    *)
LEMMA FragsIs ==
  ASSUME NEW s, IsList(s), NEW at
  PROVE  /\ IsList(Frags(s, at)) /\ Len(Frags(s, at)) = Len(s) /\ Len(s) \in Nat
         /\ \A i \in 1..Len(s) : Frags(s, at)[i] = FragmentOf(s[i], at)
<1>1. Len(s) \in Nat /\ DOMAIN s = 1..Len(s)
  BY ListIs
<1>2. Frags(s, at) = [i \in 1..Len(s) |-> FragmentOf(s[i], at)]
  BY <1>1 DEF Frags
<1>3. \A i \in 1..Len(s) : Frags(s, at)[i] = FragmentOf(s[i], at)
  BY <1>2
<1>4. Frags(s, at) = [i \in 1..Len(s) |-> Frags(s, at)[i]]
  BY <1>2, <1>3
<1> QED
  BY <1>1, <1>3, <1>4, IsListIf

(* Those of two lists are those of the one and then of the other.          *)
LEMMA FragsConcat ==
  ASSUME NEW s, NEW t, IsList(s), IsList(t), NEW at
  PROVE  Frags(s \o t, at) = Frags(s, at) \o Frags(t, at)
<1> DEFINE P == Frags(s, at)
           N == Frags(t, at)
           Q == Frags(s \o t, at)
           m == Len(s)
           n == Len(t)
<1>1. /\ IsList(P) /\ Len(P) = m /\ m \in Nat /\ \A i \in 1..m : P[i] = FragmentOf(s[i], at)
      /\ IsList(N) /\ Len(N) = n /\ n \in Nat /\ \A i \in 1..n : N[i] = FragmentOf(t[i], at)
  BY FragsIs
<1>2. /\ IsList(s \o t) /\ Len(s \o t) = m + n
      /\ \A i \in 1..m : (s \o t)[i] = s[i]
      /\ \A i \in 1..n : (s \o t)[m + i] = t[i]
  BY ConcatIs
<1>3. IsList(Q) /\ Len(Q) = m + n /\ \A i \in 1..(m + n) : Q[i] = FragmentOf((s \o t)[i], at)
  <2> DEFINE w == s \o t
  <2>1. IsList(w) /\ Len(w) = m + n
    BY <1>2
  <2> HIDE DEF w, m, n
  <2>2. /\ IsList(Frags(w, at)) /\ Len(Frags(w, at)) = m + n
        /\ \A i \in 1..(m + n) : Frags(w, at)[i] = FragmentOf(w[i], at)
    BY <2>1, FragsIs
  <2> QED
    BY <2>2 DEF w
<1>4. /\ IsList(P \o N) /\ Len(P \o N) = m + n
      /\ \A i \in 1..m : (P \o N)[i] = P[i]
      /\ \A i \in 1..n : (P \o N)[m + i] = N[i]
  <2> HIDE DEF P, N, m, n
  <2>1. IsList(P) /\ IsList(N) /\ Len(P) = m /\ Len(N) = n
    BY <1>1
  <2>2. /\ IsList(P \o N) /\ Len(P \o N) = Len(P) + Len(N)
        /\ \A i \in 1..Len(P) : (P \o N)[i] = P[i]
        /\ \A i \in 1..Len(N) : (P \o N)[Len(P) + i] = N[i]
    BY <2>1, ConcatIs
  <2> QED
    BY <2>1, <2>2
<1> DEFINE R == P \o N
           u == s \o t
<1>5. Q = [i \in 1..(m + n) |-> Q[i]] /\ R = [i \in 1..(m + n) |-> R[i]]
  BY <1>3, <1>4, ListIs
<1>6. ASSUME NEW i \in 1..(m + n) PROVE Q[i] = R[i]
  <2>1. CASE i \in 1..m
    <3> HIDE DEF P, N, Q, R, u
    <3>1. Q[i] = FragmentOf(u[i], at) /\ u[i] = s[i]
      BY <1>2, <1>3, <2>1 DEF u
    <3>2. R[i] = P[i] /\ P[i] = FragmentOf(s[i], at)
      BY <1>1, <1>4, <2>1 DEF R
    <3> QED
      BY <3>1, <3>2
  <2>2. CASE i \notin 1..m
    <3> DEFINE j == i - m
    <3>1. j \in 1..n /\ m + j = i
      BY <1>1, <2>2
    <3> HIDE DEF P, N, Q, R, u, j
    <3>2. Q[i] = FragmentOf(u[i], at) /\ u[m + j] = t[j]
      BY <1>2, <1>3, <3>1 DEF u
    <3>3. R[m + j] = N[j] /\ N[j] = FragmentOf(t[j], at)
      BY <1>1, <1>4, <3>1 DEF R
    <3> QED
      BY <3>1, <3>2, <3>3
  <2> QED
    BY <2>1, <2>2
<1> HIDE DEF P, N, Q, R, m, n
<1>7. Q = R
  BY <1>5, <1>6
<1> QED
  BY <1>7 DEF P, N, Q, R

(* Those of a file's records                                               *)
LEMMA FileFrags ==
  ASSUME NEW raw, IsList(raw), NEW F, ToSet(raw) \subseteq F, NEW at, NEW t, NEW E
  PROVE  LET P == Frags(raw, at)
         IN  Queued(P, F, t) /\ Quiet(P, F) /\ Behind(P, E, F)
<1> DEFINE P == Frags(raw, at)
<1>1. /\ IsList(P) /\ Len(P) = Len(raw)
      /\ \A i \in 1..Len(raw) : P[i] = FragmentOf(raw[i], at)
  BY FragsIs
<1>2. ASSUME NEW i \in 1..Len(raw)
      PROVE  /\ ~OnlyLiveIn(P[i].id, F)
             /\ (P[i].aware => ZonedIn(F)) /\ (P[i].clash => PoisonedIn(F))
  <2>1. raw[i] \in F
    BY ListIs
  <2> DEFINE r == raw[i]
  <2>2. P[i] = FragmentOf(r, at)
    BY <1>1
  <2> HIDE DEF P, r
  <2>3. P[i].id = r.entity_id /\ P[i].aware = Norm!has_zone(r) /\ P[i].clash = r.clash
    BY <2>2 DEF FragmentOf
  <2>4. P[i].aware => r.aware
    BY <2>3 DEF Norm!has_zone
  <2> QED
    BY <2>1, <2>3, <2>4 DEF OnlyLiveIn, PoisonedIn, ZonedIn, Flawed, r
<1> HIDE DEF P
<1>3. Queued(P, F, t) /\ Quiet(P, F) /\ Behind(P, E, F)
  BY <1>1, <1>2 DEF Queued, Quiet, Behind, Made
<1> QED
  BY <1>3 DEF P

(* Those of the records that generic serving has so far                    *)
LEMMA ServingFrags ==
  ASSUME "generic_serving" \in AdapterNames, NEW raw \in Seq(Serving), NEW t \in Nat,
         NEW F, NEW E, Stored(E, F, t)
  PROVE  LET P == Frags(raw, t)
         IN  /\ Queued(P, F, t) /\ Quiet(P, F) /\ Behind(P, E, F)
             /\ \A i \in 1..Len(P) : P[i].at = t
<1> DEFINE P == Frags(raw, t)
<1>1. IsList(raw) /\ \A i \in 1..Len(raw) : raw[i] \in Serving
  BY ListOf
<1>2. /\ IsList(P) /\ Len(P) = Len(raw)
      /\ \A i \in 1..Len(raw) : P[i] = FragmentOf(raw[i], t)
  BY <1>1, FragsIs
<1>3. ASSUME NEW i \in 1..Len(raw)
      PROVE  /\ Reliable(P[i]) /\ P[i].at = t /\ P[i].aware = FALSE /\ P[i].clash = FALSE
             /\ P[i].id \in OtherIds /\ ~Tells(P[i])
  <2> DEFINE r == raw[i]
  <2>1. LiveRecord(r) /\ Silent(r) /\ r.observed_at = NoValue
    BY <1>1, ServingIs
  <2>2. P[i] = FragmentOf(r, t)
    BY <1>2
  <2> HIDE DEF r, P
  <2>3. LiveFragment(P[i]) /\ P[i].at = t
    BY <2>1, <2>2, FragmentIs
  <2>4. P[i].id \in OtherIds /\ ~Tells(P[i])
    BY <2>1, <2>2, SilentFragment
  <2>5. P[i].id \notin DeploymentIds /\ P[i].id \notin ServiceIds
    BY <2>4, NamesAssumption, NamesApart DEF ServiceIds
  <2> QED
    BY <2>3, <2>4, <2>5 DEF Reliable, LiveFragment
<1> HIDE DEF P
<1>4. Queued(P, F, t)
  <2>1. ASSUME NEW i \in 1..Len(P) PROVE Made(P[i], F, t)
    <3>1. Reliable(P[i]) /\ P[i].at = t /\ P[i].aware = FALSE /\ P[i].clash = FALSE
      BY <1>2, <1>3
    <3>2. P[i].at \in Nat /\ P[i].at <= t
      BY <3>1
    <3> QED
      BY <3>1, <3>2 DEF Made
  <2>2. ASSUME NEW i \in 1..Len(P), NEW j \in 1..Len(P) PROVE P[i].at <= P[j].at
    <3>1. P[i].at = t /\ P[j].at = t
      BY <1>2, <1>3
    <3> QED
      BY <3>1
  <2> QED
    BY <1>2, <2>1, <2>2 DEF Queued
<1>5. Quiet(P, F)
  BY <1>2, <1>3 DEF Quiet
<1>6. Behind(P, E, F)
  BY <1>2, <1>3 DEF Behind, Stored, Kept
<1> QED
  BY <1>2, <1>3, <1>4, <1>5, <1>6 DEF P

(* What Remember keeps of an answer                                        *)
Remembers(S, S2, a, mode, q, answer, t) ==
  \A e \in Ids :
    S2[e] = IF q.kind = "nodes" /\ \E i \in DOMAIN answer : answer[i].name = e
            THEN LET i == CHOOSE i \in DOMAIN answer : answer[i].name = e
                 IN  [usable |-> IF a = "kubernetes" THEN answer[i].ready
                                 ELSE Raw!Healthy(mode, answer[i]),
                      at |-> t]
            ELSE S[e]

OneOfEach(q, answer) ==
  q.kind = "nodes" =>
    \A i, j \in DOMAIN answer : answer[i].name = answer[j].name => i = j

(* A pair is a deployment and a service, and no node.                      *)
LEMMA PairIds ==
  ASSUME NEW frag, NEW twin, FragmentPair(frag, twin)
  PROVE  /\ frag.id \in DeploymentIds /\ frag.id \notin ServiceIds /\ frag.id \notin OtherIds
         /\ twin.id \in ServiceIds /\ twin.id \notin DeploymentIds /\ twin.id \notin OtherIds
         /\ Sound(frag) /\ Sound(twin) /\ frag.type = "deployment" /\ twin.type = "service"
<1> DEFINE d == frag.id
           s == twin.id
<1>1. /\ d \in DeploymentIds /\ s = "svc-" \o d
      /\ Sound(frag) /\ Sound(twin) /\ frag.type = "deployment" /\ twin.type = "service"
  BY DEF FragmentPair
<1> HIDE DEF d, s
<1>2. /\ d \notin OtherIds /\ s \notin OtherIds /\ s \in ServiceIds
      /\ s \notin DeploymentIds /\ d \notin ServiceIds
  BY <1>1, NamesApart
<1> QED
  BY <1>1, <1>2 DEF d, s

(* What an answer adds, as fragments                                       *)
LEMMA AddedFrags ==
  ASSUME NEW a, NEW mode, NEW q, NEW answer, IsList(answer), OneOfEach(q, answer),
         NEW t \in Nat, NEW new, Adds(new, a, mode, q, answer, t),
         NEW S, NEW S2, Remembers(S, S2, a, mode, q, answer, t)
  PROVE  Added(Frags(new, t), S, S2, t)
<1> DEFINE N == Frags(new, t)
           n == Len(new)
<1>1. IsList(new) /\ AllLive(new, t)
  BY DEF Adds
<1>2. IsList(N) /\ Len(N) = n /\ n \in Nat /\ \A i \in 1..n : N[i] = FragmentOf(new[i], t)
  BY <1>1, FragsIs
<1> HIDE DEF N, n
<1>3. ASSUME NEW i \in 1..n
      PROVE  /\ LiveRecord(new[i]) /\ N[i] = FragmentOf(new[i], t)
             /\ LiveFragment(N[i]) /\ N[i].at = t
  <2>1. LiveRecord(new[i]) /\ new[i].observed_at = t /\ N[i] = FragmentOf(new[i], t)
    BY <1>1, <1>2 DEF AllLive, n
  <2> QED
    BY <2>1, FragmentIs
<1>4. CASE q.kind = "nodes" /\ AllNodes(new, a, mode, answer)
  <2> DEFINE usable(i) == IF a = "kubernetes" THEN answer[i].ready
                          ELSE Raw!Healthy(mode, answer[i])
  <2>1. n = Len(answer) /\ DOMAIN answer = 1..n
    BY <1>4, ListIs DEF AllNodes, n
  <2>2. ASSUME NEW i \in 1..n
        PROVE  /\ N[i].id = answer[i].name /\ Tells(N[i]) /\ Sound(N[i])
               /\ N[i].fields["health_state"] = Raw!Health(usable(i))
    <3>1. TellsHealth(new[i], answer[i].name, usable(i))
      BY <1>4 DEF AllNodes, n
    <3> HIDE DEF usable
    <3> QED
      BY <1>3, <3>1, HealthFragment
  <2>3. ASSUME NEW i \in 1..n PROVE Reliable(N[i]) /\ N[i].id \in OtherIds
    <3>1. N[i].id \in OtherIds
      BY <2>2 DEF Tells
    <3>2. N[i].id \notin DeploymentIds /\ N[i].id \notin ServiceIds
      BY <3>1, NamesAssumption, NamesApart DEF ServiceIds
    <3>3. LiveFragment(N[i]) /\ Sound(N[i])
      BY <1>3, <2>2
    <3> QED
      BY <3>1, <3>2, <3>3 DEF Reliable
  <2>4. ASSUME NEW i \in 1..n PROVE N[i].id \notin DeploymentIds /\ N[i].id \notin ServiceIds
    BY <2>3, NamesAssumption, NamesApart DEF ServiceIds
  <2>5. ASSUME NEW e \in Ids
        PROVE  \/ Silence(N, e) /\ S2[e] = S[e]
               \/ Awaits(N, e, S2[e]) /\ S2[e].at = t
    <3>1. CASE \E i \in 1..n : answer[i].name = e
      <4> DEFINE j == CHOOSE i \in DOMAIN answer : answer[i].name = e
      <4>1. j \in 1..n /\ answer[j].name = e
        BY <2>1, <3>1
      <4>2. S2[e] = [usable |-> usable(j), at |-> t]
        BY <1>4, <2>1, <3>1 DEF Remembers
      <4> HIDE DEF j, usable
      <4>3. S2[e].at = t /\ S2[e].usable = usable(j)
        BY <4>2
      <4>4. Speaks(N, e, j) /\ Repeats(N[j], S2[e])
        BY <1>3, <2>2, <4>1, <4>3 DEF Speaks, Repeats
      <4>5. \A k \in 1..n : Speaks(N, e, k) => k = j
        BY <1>4, <2>1, <2>2, <4>1 DEF Speaks, OneOfEach
      <4>6. \A k \in 1..n : k > j => ~Speaks(N, e, k)
        BY <1>2, <4>1, <4>5
      <4> QED
        BY <1>2, <4>1, <4>3, <4>4, <4>6 DEF Awaits
    <3>2. CASE ~\E i \in 1..n : answer[i].name = e
      <4>1. S2[e] = S[e]
        BY <2>1, <3>2 DEF Remembers
      <4> QED
        BY <1>2, <2>2, <3>2, <4>1 DEF Silence, Speaks
    <3> QED
      BY <3>1, <3>2
  <2> QED
    BY <1>2, <1>3, <2>3, <2>4, <2>5 DEF Added, N
<1>5. ASSUME q.kind # "nodes", NEW e \in Ids PROVE S2[e] = S[e]
  BY <1>5 DEF Remembers
<1>6. CASE q.kind # "nodes" /\ AllSilent(new)
  <2>1. ASSUME NEW i \in 1..n
        PROVE  /\ Reliable(N[i]) /\ ~Tells(N[i])
               /\ N[i].id \notin DeploymentIds /\ N[i].id \notin ServiceIds
    <3>1. Silent(new[i])
      BY <1>6 DEF AllSilent, n
    <3>2. N[i].id \in OtherIds /\ ~Tells(N[i])
      BY <1>3, <3>1, SilentFragment
    <3>3. N[i].id \notin DeploymentIds /\ N[i].id \notin ServiceIds
      BY <3>2, NamesAssumption, NamesApart DEF ServiceIds
    <3> QED
      BY <1>3, <3>2, <3>3 DEF Reliable
  <2>2. \A e \in Ids : Silence(N, e) /\ S2[e] = S[e]
    BY <1>2, <1>5, <1>6, <2>1 DEF Silence, Speaks
  <2> QED
    BY <1>2, <1>3, <2>1, <2>2 DEF Added, N
<1>7. CASE q.kind # "nodes" /\ Pairs(new)
  <2>1. ASSUME NEW i \in 1..n
        PROVE  \/ i < n /\ FragmentPair(N[i], N[i + 1])
               \/ i > 1 /\ FragmentPair(N[i - 1], N[i])
    <3>1. CASE i < n /\ Pair(new[i], new[i + 1])
      <4>1. i + 1 \in 1..n
        BY <1>2, <3>1
      <4>2. /\ LiveRecord(new[i]) /\ N[i] = FragmentOf(new[i], t)
            /\ LiveRecord(new[i + 1]) /\ N[i + 1] = FragmentOf(new[i + 1], t)
        BY <1>3, <4>1
      <4> QED
        BY <3>1, <4>2, PairFragments
    <3>2. CASE i > 1 /\ Pair(new[i - 1], new[i])
      <4>1. i - 1 \in 1..n
        BY <1>2, <3>2
      <4>2. /\ LiveRecord(new[i]) /\ N[i] = FragmentOf(new[i], t)
            /\ LiveRecord(new[i - 1]) /\ N[i - 1] = FragmentOf(new[i - 1], t)
        BY <1>3, <4>1
      <4> QED
        BY <3>2, <4>2, PairFragments
    <3> QED
      BY <1>7, <3>1, <3>2 DEF Pairs, n
  <2>2. ASSUME NEW i \in 1..n
        PROVE  /\ Reliable(N[i]) /\ ~Tells(N[i])
               /\ N[i].id \in DeploymentIds => i < n /\ FragmentPair(N[i], N[i + 1])
               /\ N[i].id \in ServiceIds => i > 1 /\ FragmentPair(N[i - 1], N[i])
    <3>1. CASE i < n /\ FragmentPair(N[i], N[i + 1])
      BY <1>3, <3>1, PairIds DEF Reliable, Tells
    <3>2. CASE i > 1 /\ FragmentPair(N[i - 1], N[i])
      BY <1>3, <3>2, PairIds DEF Reliable, Tells
    <3> QED
      BY <2>1, <3>1, <3>2
  <2>3. \A e \in Ids : Silence(N, e) /\ S2[e] = S[e]
    BY <1>2, <1>5, <1>7, <2>2 DEF Silence, Speaks
  <2> QED
    BY <1>2, <1>3, <2>2, <2>3 DEF Added, N
<1> QED
  BY <1>4, <1>6, <1>7 DEF Adds

-----------------------------------------------------------------------------
(* A snapshot: what an adapter may hold between two queries *)

Holding(a, raw, F) ==
  /\ IsList(raw)
  /\ a = "replay" => ToSet(raw) \subseteq F
  /\ a = "generic_serving" => raw \in Seq(Serving)
  /\ a \notin {"replay", "generic_serving"} =>
       \A i \in 1..Len(raw) : LiveRecord(raw[i]) /\ raw[i].observed_at \in Nat

(* The answers count only by what they say of the ids there are.           *)
LEMMA SaidSame ==
  ASSUME NEW P, NEW E, NEW F, NEW t, NEW S, Consistent(P, E, F, t, S),
         NEW S2, \A e \in Ids : S2[e] = S[e]
  PROVE  Consistent(P, E, F, t, S2)
BY DEF Consistent, Heeded

(* The clock ticks, and records without a time are to get another one.     *)
LEMMA LaterFrags ==
  ASSUME NEW a \in AdapterNames, NEW raw, NEW F, Holding(a, raw, F),
         NEW E, NEW t \in Nat, NEW S, Consistent(Frags(raw, t), E, F, t, S),
         NEW t2 \in Nat, t <= t2
  PROVE  Consistent(Frags(raw, t2), E, F, t2, S)
<1> DEFINE P == Frags(raw, t)
           Q == Frags(raw, t2)
<1>1. Stored(E, F, t) /\ E \in [Ids -> Entity \cup {Absent}]
  BY DEF Consistent, Stored
<1>2. Consistent(P, E, F, t2, S)
  <2> HIDE DEF P
  <2>1. \A e \in Ids : SameEntity(E[e], E[e])
    BY DEF SameEntity
  <2>2. Consistent(P, E, F, t, S)
    BY DEF P
  <2> QED
    BY <1>1, <2>1, <2>2, Later
<1>3. Stored(E, F, t2)
  BY <1>2 DEF Consistent
<1>4. CASE a = "replay"
  <2>1. Quiet(P, F)
    BY <1>4, FileFrags DEF Holding
  <2>2. Queued(Q, F, t2) /\ Quiet(Q, F) /\ Behind(Q, E, F)
    BY <1>4, FileFrags DEF Holding
  <2> HIDE DEF P, Q
  <2>3. Consistent(Q, E, F, t2, S)
    BY <1>2, <2>1, <2>2, QuietStep
  <2> QED
    BY <2>3 DEF Q
<1>5. CASE a = "generic_serving"
  <2>1. raw \in Seq(Serving) /\ "generic_serving" \in AdapterNames
    BY <1>5 DEF Holding
  <2>2. Quiet(P, F)
    BY <1>1, <2>1, ServingFrags
  <2>3. Queued(Q, F, t2) /\ Quiet(Q, F) /\ Behind(Q, E, F)
    BY <1>3, <2>1, ServingFrags
  <2> HIDE DEF P, Q
  <2>4. Consistent(Q, E, F, t2, S)
    BY <1>2, <2>2, <2>3, QuietStep
  <2> QED
    BY <2>4 DEF Q
<1>6. CASE a \notin {"replay", "generic_serving"}
  <2>1. IsList(raw) /\ \A i \in 1..Len(raw) : raw[i].observed_at \in Nat
    BY <1>6 DEF Holding
  <2>2. DOMAIN raw = 1..Len(raw)
    BY <2>1, ListIs
  <2>3. ASSUME NEW i \in DOMAIN raw PROVE FragmentOf(raw[i], t) = FragmentOf(raw[i], t2)
    <3>1. raw[i].observed_at # NoValue
      BY <2>1, <2>2, WordsAssumption
    <3>2. Norm!observed_at(raw[i], t) = Norm!observed_at(raw[i], t2)
      BY <3>1 DEF Norm!observed_at
    <3> QED
      BY <3>2 DEF FragmentOf
  <2>4. P = Q
    BY <2>3 DEF Frags
  <2> QED
    BY <1>2, <2>4
<1> QED
  BY <1>4, <1>5, <1>6

(* An answer, or the part of it that was taken, becomes fragments behind   *)
(* those there are; a file takes the place of the records there were.      *)
LEMMA TakeStep ==
  ASSUME NEW a \in AdapterNames, NEW mode, NEW q \in ToSet(Queries(a)),
         NEW part, Heard(a, q, part), OneOfEach(q, part),
         NEW raw, NEW F, Holding(a, raw, F),
         NEW E, NEW t \in Nat, NEW S, Consistent(Frags(raw, t), E, F, t, S),
         NEW S2, Remembers(S, S2, a, mode, q, part, t),
         NEW F2, F2 = F \cup IF q.kind = "file" THEN ToSet(part) ELSE {},
         NEW raw2, raw2 = Records(a, mode, q, part, raw, t)
  PROVE  Holding(a, raw2, F2) /\ Consistent(Frags(raw2, t), E, F2, t, S2)
<1> DEFINE P == Frags(raw, t)
           Q == Frags(raw2, t)
<1>1. Stored(E, F, t) /\ Consistent(P, E, F, t, S) /\ F \subseteq F2
  BY DEF Consistent
<1>2. ASSUME q.kind # "nodes" PROVE \A e \in Ids : S2[e] = S[e]
  BY <1>2 DEF Remembers
<1>3. ASSUME q.kind # "file" PROVE F2 = F
  BY <1>3
<1>4. /\ a = "replay" => q.kind = "file"
      /\ a # "replay" => q.kind # "file"
      /\ a = "generic_serving" => q.kind = "metric"
  <2>1. a \in {"kubernetes", "slurm", "replay"} \cup MetricAdapters
    BY AnswersAssumption
  <2>2. "generic_serving" \in MetricAdapters
    BY DEF MetricAdapters
  <2> QED
    BY <2>1, <2>2, QueriesAre
<1>5. CASE a = "replay"
  <2>1. raw2 = part /\ IsList(raw2) /\ ToSet(raw2) \subseteq F2
    BY <1>4, <1>5, RecordsAre DEF Heard
  <2>2. Quiet(P, F)
    BY <1>5, FileFrags DEF Holding
  <2>3. Queued(Q, F2, t) /\ Quiet(Q, F2) /\ Behind(Q, E, F2)
    BY <2>1, FileFrags
  <2>4. Holding(a, raw2, F2)
    BY <1>5, <2>1 DEF Holding
  <2> HIDE DEF P, Q
  <2>5. Consistent(Q, E, F2, t, S)
    BY <1>1, <2>2, <2>3, QuietStep
  <2>6. Consistent(Q, E, F2, t, S2)
    BY <1>2, <1>4, <1>5, <2>5, SaidSame
  <2> QED
    BY <2>4, <2>6 DEF Q
<1>6. CASE a = "generic_serving"
  <2>1. raw \in Seq(Serving) /\ "generic_serving" \in AdapterNames /\ F2 = F
    BY <1>3, <1>4, <1>6 DEF Holding
  <2>2. raw2 \in Seq(Serving)
    BY <1>6, <2>1, RecordsAre
  <2>3. IsList(raw2)
    BY <2>2, ListOf
  <2>4. Quiet(P, F)
    BY <1>1, <2>1, ServingFrags
  <2>5. Queued(Q, F, t) /\ Quiet(Q, F) /\ Behind(Q, E, F)
    BY <1>1, <2>1, <2>2, ServingFrags
  <2>6. Holding(a, raw2, F2)
    BY <1>6, <2>2, <2>3 DEF Holding
  <2> HIDE DEF P, Q
  <2>7. Consistent(Q, E, F, t, S)
    BY <1>1, <2>4, <2>5, QuietStep
  <2>8. Consistent(Q, E, F, t, S2)
    BY <1>2, <1>4, <1>6, <2>7, SaidSame
  <2> QED
    BY <2>1, <2>6, <2>8 DEF Q
<1>7. CASE a \notin {"replay", "generic_serving"}
  <2>1. PICK new : raw2 = raw \o new /\ Adds(new, a, mode, q, part, t)
    BY <1>7, RecordsAre
  <2>2. F2 = F
    BY <1>3, <1>4, <1>7
  <2>3. /\ IsList(raw)
        /\ \A i \in 1..Len(raw) : LiveRecord(raw[i]) /\ raw[i].observed_at \in Nat
    BY <1>7 DEF Holding
  <2>4. /\ IsList(new)
        /\ \A i \in 1..Len(new) : LiveRecord(new[i]) /\ new[i].observed_at \in Nat
    BY <2>1 DEF Adds, AllLive
  <2>5. Holding(a, raw2, F2)
    <3>1. /\ IsList(raw2) /\ Len(raw2) = Len(raw) + Len(new)
          /\ Len(raw) \in Nat /\ Len(new) \in Nat
          /\ \A i \in 1..Len(raw) : raw2[i] = raw[i]
          /\ \A i \in 1..Len(new) : raw2[Len(raw) + i] = new[i]
      BY <2>1, <2>3, <2>4, ConcatIs
    <3>2. ASSUME NEW i \in 1..Len(raw2)
          PROVE  LiveRecord(raw2[i]) /\ raw2[i].observed_at \in Nat
      <4>1. CASE i \in 1..Len(raw)
        BY <2>3, <3>1, <4>1
      <4>2. CASE i \notin 1..Len(raw)
        <5>1. i - Len(raw) \in 1..Len(new) /\ Len(raw) + (i - Len(raw)) = i
          BY <3>1, <4>2
        <5> QED
          BY <2>4, <3>1, <5>1
      <4> QED
        BY <4>1, <4>2
    <3> QED
      BY <1>7, <3>1, <3>2 DEF Holding
  <2>6. Added(Frags(new, t), S, S2, t)
    BY <2>1, AddedFrags DEF Heard
  <2>7. Q = P \o Frags(new, t)
    BY <2>1, <2>3, <2>4, FragsConcat
  <2> HIDE DEF P, Q
  <2>8. Consistent(Q, E, F, t, S2)
    BY <1>1, <2>6, <2>7, AppendStep
  <2> QED
    BY <2>2, <2>5, <2>8 DEF Q
<1> QED
  BY <1>5, <1>6, <1>7

(* The normalizer takes what live adapters report, with a time.            *)
LEMMA Accepted ==
  ASSUME NEW r, LiveRecord(r), r.observed_at \in Nat
  PROVE  Norm!Accepts(r)
<1>1. /\ r.source_type \in LiveSources /\ r.entity_type \in Norm!EntityType
      /\ r.strings = TRUE
      /\ r.entity_id \in OtherIds \cup DeploymentIds \cup ServiceIds
  BY DEF LiveRecord
<1>2. r.source_type # NoValue /\ r.entity_type # NoValue
  BY <1>1, WordsAssumption
<1>3. r.entity_id # NoValue
  <2>1. NoValue \notin DeploymentIds \cup OtherIds
    BY NamesAssumption
  <2>2. NoValue \notin ServiceIds
    BY NamesAssumption DEF ServiceIds
  <2> QED
    BY <1>1, <2>1, <2>2
<1>4. r.observed_at # BadTime
  BY WordsAssumption
<1> QED
  BY <1>1, <1>2, <1>3, <1>4 DEF Norm!Accepts

(* Normalization of what an adapter holds changes the fragments to come    *)
(* only if it is a file that it holds.                                     *)
LEMMA NormalizeStep ==
  ASSUME NEW a \in AdapterNames, NEW raw, NEW F, Holding(a, raw, F),
         NEW E, NEW t \in Nat, NEW S, Consistent(Frags(raw, t), E, F, t, S),
         NEW kept, kept = Norm!normalize(IF a = "generic_serving"
                                         THEN Raw!ServingRecords(raw, t) ELSE raw)
  PROVE  Consistent(Frags(kept, t), E, F, t, S)
<1>1. CASE a = "replay"
  <2>1. IsList(raw) /\ ToSet(raw) \subseteq F /\ kept = Norm!normalize(raw)
    BY <1>1 DEF Holding
  <2>2. IsList(kept) /\ \A i \in 1..Len(kept) : kept[i] \in ToSet(raw)
    BY <2>1, NormalizeIs
  <2>3. ToSet(kept) \subseteq F
    BY <2>1, <2>2, ListIs
  <2>4. Quiet(Frags(raw, t), F)
    BY <2>1, FileFrags
  <2>5. /\ Queued(Frags(kept, t), F, t) /\ Quiet(Frags(kept, t), F)
        /\ Behind(Frags(kept, t), E, F)
    BY <2>2, <2>3, FileFrags
  <2> QED
    BY <2>4, <2>5, QuietStep
<1>2. CASE a = "generic_serving"
  <2> DEFINE taken == Raw!ServingRecords(raw, t)
             n == Len(raw)
  <2>1. /\ raw \in Seq(Serving) /\ "generic_serving" \in AdapterNames
        /\ kept = Norm!normalize(taken)
    BY <1>2 DEF Holding
  <2>2. IsList(raw) /\ n \in Nat /\ DOMAIN raw = 1..n /\ \A i \in 1..n : raw[i] \in Serving
    BY <2>1, ListOf, ListIs
  <2>3. taken = [i \in 1..n |-> Raw!ServingRecord(raw[i].entity_id, raw[i].fields, t)]
    BY <2>2 DEF Raw!ServingRecords
  <2>4. \A i \in 1..n : taken[i] = Raw!ServingRecord(raw[i].entity_id, raw[i].fields, t)
    BY <2>3
  <2>5. taken = [i \in 1..n |-> taken[i]]
    BY <2>3
  <2> HIDE DEF taken, n
  <2>6. IsList(taken) /\ Len(taken) = n
    BY <2>2, <2>5, IsListIf
  <2>7. ASSUME NEW i \in 1..n
        PROVE  Norm!Accepts(taken[i]) /\ FragmentOf(taken[i], t) = FragmentOf(raw[i], t)
    <3> DEFINE r == raw[i]
               u == taken[i]
    <3>1. /\ LiveRecord(r) /\ r.observed_at = NoValue
          /\ r = Raw!ServingRecord(r.entity_id, r.fields, NoValue)
      BY <2>1, <2>2, ServingIs
    <3>2. u = Raw!ServingRecord(r.entity_id, r.fields, t)
      BY <2>4
    <3>3. r.entity_id \in OtherIds \cup DeploymentIds \cup ServiceIds
      BY <3>1 DEF LiveRecord
    <3> HIDE DEF r, u
    <3>4. /\ LiveRecord(u) /\ u.fields = r.fields /\ u.entity_id = r.entity_id
          /\ u.observed_at = t
      <4>1. /\ "generic_serving" \in LiveSources /\ "service" \in Norm!EntityType
            /\ "kubernetes" = DomainOf("generic_serving")
        BY DEF LiveSources, Norm!EntityType, DomainOf
      <4> QED
        BY <3>2, <3>3, <4>1, RecordIs DEF Raw!ServingRecord
    <3>5. r.source_type = u.source_type /\ r.entity_type = u.entity_type
      BY <3>1, <3>2 DEF Raw!ServingRecord, Raw!Record
    <3>6. Norm!observed_at(u, t) = t /\ Norm!observed_at(r, t) = t
      BY <3>1, <3>4 DEF Norm!observed_at
    <3>7. /\ Norm!has_zone(u) = FALSE /\ Norm!has_zone(r) = FALSE
          /\ u.clash = FALSE /\ r.clash = FALSE
      BY <3>1, <3>4 DEF LiveRecord, Norm!has_zone
    <3>8. Norm!scheduler_domain(u) = Norm!scheduler_domain(r)
      BY <3>1, <3>4, <3>5 DEF LiveRecord
    <3>9. FragmentOf(u, t) = FragmentOf(r, t)
      BY <3>4, <3>5, <3>6, <3>7, <3>8 DEF FragmentOf
    <3>10. Norm!Accepts(u)
      BY <3>4, Accepted
    <3> QED
      BY <3>9, <3>10 DEF r, u
  <2>8. kept = taken
    BY <2>1, <2>6, <2>7, NormalizeIs
  <2>9. DOMAIN taken = 1..n
    BY <2>6, ListIs
  <2>10. Frags(taken, t) = Frags(raw, t)
    BY <2>2, <2>7, <2>9 DEF Frags
  <2> QED
    BY <2>8, <2>10
<1>3. CASE a \notin {"replay", "generic_serving"}
  <2>1. /\ IsList(raw) /\ kept = Norm!normalize(raw)
        /\ \A i \in 1..Len(raw) : LiveRecord(raw[i]) /\ raw[i].observed_at \in Nat
    BY <1>3 DEF Holding
  <2>2. \A i \in 1..Len(raw) : Norm!Accepts(raw[i])
    BY <2>1, Accepted
  <2>3. kept = raw
    BY <2>1, <2>2, NormalizeIs
  <2> QED
    BY <2>3
<1> QED
  BY <1>1, <1>2, <1>3

-----------------------------------------------------------------------------
(* The inductive invariant: the fragments that are pending, those the      *)
(* records of an unfinished snapshot will become included, are consistent  *)
(* with the bus, the files and the answers.                                *)
Pending == IF adapter = Idle THEN fragments ELSE Frags(raw_records, now)

AtWork ==
  /\ now \in Nat
  /\ ~putting => fragments = <<>>
  /\ adapter # Idle =>
       /\ ~putting /\ adapter \in AdapterNames
       /\ IsList(queries) /\ ToSet(queries) \subseteq ToSet(Queries(adapter))
       /\ Holding(adapter, raw_records, files)

CollectorInv ==
  /\ AtWork
  /\ Consistent(Pending, entities, files, now, said)
  /\ returned.outcome = "raised" => PoisonedIn(files)

(* No records, no fragments.                                               *)
LEMMA NoFrags ==
  ASSUME NEW t
  PROVE  Frags(<<>>, t) = <<>> /\ IsList(<<>>)
<1>1. IsList(<<>>) /\ Len(<<>>) = 0
  BY DEF IsList, ToSet
<1>2. IsList(Frags(<<>>, t)) /\ Len(Frags(<<>>, t)) = 0
  BY <1>1, FragsIs
<1> QED
  BY <1>1, <1>2, ListIs

(* The empty bus is consistent.                                            *)
LEMMA InitConsistent == CollectorInit => CollectorInv
<1> SUFFICES ASSUME CollectorInit PROVE CollectorInv
  OBVIOUS
<1> USE DEF CollectorInit, Init
<1>1. Pending = <<>> /\ AtWork /\ returned.outcome # "raised"
  BY DEF Pending, AtWork
<1>2. \A e \in Ids : entities[e] = Absent /\ said[e] = NoValue
  OBVIOUS
<1>3. Queued(<<>>, files, now) /\ Behind(<<>>, entities, files)
  BY NoFrags DEF Queued, Behind
<1>4. Stored(entities, files, now)
  BY <1>2 DEF Stored
<1>5. Heeded(<<>>, entities, files, said)
  BY <1>2 DEF Heeded
<1>6. AllCoupled(<<>>, entities, files)
  BY <1>2 DEF AllCoupled, Coupled, Whole
<1> QED
  BY <1>1, <1>3, <1>4, <1>5, <1>6 DEF CollectorInv, Consistent

(* A snapshot begins with no records (base.py, snapshot).                  *)
LEMMA SnapshotConsistent ==
  ASSUME CollectorInv, NEW a \in AdapterNames, Snapshot(a)
  PROVE  CollectorInv'
<1>1. /\ Pending = <<>> /\ fragments = <<>> /\ ~putting
      /\ entities' = entities /\ files' = files /\ now' = now /\ said' = said
      /\ returned' = returned /\ putting' = putting /\ fragments' = fragments
      /\ adapter' = a /\ raw_records' = <<>> /\ queries' = Queries(a)
  BY DEF CollectorInv, AtWork, Snapshot, Pending, vars, dict
<1>2. Pending' = <<>>
  BY <1>1, NoFrags DEF Pending
<1>3. IsList(Queries(a))
  BY QueriesAre
<1>4. Holding(a, <<>>, files)
  <2>1. <<>> \in Seq(Serving) /\ ToSet(<<>>) = {} /\ Len(<<>>) = 0
    BY DEF ToSet
  <2> QED
    BY <2>1, NoFrags DEF Holding
<1>5. AtWork'
  BY <1>1, <1>3, <1>4 DEF CollectorInv, AtWork
<1> QED
  BY <1>1, <1>2, <1>5 DEF CollectorInv

(* A query that failed is dropped, or with it those after it.              *)
LEMMA FailsConsistent ==
  ASSUME CollectorInv, Fails \/ RestDown
  PROVE  CollectorInv'
<1>1. /\ adapter # Idle /\ queries # <<>>
      /\ queries' = Tail(queries) \/ queries' = <<>>
      /\ UNCHANGED <<vars, slurm_mode, adapter, raw_records, fragments, said, files>>
  BY DEF Fails, RestDown, Asks
<1>2. /\ Pending' = Pending /\ entities' = entities /\ files' = files /\ now' = now
      /\ said' = said /\ returned' = returned /\ putting' = putting
      /\ fragments' = fragments /\ adapter' = adapter /\ raw_records' = raw_records
  BY <1>1 DEF Pending, vars, dict
<1>3. IsList(queries') /\ ToSet(queries') \subseteq ToSet(queries)
  <2>1. IsList(queries)
    BY <1>1 DEF CollectorInv, AtWork
  <2>2. ToSet(<<>>) = {}
    BY DEF ToSet
  <2> QED
    BY <1>1, <2>1, <2>2, TailIs, NoFrags
<1>4. AtWork'
  BY <1>1, <1>2, <1>3 DEF CollectorInv, AtWork
<1> QED
  BY <1>2, <1>4 DEF CollectorInv

(* An adapter takes an answer, or what comes before an item it raises on.  *)
LEMMA HearsConsistent ==
  ASSUME CollectorInv, Asks, NEW part, Heard(adapter, Head(queries), part),
         OneOfEach(Head(queries), part), Take(Head(queries), part),
         Remember(Head(queries), part), queries' = Tail(queries) \/ queries' = <<>>,
         UNCHANGED <<vars, slurm_mode, adapter, fragments>>
  PROVE  CollectorInv'
<1> DEFINE q == Head(queries)
<1>1. /\ adapter # Idle /\ queries # <<>> /\ AtWork
      /\ adapter \in AdapterNames /\ IsList(queries) /\ ~putting
      /\ Holding(adapter, raw_records, files) /\ now \in Nat
      /\ q \in ToSet(queries) /\ ToSet(queries) \subseteq ToSet(Queries(adapter))
  BY TailIs DEF CollectorInv, AtWork, Asks
<1>2. /\ entities' = entities /\ now' = now /\ returned' = returned /\ putting' = putting
      /\ fragments' = fragments /\ adapter' = adapter
  BY DEF vars, dict
<1>3. IsList(queries') /\ ToSet(queries') \subseteq ToSet(queries)
  <2>1. ToSet(<<>>) = {}
    BY DEF ToSet
  <2> QED
    BY <1>1, <2>1, TailIs, NoFrags
<1>4. Consistent(Frags(raw_records, now), entities, files, now, said)
  BY <1>1 DEF CollectorInv, Pending
<1>5. Remembers(said, said', adapter, slurm_mode, q, part, now)
  BY DEF Remember, Remembers, Usable
<1>6. /\ raw_records' = Records(adapter, slurm_mode, q, part, raw_records, now)
      /\ files' = files \cup IF q.kind = "file" THEN ToSet(part) ELSE {}
  BY DEF Take, Remember
<1> HIDE DEF q
<1>7. /\ Holding(adapter, raw_records', files')
      /\ Consistent(Frags(raw_records', now), entities, files', now, said')
  <2>1. Heard(adapter, q, part) /\ OneOfEach(q, part) /\ q \in ToSet(Queries(adapter))
    BY <1>1 DEF q
  <2> QED
    BY <1>1, <1>4, <1>5, <1>6, <2>1, TakeStep
<1>8. Pending' = Frags(raw_records', now)
  BY <1>1, <1>2 DEF Pending
<1>9. AtWork'
  BY <1>1, <1>2, <1>3, <1>7 DEF AtWork
<1>10. returned'.outcome = "raised" => PoisonedIn(files')
  BY <1>2, <1>6, MoreFiles DEF CollectorInv
<1> QED
  BY <1>2, <1>7, <1>8, <1>9, <1>10 DEF CollectorInv

(* An answer is taken as a whole, or up to an item that raises             *)
(* (slurm.py:124-164, kubernetes.py:70-127, prometheus.py:60-68).          *)
LEMMA AnswerConsistent ==
  ASSUME CollectorInv, Asks, NEW answer \in Answers(adapter, Head(queries)),
         Answer(answer) \/ BreaksOff(answer)
  PROVE  CollectorInv'
<1> DEFINE q == Head(queries)
<1>1. /\ adapter \in AdapterNames /\ q \in ToSet(Queries(adapter))
  BY TailIs DEF CollectorInv, AtWork, Asks
<1>2. IsList(answer) /\ OneOfEach(q, answer)
  BY <1>1, AnswersAssumption DEF IsList, OneOfEach
<1>3. ToSet(answer) \subseteq Items(adapter, q)
  BY DEF Items
<1>4. CASE Answer(answer)
  <2>1. Heard(adapter, q, answer)
    BY <1>2, <1>3 DEF Heard
  <2> QED
    BY <1>2, <1>4, <2>1, HearsConsistent DEF Answer
<1>5. CASE BreaksOff(answer)
  <2>1. PICK i \in DOMAIN answer :
               /\ Take(q, SubSeq(answer, 1, i - 1))
               /\ Remember(q, SubSeq(answer, 1, i - 1))
    BY <1>5 DEF BreaksOff
  <2> DEFINE before == SubSeq(answer, 1, i - 1)
  <2>2. /\ IsList(before) /\ Len(before) = i - 1 /\ ToSet(before) \subseteq ToSet(answer)
        /\ \A j \in 1..(i - 1) : before[j] = answer[j]
    BY <1>2, BeforeIs
  <2>3. Take(q, before) /\ Remember(q, before)
    BY <2>1
  <2> HIDE DEF before
  <2>4. DOMAIN before = 1..(i - 1) /\ \A j \in 1..(i - 1) : j \in DOMAIN answer
    <3>1. DOMAIN answer = 1..Len(answer) /\ Len(answer) \in Nat
      BY <1>2, ListIs
    <3>2. DOMAIN before = 1..(i - 1)
      BY <2>2, ListIs
    <3> QED
      BY <3>1, <3>2
  <2>5. OneOfEach(q, before)
    BY <1>2, <2>2, <2>4 DEF OneOfEach
  <2>6. Heard(adapter, q, before)
    BY <1>3, <2>2 DEF Heard
  <2>7. /\ queries' = Tail(queries) \/ queries' = <<>>
        /\ UNCHANGED <<vars, slurm_mode, adapter, fragments>>
    BY <1>5 DEF BreaksOff
  <2> QED
    BY <2>3, <2>5, <2>6, <2>7, HearsConsistent
<1> QED
  BY <1>4, <1>5

(* The records of a snapshot become the batch (normalizer.py:56-104).      *)
LEMMA NormalizeConsistent ==
  ASSUME CollectorInv, Normalize
  PROVE  CollectorInv'
<1> DEFINE kept == Norm!normalize(IF adapter = "generic_serving"
                                  THEN Raw!ServingRecords(raw_records, now)
                                  ELSE raw_records)
<1>1. /\ adapter # Idle /\ adapter \in AdapterNames /\ now \in Nat
      /\ Holding(adapter, raw_records, files)
      /\ Consistent(Frags(raw_records, now), entities, files, now, said)
  BY DEF Normalize, CollectorInv, AtWork, Pending
<1>2. /\ entities' = entities /\ now' = now /\ returned' = returned /\ putting'
      /\ files' = files /\ said' = said /\ adapter' = Idle
  BY DEF Normalize, PutBegin, dict
<1>3. fragments' = Frags(kept, now)
  BY DEF Normalize, Frags
<1> HIDE DEF kept
<1>4. Consistent(Frags(kept, now), entities, files, now, said)
  BY <1>1, NormalizeStep DEF kept
<1>5. Pending' = Frags(kept, now)
  BY <1>2, <1>3 DEF Pending
<1>6. AtWork'
  BY <1>1, <1>2 DEF AtWork
<1> QED
  BY <1>2, <1>4, <1>5, <1>6 DEF CollectorInv

(* A fragment that is handled without an exception is taken.               *)
LEMMA PutTakes ==
  ASSUME now \in Nat, entities \in [Ids -> Entity \cup {Absent}], NEW frag,
         PutCreate(frag) \/ PutCreateFails(frag) \/ PutSkip(frag) \/ PutMerge(frag)
  PROVE  /\ Takes1(entities, entities', frag)
         /\ putting' = putting /\ now' = now /\ returned' = returned
<1> DEFINE e == frag.id
           x == entities[frag.id]
<1>1. frag \in Fragment /\ e \in Ids /\ Known[frag.type] \subseteq Fields
  <2>1. frag \in Fragments
    BY DEF PutCreate, PutCreateFails, PutSkip, PutMerge, Merge, Takes
  <2>2. frag \in Fragment
    BY <2>1, StateBusAssumption
  <2>3. frag.type \in Types /\ frag.id \in Ids
    BY <2>2 DEF Fragment
  <2> QED
    BY <2>2, <2>3, StateBusAssumption
<1>2. putting' = putting /\ now' = now /\ returned' = returned
  BY DEF PutCreate, PutCreateFails, PutSkip, PutMerge, Finish
<1>3. CASE PutCreate(frag)
  <2> DEFINE y == Created(frag)
  <2>1. x = Absent /\ entities' = [entities EXCEPT ![e] = y]
    BY <1>3 DEF PutCreate, Present
  <2>2. y \in Entity /\ y # Absent
    BY <1>1, CreatedType, StateBusAssumption
  <2>3. /\ y.at = frag.at /\ y.source = frag.source /\ y.aware = frag.aware
        /\ y.type = frag.type /\ y.fields = Overlay(y.type, Blank, frag)
    BY DEF Created
  <2>4. y.type \in Types
    BY <2>2 DEF Entity
  <2> HIDE DEF y
  <2>5. Written(x, y, frag)
    BY <2>1, <2>2, <2>3, <2>4 DEF Written
  <2>6. /\ entities'[e] = y /\ entities' \in [Ids -> Entity \cup {Absent}]
        /\ \A o \in Ids : o # e => entities'[o] = entities[o]
    BY <1>1, <2>1, <2>2
  <2> QED
    BY <1>1, <1>2, <2>5, <2>6 DEF Takes1
<1>4. CASE PutCreateFails(frag)
  <2>1. x = Absent /\ entities' = entities /\ ~Valid(frag)
    BY <1>4 DEF PutCreateFails, Present, dict
  <2>2. ~Sound(frag)
    BY <1>1, <2>1 DEF Valid, Sound
  <2> QED
    BY <1>1, <1>2, <2>1, <2>2 DEF Takes1
<1>5. CASE PutSkip(frag)
  <2>1. x # Absent /\ entities' = entities /\ frag.at < x.at
    BY <1>5 DEF PutSkip, Comparable, Present, Stale, dict
  <2> QED
    BY <1>1, <1>2, <2>1 DEF Takes1
<1>6. CASE PutMerge(frag)
  <2> DEFINE y == Merged(x, frag)
  <2>1. /\ x # Absent /\ entities' = [entities EXCEPT ![e] = y]
        /\ frag.aware = x.aware /\ ~(frag.at < x.at)
    BY <1>6 DEF PutMerge, Merge, Comparable, Present, Stale
  <2>2. x \in Entity
    BY <1>1, <2>1
  <2>3. y \in Entity /\ y # Absent
    BY <1>1, <2>2, MergedType, StateBusAssumption
  <2>4. /\ y.at = frag.at /\ y.source = frag.source /\ y.aware = x.aware
        /\ y.type = x.type /\ y.fields = Overlay(y.type, x.fields, frag)
    BY <2>2 DEF Merged, Rewritten, Entity
  <2>5. y.type \in Types
    BY <2>3 DEF Entity
  <2> HIDE DEF y
  <2>6. Written(x, y, frag)
    BY <2>1, <2>3, <2>4, <2>5 DEF Written
  <2>7. /\ entities'[e] = y /\ entities' \in [Ids -> Entity \cup {Absent}]
        /\ \A o \in Ids : o # e => entities'[o] = entities[o]
    BY <1>1, <2>1, <2>3
  <2> QED
    BY <1>1, <1>2, <2>6, <2>7 DEF Takes1
<1> QED
  BY <1>3, <1>4, <1>5, <1>6

(* One that raises has a time with a zone or a key that clashes, or meets  *)
(* an entity that has a zone.                                              *)
LEMMA PutRaises ==
  ASSUME now \in Nat, NEW F, Stored(entities, F, now), NEW frag, Made(frag, F, now),
         PutMergeRaises(frag) \/ PutMergeClash(frag) \/ PutCompareRaises(frag)
  PROVE  /\ PoisonedIn(F) /\ entities' \in [Ids -> Entity \cup {Absent}]
         /\ \A e \in Ids : entities'[e] # Absent /\ entities'[e].aware => ZonedIn(F)
         /\ ~putting' /\ now' = now
<1>1. /\ frag \in Fragments /\ frag \in Fragment /\ frag.id \in Ids
      /\ entities[frag.id] # Absent /\ frag.aware \in BOOLEAN
  <2>1. frag \in Fragments /\ entities[frag.id] # Absent
    BY DEF PutMergeRaises, PutMergeClash, PutCompareRaises, Merge, Comparable, Takes, Present
  <2>2. frag \in Fragment
    BY <2>1, StateBusAssumption
  <2> QED
    BY <2>1, <2>2 DEF Fragment
<1>2. ~putting' /\ now' = now
  BY DEF PutMergeRaises, PutMergeClash, PutCompareRaises, Raise
<1>3. entities \in [Ids -> Entity \cup {Absent}]
  BY DEF Stored
<1>4. \A e \in Ids : entities[e] # Absent /\ entities[e].aware => ZonedIn(F)
  BY DEF Stored, Kept
<1>5. entities[frag.id].aware \in BOOLEAN
  BY <1>1, <1>3 DEF Entity
<1>6. ZonedIn(F) => PoisonedIn(F)
  BY DEF ZonedIn, PoisonedIn, Flawed
<1>7. CASE PutMergeRaises(frag) \/ PutMergeClash(frag)
  <2>1. PoisonedIn(F)
    BY <1>6, <1>7 DEF PutMergeRaises, PutMergeClash, Made
  <2>2. Merge(frag) \/ PutMergeClash(frag)
    BY <1>7 DEF PutMergeRaises
  <2>3. \E g, y : WritesAs(frag, g, y)
    BY <1>1, <1>3, <2>2, MergeWrites
  <2>4. PICK g, y : WritesAs(frag, g, y)
    BY <2>3
  <2>5. /\ entities' = [entities EXCEPT ![frag.id] = y]
        /\ y \in Entity /\ y.aware = entities[frag.id].aware
    BY <2>4 DEF WritesAs, Wrote
  <2>6. entities' \in [Ids -> Entity \cup {Absent}]
    BY <1>1, <1>3, <2>5
  <2>7. ASSUME NEW e \in Ids, entities'[e] # Absent, entities'[e].aware
        PROVE  ZonedIn(F)
    <3>1. CASE e = frag.id
      BY <1>1, <1>3, <1>4, <2>5, <2>7, <3>1
    <3>2. CASE e # frag.id
      BY <1>1, <1>3, <1>4, <2>5, <2>7, <3>2
    <3> QED
      BY <3>1, <3>2
  <2> QED
    BY <1>2, <2>1, <2>6, <2>7
<1>8. CASE PutCompareRaises(frag)
  <2>1. entities' = entities /\ ~(frag.aware = entities[frag.id].aware)
    BY <1>1, <1>8 DEF PutCompareRaises, Comparable, Present
  <2>2. frag.aware \/ entities[frag.id].aware
    BY <1>1, <1>5, <2>1
  <2>3. PoisonedIn(F)
    BY <1>1, <1>4, <1>6, <2>2 DEF Made
  <2> QED
    BY <1>2, <1>3, <1>4, <2>1, <2>3
<1> QED
  BY <1>7, <1>8

(* One iteration of put_fragments, with its exceptions                     *)
(* (state_bus.py:67-97).                                                   *)
LEMMA PutConsistent ==
  ASSUME CollectorInv, Put
  PROVE  CollectorInv'
<1> DEFINE frag == Head(fragments)
<1>1. putting
  BY DEF Put, PutFragment, PutCreate, PutCreateFails, PutSkip, PutMerge,
         PutMergeRaises, PutMergeClash, PutCompareRaises, Merge, Takes
<1>2. /\ adapter = Idle /\ now \in Nat /\ fragments # <<>>
      /\ Consistent(fragments, entities, files, now, said)
      /\ returned.outcome = "raised" => PoisonedIn(files)
  BY <1>1 DEF CollectorInv, AtWork, Pending, Put
<1>3. adapter' = adapter /\ files' = files /\ said' = said /\ Pending' = fragments'
  BY <1>2 DEF Put, Pending
<1>4. Stored(entities, files, now) /\ entities \in [Ids -> Entity \cup {Absent}]
  BY <1>2 DEF Consistent, Stored
<1>5. Made(frag, files, now)
  <2>1. Queued(fragments, files, now)
    BY <1>2 DEF Consistent
  <2>2. IsList(fragments)
    BY <2>1 DEF Queued
  <2>3. frag = fragments[1] /\ 1 \in 1..Len(fragments)
    BY <1>2, <2>2, TailIs
  <2> QED
    BY <2>1, <2>3 DEF Queued
<1>6. CASE PutCreate(frag) \/ PutCreateFails(frag) \/ PutSkip(frag) \/ PutMerge(frag)
  <2>1. /\ Takes1(entities, entities', frag)
        /\ putting' = putting /\ now' = now /\ returned' = returned
    BY <1>2, <1>4, <1>6, PutTakes
  <2>2. fragments' = Tail(fragments)
    BY <1>1, <2>1 DEF Put
  <2>3. Consistent(Tail(fragments), entities', files, now, said)
    BY <1>2, <2>1, PutStep
  <2>4. AtWork'
    BY <1>1, <1>2, <1>3, <2>1 DEF AtWork
  <2> QED
    BY <1>2, <1>3, <2>1, <2>2, <2>3, <2>4 DEF CollectorInv
<1>7. CASE PutMergeRaises(frag) \/ PutMergeClash(frag) \/ PutCompareRaises(frag)
  <2>1. /\ PoisonedIn(files) /\ entities' \in [Ids -> Entity \cup {Absent}]
        /\ \A e \in Ids : entities'[e] # Absent /\ entities'[e].aware => ZonedIn(files)
        /\ ~putting' /\ now' = now
    BY <1>2, <1>4, <1>5, <1>7, PutRaises
  <2>2. fragments' = <<>>
    BY <2>1 DEF Put
  <2>3. Consistent(<<>>, entities', files, now, said)
    BY <2>1, RaiseStep
  <2>4. AtWork'
    BY <1>2, <1>3, <2>1, <2>2 DEF AtWork
  <2> QED
    BY <1>3, <2>1, <2>2, <2>3, <2>4 DEF CollectorInv
<1> QED
  BY <1>6, <1>7 DEF Put, PutFragment

(* The pipeline reads the entities (get_all_entities).                     *)
LEMMA ReadConsistent ==
  ASSUME CollectorInv, Read
  PROVE  CollectorInv'
<1>1. /\ entities' = [e \in Ids |-> IF Present(e) /\ Reaches(e)
                                    THEN Refresh(entities[e]) ELSE entities[e]]
      /\ now' = now /\ returned' = returned /\ putting' = putting
      /\ fragments' = fragments /\ adapter' = adapter /\ raw_records' = raw_records
      /\ files' = files /\ said' = said /\ queries' = queries
  BY DEF Read, GetAllEntities, collector
<1>2. /\ Consistent(Pending, entities, files, now, said) /\ now \in Nat
      /\ entities \in [Ids -> Entity \cup {Absent}]
  BY DEF CollectorInv, AtWork, Consistent, Stored
<1>3. ASSUME NEW e \in Ids
      PROVE  entities'[e] \in Entity \cup {Absent} /\ SameEntity(entities'[e], entities[e])
  <2>1. CASE entities'[e] = entities[e]
    BY <1>2, <2>1 DEF SameEntity
  <2>2. CASE entities[e] # Absent /\ entities'[e] = Refresh(entities[e])
    <3> DEFINE x == entities[e]
               y == Refresh(x)
    <3>1. x \in Entity
      BY <1>2, <2>2
    <3>2. y \in Entity /\ y # Absent
      BY <1>2, <3>1, RefreshType, StateBusAssumption
    <3>3. /\ x.type = y.type /\ x.source = y.source /\ x.at = y.at
          /\ x.aware = y.aware /\ x.fields = y.fields
      BY <3>1 DEF Refresh, Entity
    <3> QED
      BY <2>2, <3>2, <3>3 DEF SameEntity
  <2> QED
    BY <1>1, <2>1, <2>2 DEF Present
<1>4. entities' \in [Ids -> Entity \cup {Absent}]
  BY <1>1, <1>3
<1>5. Consistent(Pending, entities', files, now, said)
  BY <1>2, <1>3, <1>4, Later
<1>6. AtWork' /\ Pending' = Pending
  BY <1>1 DEF CollectorInv, AtWork, Pending
<1> QED
  BY <1>1, <1>5, <1>6 DEF CollectorInv

(* The clock ticks, also in the midst of a snapshot.                       *)
LEMMA TimeConsistent ==
  ASSUME CollectorInv, Time
  PROVE  CollectorInv'
<1>1. /\ now' = now + 1 /\ entities' = entities /\ returned' = returned
      /\ putting' = putting /\ fragments' = fragments /\ adapter' = adapter
      /\ raw_records' = raw_records /\ files' = files /\ said' = said
      /\ queries' = queries
  BY DEF Time, Tick, collector, dict
<1>2. /\ Consistent(Pending, entities, files, now, said) /\ now \in Nat
      /\ now' \in Nat /\ now <= now'
      /\ entities \in [Ids -> Entity \cup {Absent}]
  BY <1>1 DEF CollectorInv, AtWork, Consistent, Stored
<1>3. CASE adapter = Idle
  <2>1. Pending = fragments /\ Pending' = fragments
    BY <1>1, <1>3 DEF Pending
  <2>2. \A e \in Ids : SameEntity(entities[e], entities[e])
    BY DEF SameEntity
  <2>3. Consistent(fragments, entities, files, now', said)
    BY <1>2, <2>1, <2>2, Later
  <2>4. AtWork'
    BY <1>1, <1>2, <1>3 DEF CollectorInv, AtWork
  <2> QED
    BY <1>1, <2>1, <2>3, <2>4 DEF CollectorInv
<1>4. CASE adapter # Idle
  <2>1. Pending = Frags(raw_records, now) /\ Pending' = Frags(raw_records, now')
    BY <1>1, <1>4 DEF Pending
  <2>2. adapter \in AdapterNames /\ Holding(adapter, raw_records, files)
    BY <1>4 DEF CollectorInv, AtWork
  <2>3. Consistent(Frags(raw_records, now'), entities, files, now', said)
    BY <1>2, <2>1, <2>2, LaterFrags
  <2>4. AtWork'
    BY <1>1, <1>2 DEF CollectorInv, AtWork
  <2> QED
    BY <1>1, <2>1, <2>3, <2>4 DEF CollectorInv
<1> QED
  BY <1>3, <1>4

(* put_fragments returns.                                                  *)
LEMMA ReturnConsistent ==
  ASSUME CollectorInv, Return
  PROVE  CollectorInv'
<1>1. /\ fragments = <<>> /\ ~putting' /\ returned' = [outcome |-> "ok", ids |-> updated_ids]
      /\ UNCHANGED <<entities, now, fragments, adapter, raw_records, files, said, queries>>
  BY DEF Return, PutReturn, collector, dict
<1>2. returned'.outcome # "raised"
  BY <1>1
<1>3. AtWork' /\ Pending' = Pending
  BY <1>1 DEF CollectorInv, AtWork, Pending
<1> QED
  BY <1>1, <1>2, <1>3 DEF CollectorInv

(* Every step keeps the invariant.                                         *)
LEMMA NextConsistent == CollectorInv /\ [CollectorNext]_collectorVars => CollectorInv'
<1> SUFFICES ASSUME CollectorInv, [CollectorNext]_collectorVars PROVE CollectorInv'
  OBVIOUS
<1>1. ASSUME NEW a \in AdapterNames, Snapshot(a) PROVE CollectorInv'
  BY <1>1, SnapshotConsistent
<1>2. ASSUME Asks, NEW answer \in Answers(adapter, Head(queries)),
             Answer(answer) \/ BreaksOff(answer)
      PROVE  CollectorInv'
  BY <1>2, AnswerConsistent
<1>3. CASE Fails \/ RestDown
  BY <1>3, FailsConsistent
<1>4. CASE Normalize
  BY <1>4, NormalizeConsistent
<1>5. CASE Put
  BY <1>5, PutConsistent
<1>6. CASE Return
  BY <1>6, ReturnConsistent
<1>7. CASE Read
  BY <1>7, ReadConsistent
<1>8. CASE Time
  BY <1>8, TimeConsistent
<1>9. CASE UNCHANGED collectorVars
  BY <1>9 DEF collectorVars, collector, vars, dict, CollectorInv, AtWork, Pending
<1> QED
  BY <1>1, <1>2, <1>3, <1>4, <1>5, <1>6, <1>7, <1>8, <1>9 DEF CollectorNext

(* The invariant holds whatever the adapters are and are answered, in      *)
(* whichever order their snapshots, failures, batches and the ticks of the *)
(* clock come (cli.py:98-105 and docs/adapters/custom.md).                 *)
THEOREM CollectorCorrect == CollectorSpec => []CollectorInv
BY InitConsistent, NextConsistent, PTL DEF CollectorSpec

(* Whether an entity is only of live adapters depends on the files alone.  *)
LEMMA FileIsLive == \A e \in Ids : OnlyLive(e) <=> OnlyLiveIn(e, files)
BY DEF OnlyLive, OnlyLiveIn

(* put_fragments raises, and an entity's time has a zone, only if a file   *)
(* gave a cause: no live adapter can stop a batch half-way                 *)
(* (state_bus.py:103, 119, normalizer.py:85-90).                           *)
THEOREM OnlyFilesPoisonHolds == CollectorSpec => []OnlyFilesPoison
<1>1. CollectorInv => OnlyFilesPoison
  BY DEF CollectorInv, Consistent, Stored, Kept, OnlyFilesPoison, PoisonedIn, ZonedIn, Present
<1> QED
  BY <1>1, CollectorCorrect, PTL

(* The domain of an entity follows the source that reported it last, but   *)
(* for Prometheus' reports, of which nothing is claimed                    *)
(* (normalizer.py:96-100 with state_bus.py:112-119).                       *)
THEOREM DomainIsReportersHolds == CollectorSpec => []DomainIsReporters
<1>1. CollectorInv => DomainIsReporters
  BY FileIsLive DEF CollectorInv, Consistent, Stored, Kept, DomainIsReporters, Present
<1> QED
  BY <1>1, CollectorCorrect, PTL

(* At rest a node is healthy exactly when the last answer about it found it so, *)
(* whatever other queries failed, and whichever items were lost with a     *)
(* malformed one (slurm.py:67-164, kubernetes.py:58-67,                    *)
(* state_bus.py:99-123).                                                   *)
THEOREM LastAnswerWinsHolds == CollectorSpec => []LastAnswerWins
<1>1. CollectorInv => LastAnswerWins
  <2> SUFFICES ASSUME CollectorInv, AtRest, NEW e \in Ids, said[e] # NoValue, OnlyLive(e)
               PROVE  /\ Present(e)
                      /\ entities[e].at >= said[e].at
                      /\ entities[e].fields["health_state"] = "healthy" <=> said[e].usable
    BY DEF LastAnswerWins
  <2>1. Pending = <<>> /\ Heeded(Pending, entities, files, said)
    BY DEF CollectorInv, AtWork, Pending, AtRest, Consistent
  <2>2. ~Awaits(<<>>, e, said[e])
    BY DEF Awaits
  <2>3. entities[e] # Absent /\ Repeats(entities[e], said[e])
    BY <2>1, <2>2, FileIsLive DEF Heeded
  <2> QED
    BY <2>3 DEF Repeats, Present, Raw!Health
<1> QED
  BY <1>1, CollectorCorrect, PTL

(* At rest a deployment and its service are both there or both not, and    *)
(* agree on the replicas; neither a failed query nor a batch that stops    *)
(* half-way parts them, unless a file does (kubernetes.py:70-107).         *)
THEOREM ServiceMirrorsDeploymentHolds == CollectorSpec => []ServiceMirrorsDeployment
<1>1. CollectorInv => ServiceMirrorsDeployment
  <2> SUFFICES ASSUME CollectorInv, AtRest, NEW d \in Ids \cap DeploymentIds, NEW s,
                      s = "svc-" \o d, s \in Ids, OnlyLive(d), OnlyLive(s)
               PROVE  /\ Present(d) <=> Present(s)
                      /\ Present(d) =>
                           LET available == entities[d].fields["available_replicas"] IN
                           /\ entities[s].fields["available_replicas"] = available
                           /\ entities[s].fields["service_state"] =
                                IF available = "0" THEN "degraded" ELSE "active"
    BY DEF ServiceMirrorsDeployment
  <2>1. Pending = <<>> /\ AllCoupled(Pending, entities, files)
    BY DEF CollectorInv, AtWork, Pending, AtRest, Consistent
  <2>2. Coupled(<<>>, entities, d, s)
    BY <2>1, FileIsLive DEF AllCoupled
  <2>3. Whole(entities[d], entities[s])
    BY <2>2 DEF Coupled
  <2> QED
    BY <2>3 DEF Whole, Mirrors, Present
<1> QED
  BY <1>1, CollectorCorrect, PTL
=============================================================================
