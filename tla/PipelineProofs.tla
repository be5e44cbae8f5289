--------------------------- MODULE PipelineProofs ---------------------------
(***************************************************************************)
(* Proofs about the pipeline, for every set of rulebooks, packs and        *)
(* scenarios: every property its runs check holds of every run.  The loops *)
(* of normalize and put_fragments are run through by induction, the sorts  *)
(* are shown to be sorts, and one inductive invariant follows the data     *)
(* from the records to the results.                                        *)
(***************************************************************************)
EXTENDS PipelineProperties, SequenceLemmas

-----------------------------------------------------------------------------
(* The normalizer *)

(* normalize runs through the records in their order                       *)
(* (normalizer.py:49-65): what its loop returns is what n steps of it      *)
(* make, for n the number of records.                                      *)
LEMMA NormalizeLoop ==
  ASSUME NEW raw, raw \in Seq(ToSet(raw))
  PROVE  \E f :
           /\ f[0] = <<>>
           /\ \A n \in 1..Len(raw) :
                f[n] = IF Norm!Accepts(raw[n]) THEN Append(f[n - 1], raw[n]) ELSE f[n - 1]
           /\ Norm!normalize(raw) = f[Len(raw)]
<1> DEFINE Step(acc, n) == IF Norm!Accepts(raw[n]) THEN Append(acc, raw[n]) ELSE acc
           Loop(f, m) == f = [n \in 0..m |-> IF n = 0 THEN <<>> ELSE Step(f[n - 1], n)]
           S == {m \in Nat : \E f : Loop(f, m)}
           h == CHOOSE f : Loop(f, Len(raw))
<1>1. Norm!normalize(raw) = h[Len(raw)]
  BY DEF Norm!normalize
<1> HIDE DEF Step
<1>2. 0 \in S
  <2>1. Loop([n \in 0..0 |-> <<>>], 0)
    OBVIOUS
  <2> QED
    BY <2>1
<1>3. ASSUME NEW m \in Nat, m \in S PROVE m + 1 \in S
  <2>1. PICK f : Loop(f, m)
    BY <1>3
  <2> DEFINE g == [n \in 0..(m + 1) |-> IF n = m + 1 THEN Step(f[m], m + 1) ELSE f[n]]
  <2>2. /\ f[0] = <<>>
        /\ \A n \in 1..m : f[n] = Step(f[n - 1], n)
    BY <2>1
  <2>3. /\ g[0] = <<>>
        /\ \A n \in 1..(m + 1) : g[n] = Step(g[n - 1], n)
    <3>1. (\A n \in 0..m : g[n] = f[n]) /\ g[m + 1] = Step(f[m], m + 1)
      OBVIOUS
    <3> HIDE DEF g, Loop, S, h
    <3>2. ASSUME NEW n \in 1..(m + 1) PROVE g[n] = Step(g[n - 1], n)
      <4>1. CASE n = m + 1
        BY <3>1, <4>1
      <4>2. CASE n # m + 1
        <5>1. n \in 1..m /\ n - 1 \in 0..m /\ n \in 0..m
          BY <4>2
        <5> QED
          BY <2>2, <3>1, <5>1
      <4> QED
        BY <4>1, <4>2
    <3> QED
      BY <2>2, <3>1, <3>2
  <2>4. Loop(g, m + 1)
    <3> HIDE DEF g
    <3>1. \A n \in 0..(m + 1) : g[n] = IF n = 0 THEN <<>> ELSE Step(g[n - 1], n)
      BY <2>3
    <3>2. g = [n \in 0..(m + 1) |-> g[n]]
      BY DEF g
    <3> QED
      BY <3>1, <3>2
  <2> HIDE DEF g, Loop
  <2> QED
    BY <2>4
<1>4. Len(raw) \in Nat
  OBVIOUS
<1> HIDE DEF S
<1>5. Len(raw) \in S
  BY <1>2, <1>3, <1>4, NatSetInduction
<1>6. Loop(h, Len(raw))
  BY <1>5 DEF S
<1> HIDE DEF h
<1>7. h[0] = <<>>
  BY <1>4, <1>6
<1>8. \A n \in 1..Len(raw) : h[n] = Step(h[n - 1], n)
  BY <1>4, <1>6
<1> QED
  BY <1>1, <1>7, <1>8 DEF Step

(* fragments are the accepted records of raw up to n, in their order: m    *)
(* tells which *)
Keeps(m, fragments, raw, n) ==
  /\ m \in [1..Len(fragments) -> 1..n]
  /\ \A k \in 1..Len(fragments) : /\ fragments[k] = raw[m[k]]
                                   /\ Norm!Accepts(raw[m[k]])
  /\ \A k, l \in 1..Len(fragments) : k < l => m[k] < m[l]
  /\ \A i \in 1..n : Norm!Accepts(raw[i]) => \E k \in 1..Len(fragments) : m[k] = i

(* The normalizer returns the accepted records, each once and in their     *)
(* order, and nothing else (normalizer.py:57-63).                          *)
LEMMA NormalizeIs ==
  ASSUME NEW raw, raw \in Seq(ToSet(raw))
  PROVE  /\ Norm!normalize(raw) \in Seq(ToSet(raw))
         /\ \E m : Keeps(m, Norm!normalize(raw), raw, Len(raw))
<1>1. PICK f :
        /\ f[0] = <<>>
        /\ \A n \in 1..Len(raw) :
             f[n] = IF Norm!Accepts(raw[n]) THEN Append(f[n - 1], raw[n]) ELSE f[n - 1]
        /\ Norm!normalize(raw) = f[Len(raw)]
  BY NormalizeLoop
<1> DEFINE T == ToSet(raw)
           Good(n) == f[n] \in Seq(T) /\ \E m : Keeps(m, f[n], raw, n)
           S == {n \in Nat : n <= Len(raw) => Good(n)}
<1>2. Len(raw) \in Nat /\ \A n \in 1..Len(raw) : raw[n] \in T
  OBVIOUS
<1>3. 0 \in S
  <2>1. Keeps(<<>>, <<>>, raw, 0) /\ <<>> \in Seq(T)
    BY DEF Keeps
  <2> QED
    BY <1>1, <2>1
<1>4. ASSUME NEW n \in Nat, n \in S PROVE n + 1 \in S
  <2>1. SUFFICES ASSUME n + 1 <= Len(raw) PROVE Good(n + 1)
    OBVIOUS
  <2>2. n + 1 \in 1..Len(raw) /\ (n + 1) - 1 = n /\ n <= Len(raw)
    BY <1>2, <2>1
  <2>3. f[n + 1] = IF Norm!Accepts(raw[n + 1]) THEN Append(f[n], raw[n + 1]) ELSE f[n]
    BY <1>1, <2>2
  <2>4. f[n] \in Seq(T)
    BY <1>4, <2>2
  <2>5. PICK m : Keeps(m, f[n], raw, n)
    BY <1>4, <2>2
  <2>6. CASE ~Norm!Accepts(raw[n + 1])
    <3>1. Keeps(m, f[n], raw, n + 1)
      BY <2>4, <2>5, <2>6 DEF Keeps
    <3> QED
      BY <2>3, <2>4, <2>6, <3>1
  <2>7. CASE Norm!Accepts(raw[n + 1])
    <3> DEFINE L == Len(f[n])
               p == [k \in 1..(L + 1) |-> IF k = L + 1 THEN n + 1 ELSE m[k]]
    <3>1. f[n + 1] = Append(f[n], raw[n + 1])
      BY <2>3, <2>7
    <3>2. raw[n + 1] \in T
      BY <1>2, <2>2
    <3>3. /\ L \in Nat /\ f[n + 1] \in Seq(T) /\ Len(f[n + 1]) = L + 1
          /\ \A k \in 1..L : f[n + 1][k] = f[n][k]
          /\ f[n + 1][L + 1] = raw[n + 1]
      BY <2>4, <3>1, <3>2
    <3>4. (\A k \in 1..L : p[k] = m[k]) /\ p[L + 1] = n + 1 /\ p \in [1..(L + 1) -> 1..(n + 1)]
      BY <2>5, <3>3 DEF Keeps
    <3>5. Keeps(p, f[n + 1], raw, n + 1)
      <4> HIDE DEF p, S, T
      <4>1. \A k \in 1..(L + 1) : k = L + 1 \/ k \in 1..L
        BY <3>3
      <4>2. \A k \in 1..L : m[k] \in 1..n
        BY <2>5 DEF Keeps
      <4>3. \A k \in 1..(L + 1) : f[n + 1][k] = raw[p[k]] /\ Norm!Accepts(raw[p[k]])
        BY <2>5, <2>7, <3>3, <3>4, <4>1 DEF Keeps
      <4>4. \A k, l \in 1..(L + 1) : k < l => p[k] < p[l]
        BY <2>5, <3>3, <3>4, <4>1, <4>2 DEF Keeps
      <4>5. \A i \in 1..(n + 1) : Norm!Accepts(raw[i]) => \E k \in 1..(L + 1) : p[k] = i
        <5>1. \A i \in 1..(n + 1) : i = n + 1 \/ i \in 1..n
          OBVIOUS
        <5>2. L + 1 \in 1..(L + 1) /\ \A k \in 1..L : k \in 1..(L + 1)
          BY <3>3
        <5> QED
          BY <2>5, <3>4, <5>1, <5>2 DEF Keeps
      <4> QED
        BY <3>3, <3>4, <4>3, <4>4, <4>5 DEF Keeps
    <3> QED
      BY <3>3, <3>5
  <2> QED
    BY <2>6, <2>7
<1> HIDE DEF S
<1>5. Len(raw) \in S
  BY <1>2, <1>3, <1>4, NatSetInduction
<1> USE DEF S
<1>6. Good(Len(raw))
  BY <1>2, <1>5
<1> QED
  BY <1>1, <1>6

-----------------------------------------------------------------------------
(* What the bus makes of a record *)

(* What a fragment brings, field by field (StateFragment, entities.py).    *)
LEMMA BringsIs ==
  ASSUME NEW type, NEW r, DOMAIN r = RecordFields
  PROVE  LET new == Brings(type, r) IN
         /\ DOMAIN new = RecordFields
         /\ \A f \in RecordFields \ (Measured \cup {"scheduler_domain", "observed_at", "aware"}) :
              new[f] = r[f]
         /\ new.scheduler_domain = Norm!scheduler_domain(r)
         /\ new.aware = Norm!has_zone(r)
         /\ \A f \in Measured : new[f] = IF f \in Declared(type) THEN r[f] ELSE NoValue
<1> DEFINE new == Brings(type, r)
           value(f) == CASE f = "scheduler_domain" -> Norm!scheduler_domain(r)
                         [] f = "observed_at" -> Norm!observed_at(r, Now)
                         [] f = "aware" -> Norm!has_zone(r)
                         [] f \in Measured \ Declared(type) -> NoValue
                         [] OTHER -> r[f]
<1>1. new = [f \in RecordFields |-> value(f)]
  BY DEF Brings
<1>2. /\ value("scheduler_domain") = Norm!scheduler_domain(r)
      /\ value("aware") = Norm!has_zone(r)
      /\ \A f \in RecordFields \ (Measured \cup {"scheduler_domain", "observed_at", "aware"}) :
           value(f) = r[f]
      /\ \A f \in Measured : value(f) = IF f \in Declared(type) THEN r[f] ELSE NoValue
  BY DEF Measured
<1> HIDE DEF value, new
<1>3. DOMAIN new = RecordFields /\ \A f \in RecordFields : new[f] = value(f)
  BY <1>1
<1>4. /\ Measured \subseteq RecordFields
      /\ "scheduler_domain" \in RecordFields /\ "aware" \in RecordFields
  BY DEF Measured, RecordFields
<1> QED
  BY <1>2, <1>3, <1>4 DEF new

(* The fields that reach the bus as the record has them.                   *)
LEMMA BringsPlainly ==
  ASSUME NEW type, NEW r, DOMAIN r = RecordFields
  PROVE  LET new == Brings(type, r) IN
         /\ new.entity_type = r.entity_type
         /\ new.entity_id = r.entity_id
         /\ new.workload_type = r.workload_type
         /\ new.health_state = r.health_state
         /\ new.llm_id = r.llm_id
         /\ new.extra = r.extra
         /\ new.confidence_score = r.confidence_score
BY BringsIs DEF RecordFields, Measured

(* An entity made from a record has the record's id and type, for what the *)
(* record lacks the defaults of its class, and numbers for texts           *)
(* (state_bus.py:86-91).                                                   *)
LEMMA NewEntityIs ==
  ASSUME NEW r, DOMAIN r = RecordFields
  PROVE  LET e == NewEntity(r)
             new == Brings(r.entity_type, r)
         IN
         /\ DOMAIN e = RecordFields
         /\ \A f \in RecordFields \ Numeric :
              e[f] = IF new[f] = NoValue THEN DefaultOf(f) ELSE new[f]
         /\ \A f \in Numeric :
              e[f] = IF new[f] = NoValue THEN DefaultOf(f) ELSE Plain(new[f])
         /\ e.entity_type = r.entity_type
         /\ e.entity_id = r.entity_id
         /\ e.workload_type = Given(r, "workload_type")
         /\ e.health_state = Given(r, "health_state")
         /\ e.confidence_score = Confidence(r)
         /\ e.llm_id = r.llm_id
         /\ e.extra = IF r.extra = NoValue THEN <<>> ELSE r.extra
         /\ e.aware = Norm!has_zone(r)
<1> DEFINE new == Brings(r.entity_type, r)
<1>1. DOMAIN new = RecordFields
  BY BringsIs
<1>2. /\ DOMAIN NewEntity(r) = RecordFields
      /\ \A f \in RecordFields :
           NewEntity(r)[f] = IF new[f] = NoValue THEN DefaultOf(f)
                             ELSE IF f \in Numeric THEN Plain(new[f]) ELSE new[f]
  <2> HIDE DEF new
  <2>1. NewEntity(r) = [f \in DOMAIN new |->
                          CASE new[f] = NoValue -> DefaultOf(f)
                            [] new[f] # NoValue /\ f \in Numeric -> Plain(new[f])
                            [] OTHER -> new[f]]
    BY DEF NewEntity, new
  <2> QED
    BY <1>1, <2>1
<1>3. /\ new.entity_type = r.entity_type
      /\ new.entity_id = r.entity_id
      /\ new.workload_type = r.workload_type
      /\ new.health_state = r.health_state
      /\ new.llm_id = r.llm_id
      /\ new.extra = r.extra
      /\ new.confidence_score = r.confidence_score
      /\ new.aware = Norm!has_zone(r)
  BY BringsPlainly, BringsIs
<1> HIDE DEF new
<1>4. /\ DefaultOf("entity_type") = NoValue /\ DefaultOf("entity_id") = NoValue
      /\ DefaultOf("llm_id") = NoValue /\ DefaultOf("aware") = NoValue
      /\ DefaultOf("extra") = <<>> /\ DefaultOf("confidence_score") = 50
  BY DEF DefaultOf
<1>5. /\ {"entity_type", "entity_id", "workload_type", "health_state", "llm_id", "extra",
          "aware"} \subseteq RecordFields \ Numeric
      /\ Numeric \subseteq RecordFields
      /\ "confidence_score" \in Numeric
  BY DEF RecordFields, Numeric, Measured
<1>6. Plain(50) = 50
  BY ValueAssumption DEF Plain
<1>7. NewEntity(r).confidence_score = Confidence(r)
  BY <1>2, <1>3, <1>4, <1>5, <1>6 DEF Given, Confidence
<1> HIDE DEF Numeric
<1> QED
  BY <1>2, <1>3, <1>4, <1>5, <1>7 DEF Given, new

(* A merged entity keeps its type, and every field the second record does  *)
(* not carry (state_bus.py:112-119).                                       *)
LEMMA MergedEntityIs ==
  ASSUME NEW old, NEW r, DOMAIN r = RecordFields, DOMAIN old = RecordFields,
         old.entity_id = r.entity_id
  PROVE  LET e == MergedEntity(old, r)
             new == Brings(old.entity_type, r)
         IN
         /\ DOMAIN e = RecordFields
         /\ \A f \in RecordFields \ {"entity_type"} :
              e[f] = IF new[f] = NoValue THEN old[f] ELSE new[f]
         /\ e.entity_type = old.entity_type
         /\ e.entity_id = r.entity_id
         /\ e.workload_type = IF r.workload_type = NoValue THEN old.workload_type
                              ELSE r.workload_type
         /\ e.extra = (IF r.extra = NoValue THEN old.extra ELSE r.extra)
         /\ e.aware = (IF Norm!has_zone(r) = NoValue THEN old.aware ELSE Norm!has_zone(r))
<1> DEFINE new == Brings(old.entity_type, r)
<1>1. /\ new.entity_id = r.entity_id
      /\ new.workload_type = r.workload_type
      /\ new.extra = r.extra
      /\ new.aware = Norm!has_zone(r)
  BY BringsPlainly, BringsIs
<1> HIDE DEF new
<1>2. /\ DOMAIN MergedEntity(old, r) = RecordFields
      /\ \A f \in RecordFields :
           MergedEntity(old, r)[f] =
             IF f = "entity_type" \/ new[f] = NoValue THEN old[f] ELSE new[f]
  BY DEF MergedEntity, new
<1>3. {"entity_type", "entity_id", "workload_type", "extra", "aware"} \subseteq RecordFields
  BY DEF RecordFields
<1> QED
  BY <1>1, <1>2, <1>3 DEF new

(* The places of an id in the bus *)
At(bus, id) == {i \in DOMAIN bus.entities : bus.entities[i].entity_id = id}

(* The state of put_fragments between two fragments *)
IsBus(bus) ==
  /\ \E es, b : /\ bus = [entities |-> es, raised |-> b]
                /\ es \in Seq(ToSet(es)) /\ b \in BOOLEAN
  /\ \A i \in DOMAIN bus.entities : DOMAIN bus.entities[i] = RecordFields

(* Replacing one of the two fields of the bus.                             *)
LEMMA RecordExcept ==
  ASSUME NEW es, NEW b, NEW bus, bus = [entities |-> es, raised |-> b]
  PROVE  /\ bus.entities = es /\ bus.raised = b
         /\ \A new : /\ [bus EXCEPT !.entities = new] = [entities |-> new, raised |-> b]
                     /\ [bus EXCEPT !.raised = new] = [entities |-> es, raised |-> new]
OBVIOUS

(* One iteration of put_fragments does one of four things: nothing, as the *)
(* batch has raised or the record is refused or old; it appends an entity; *)
(* it raises on two times of which only one has a zone; or it replaces one *)
(* entity, and may raise then (state_bus.py:46-123).                       *)
LEMMA PutCases ==
  ASSUME NEW bus, NEW r, IsBus(bus), DOMAIN r = RecordFields
  PROVE  \/ /\ Put(bus, r) = bus
            /\ bus.raised \/ ~Creatable(r) \/ At(bus, r.entity_id) # {}
         \/ /\ At(bus, r.entity_id) = {} /\ Creatable(r) /\ ~bus.raised
            /\ Put(bus, r) = [entities |-> Append(bus.entities, NewEntity(r)), raised |-> FALSE]
         \/ ~bus.raised /\ \E i \in At(bus, r.entity_id) :
              /\ Norm!has_zone(r) # bus.entities[i].aware
              /\ Put(bus, r) = [entities |-> bus.entities, raised |-> TRUE]
         \/ ~bus.raised /\ \E i \in At(bus, r.entity_id) :
              Put(bus, r) = [entities |-> [bus.entities EXCEPT ![i] =
                                             MergedEntity(bus.entities[i], r)],
                             raised |-> Norm!has_zone(r) \/ r.clash]
<1> DEFINE here == At(bus, r.entity_id)
           i == CHOOSE i \in here : TRUE
           new == Brings(bus.entities[i].entity_type, r)
<1>0. PICK es, b : /\ bus = [entities |-> es, raised |-> b]
                   /\ es \in Seq(ToSet(es)) /\ b \in BOOLEAN
  BY DEF IsBus
<1> DEFINE SetEntities(v) == [bus EXCEPT !.entities = v]
           SetRaised(v) == [bus EXCEPT !.raised = v]
<1>4. /\ bus.entities = es /\ bus.raised = b
      /\ \A v : /\ SetEntities(v) = [entities |-> v, raised |-> b]
                /\ SetRaised(v) = [entities |-> es, raised |-> v]
  BY <1>0, RecordExcept
<1>1. CASE bus.raised \/ (here = {} /\ ~Creatable(r))
  BY <1>1 DEF Put, At
<1>2. CASE ~bus.raised /\ here = {} /\ Creatable(r)
  <2>1. Put(bus, r) = Create(bus, r)
    BY <1>2 DEF Put, At
  <2>2. Create(bus, r) = [entities |-> Append(bus.entities, NewEntity(r)), raised |-> FALSE]
    <3>1. Create(bus, r) = SetEntities(Append(bus.entities, NewEntity(r)))
      BY DEF Create
    <3>2. b = FALSE
      <4>1. ~b
        BY <1>2, <1>4, Zenon
      <4>2. b \in BOOLEAN
        BY <1>0
      <4> HIDE DEF SetEntities
      <4> QED
        BY <4>1, <4>2
    <3> HIDE DEF SetEntities
    <3> QED
      BY <1>4, <3>1, <3>2
  <2> QED
    BY <1>2, <2>1, <2>2
<1>3. CASE ~bus.raised /\ here # {}
  <2>1. i \in here
    BY <1>3
  <2>2. Put(bus, r) = Merge(bus, i, r)
    BY <1>3 DEF Put, At
  <2>3. new.aware = Norm!has_zone(r)
    BY BringsIs
  <2>4. \/ Merge(bus, i, r) = [bus EXCEPT !.raised = TRUE] /\ new.aware # bus.entities[i].aware
        \/ Merge(bus, i, r) = bus
        \/ Merge(bus, i, r) =
             [entities |-> [bus.entities EXCEPT ![i] = MergedEntity(bus.entities[i], r)],
              raised |-> new.aware \/ r.clash]
    BY DEF Merge
  <2>5. SetRaised(TRUE) = [entities |-> bus.entities, raised |-> TRUE]
    <3> HIDE DEF SetRaised
    <3> QED
      BY <1>4
  <2> HIDE DEF i, here, new
  <2> QED
    BY <1>3, <2>1, <2>2, <2>3, <2>4, <2>5 DEF here, new
<1> QED
  BY <1>0, <1>1, <1>2, <1>3

(* What rules read of an entity they can read without raising *)
Sound(e) ==
  /\ \A f \in Measured : e[f] \notin {Bad} \cup Texts
  /\ e.confidence_score \in 0..100
  /\ e.extra # Bad /\ get(e.extra, "gpu_utilization") # Bad

(* A fragment brings a number in quotes for a numeric field of a class *)
BringsText(type, r) == \E f \in Numeric : Brings(type, r)[f] \in Texts

(* A GPU utilization in extra that is no number *)
OddGpu(r) == r.extra \notin {NoValue, Bad} /\ get(r.extra, "gpu_utilization") = Bad

(* The numeric fields and extra are fields.                                *)
LEMMA NumericFields ==
  Numeric \cup {"extra"} \subseteq RecordFields \ {"entity_type"} /\ Measured \subseteq Numeric
  /\ "confidence_score" \in Numeric
BY DEF RecordFields, Numeric, Measured

(* A value that is neither Bad nor missing is a number once it is plain,   *)
(* or at least no text.                                                    *)
LEMMA PlainIs ==
  ASSUME NEW v
  PROVE  /\ v \notin Texts => Plain(v) = v
         /\ Plain(v) \notin Texts
         /\ v # Bad => Plain(v) # Bad
         /\ Plain(v) = NoValue <=> v = NoValue
BY ValueAssumption DEF Plain

(* An entity that passed validation is sound, but for what is nested in    *)
(* extra (entities.py:159).                                                *)
LEMMA CreatedIsSound ==
  ASSUME NEW r, DOMAIN r = RecordFields, Creatable(r), ~OddGpu(r)
  PROVE  Sound(NewEntity(r))
<1> DEFINE new == Brings(r.entity_type, r)
           e == NewEntity(r)
<1>1. /\ \A f \in Numeric \cup {"extra"} : new[f] # Bad
      /\ Plain(new.confidence_score) \in (0..100) \cup {NoValue}
  BY NumericFields, BringsIs DEF Creatable, ValidAs
<1>2. /\ \A f \in Numeric : e[f] = IF new[f] = NoValue THEN DefaultOf(f) ELSE Plain(new[f])
      /\ e.extra = IF r.extra = NoValue THEN <<>> ELSE r.extra
  BY NewEntityIs
<1>3. new.extra = r.extra
  BY BringsPlainly
<1> HIDE DEF new, e
<1>4. /\ \A f \in Measured : DefaultOf(f) = NoValue
      /\ DefaultOf("confidence_score") = 50
  BY DEF DefaultOf, Measured
<1>5. ASSUME NEW f \in Measured PROVE e[f] \notin {Bad} \cup Texts
  BY <1>1, <1>2, <1>4, NumericFields, PlainIs, ValueAssumption
<1>6. e.confidence_score \in 0..100
  <2>1. Plain(new.confidence_score) = NoValue <=> new.confidence_score = NoValue
    BY PlainIs
  <2>2. e.confidence_score = IF new.confidence_score = NoValue THEN 50
                             ELSE Plain(new.confidence_score)
    BY <1>2, <1>4, NumericFields
  <2> QED
    BY <1>1, <2>1, <2>2
<1>7. e.extra # Bad /\ get(e.extra, "gpu_utilization") # Bad
  <2>1. CASE r.extra = NoValue
    <3>1. e.extra = <<>> /\ DOMAIN <<>> = {}
      BY <1>2, <2>1
    <3> QED
      BY <3>1, ValueAssumption DEF get
  <2>2. CASE r.extra # NoValue
    BY <1>1, <1>2, <1>3, <2>2 DEF OddGpu
  <2> QED
    BY <2>1, <2>2
<1> QED
  BY <1>5, <1>6, <1>7 DEF Sound, e

(* A sound entity stays sound when what is merged into it would pass the   *)
(* validation of its class, which the merge does not do, and is not what   *)
(* validation would have to convert.                                       *)
LEMMA MergedIsSound ==
  ASSUME NEW old, NEW r, DOMAIN r = RecordFields, DOMAIN old = RecordFields,
         old.entity_id = r.entity_id, Sound(old), ValidAs(old.entity_type, r),
         ~BringsText(old.entity_type, r), ~OddGpu(r)
  PROVE  Sound(MergedEntity(old, r))
<1> DEFINE new == Brings(old.entity_type, r)
           e == MergedEntity(old, r)
<1>1. /\ \A f \in Numeric \cup {"extra"} : new[f] # Bad
      /\ \A f \in Numeric : new[f] \notin Texts
      /\ Plain(new.confidence_score) \in (0..100) \cup {NoValue}
  BY NumericFields, BringsIs DEF ValidAs, BringsText
<1>2. /\ \A f \in RecordFields \ {"entity_type"} :
           e[f] = IF new[f] = NoValue THEN old[f] ELSE new[f]
      /\ e.extra = (IF r.extra = NoValue THEN old.extra ELSE r.extra)
  BY MergedEntityIs
<1>3. new.extra = r.extra
  BY BringsPlainly
<1> HIDE DEF new, e
<1>4. ASSUME NEW f \in Measured PROVE e[f] \notin {Bad} \cup Texts
  BY <1>1, <1>2, NumericFields DEF Sound
<1>5. e.confidence_score \in 0..100
  BY <1>1, <1>2, NumericFields, PlainIs DEF Sound
<1>6. e.extra # Bad /\ get(e.extra, "gpu_utilization") # Bad
  BY <1>1, <1>2, <1>3 DEF Sound, OddGpu
<1> QED
  BY <1>4, <1>5, <1>6 DEF Sound, e

-----------------------------------------------------------------------------
(* put_fragments *)

(* A sequence is one of its own elements.                                  *)
LEMMA OwnRange ==
  ASSUME NEW T, NEW s \in Seq(T)
  PROVE  s \in Seq(ToSet(s))
<1>1. Len(s) \in Nat /\ s \in [1..Len(s) -> T]
  OBVIOUS
<1>2. s \in [1..Len(s) -> ToSet(s)]
  BY <1>1 DEF ToSet
<1> QED
  BY <1>1, <1>2

(* A list of records as an adapter makes them *)
Records(fs) ==
  /\ fs \in Seq(ToSet(fs))
  /\ \A k \in DOMAIN fs : /\ DOMAIN fs[k] = RecordFields
                          /\ fs[k].workload_type \in WorkloadType \cup {NoValue, Bad}
                          /\ fs[k].clash \in BOOLEAN

(* Of the first n fragments, the k-th makes an entity and the l-th is one  *)
(* of the same id                                                          *)
Rival(fs, n, k, l) ==
  /\ k \in 1..n /\ l \in 1..n /\ k < l
  /\ fs[k].entity_id = fs[l].entity_id /\ Creatable(fs[k])

(* One of the first n fragments was merged unvalidated, or nests what is   *)
(* no number                                                               *)
Suspect(fs, n) ==
  \/ \E k, l : /\ Rival(fs, n, k, l)
               /\ \/ ~ValidAs(fs[k].entity_type, fs[l])
                  \/ BringsText(fs[k].entity_type, fs[l])
  \/ \E k \in 1..n : OddGpu(fs[k])

(* One of the first n fragments has a time with a zone *)
Zoned(fs, n) == \E k \in 1..n : Norm!has_zone(fs[k])

(* One has, or was merged with a key that is an attribute but no field *)
Stopping(fs, n) == Zoned(fs, n) \/ \E k, l : Rival(fs, n, k, l) /\ fs[l].clash

(* The name of a model in one of the first n fragments is no string, or    *)
(* what was merged for extra is no dict                                    *)
NameFlaw(fs, n) ==
  \/ \E k \in 1..n : OddlyNamed(fs[k])
  \/ \E k, l : Rival(fs, n, k, l) /\ fs[l].extra = Bad

(* The classifier can look for a name *)
NameOk(e) == e.extra # Bad /\ ~OddName(e.extra)

(* The first fragment of an entity is valid and gave it its type; a second *)
(* one there is if the entity is not what the first one made.              *)
Origin(e, fs, n) ==
  \E k \in 1..n :
    /\ Creatable(fs[k])
    /\ fs[k].entity_id = e.entity_id /\ fs[k].entity_type = e.entity_type
    /\ \/ e = NewEntity(fs[k])
       \/ \E l \in 1..n : k # l /\ fs[l].entity_id = e.entity_id

(* What holds of an entity after n fragments *)
EntityOk(e, fs, n) ==
  /\ DOMAIN e = RecordFields
  /\ e.workload_type \in WorkloadType \cup {Bad}
  /\ Origin(e, fs, n)
  /\ Sound(e) \/ Suspect(fs, n)
  /\ NameOk(e) \/ NameFlaw(fs, n)
  /\ e.aware \in BOOLEAN /\ (e.aware => Zoned(fs, n))

(* What holds of the bus after n fragments: the loop invariant of          *)
(* put_fragments                                                           *)
Merged(bus, fs, n) ==
  /\ \A i \in DOMAIN bus.entities : EntityOk(bus.entities[i], fs, n)
  /\ \A i, j \in DOMAIN bus.entities :
       bus.entities[i].entity_id = bus.entities[j].entity_id => i = j
  /\ bus.raised => Stopping(fs, n)
  /\ \A k \in 1..n : Creatable(fs[k]) =>
       bus.raised \/ At(bus, fs[k].entity_id) # {}

(* What was found in some fragments is found in more.                      *)
LEMMA FlawsStay ==
  ASSUME NEW fs, NEW n \in Nat
  PROVE  /\ Suspect(fs, n) => Suspect(fs, n + 1)
         /\ Zoned(fs, n) => Zoned(fs, n + 1)
         /\ Stopping(fs, n) => Stopping(fs, n + 1)
         /\ NameFlaw(fs, n) => NameFlaw(fs, n + 1)
<1>1. \A k \in 1..n : k \in 1..(n + 1)
  OBVIOUS
<1>2. \A k, l : Rival(fs, n, k, l) => Rival(fs, n + 1, k, l)
  BY <1>1 DEF Rival
<1> QED
  BY <1>1, <1>2 DEF Suspect, Zoned, Stopping, NameFlaw

(* What holds of an entity still does when more fragments are counted.     *)
LEMMA EntityStaysOk ==
  ASSUME NEW e, NEW fs, NEW n \in Nat, EntityOk(e, fs, n)
  PROVE  EntityOk(e, fs, n + 1)
<1>1. \A k \in 1..n : k \in 1..(n + 1)
  OBVIOUS
<1>2. Origin(e, fs, n) => Origin(e, fs, n + 1)
  BY <1>1 DEF Origin
<1> QED
  BY <1>2, FlawsStay DEF EntityOk

(* An entity there is was made by a fragment: the next one of its id is a  *)
(* rival of that.                                                          *)
LEMMA HasRival ==
  ASSUME NEW fs, NEW n \in Nat, NEW old, EntityOk(old, fs, n),
         old.entity_id = fs[n + 1].entity_id
  PROVE  \E k : Rival(fs, n + 1, k, n + 1) /\ fs[k].entity_type = old.entity_type
<1>1. PICK k \in 1..n : /\ Creatable(fs[k])
                        /\ fs[k].entity_id = old.entity_id
                        /\ fs[k].entity_type = old.entity_type
  BY DEF EntityOk, Origin
<1>2. k \in 1..(n + 1) /\ n + 1 \in 1..(n + 1) /\ k < n + 1
  OBVIOUS
<1> QED
  BY <1>1, <1>2 DEF Rival

(* The entity that a valid fragment creates is as the loop invariant says. *)
LEMMA CreatedIsOk ==
  ASSUME NEW fs, Records(fs), NEW n \in Nat, n + 1 \in DOMAIN fs, Creatable(fs[n + 1])
  PROVE  EntityOk(NewEntity(fs[n + 1]), fs, n + 1)
<1> DEFINE r == fs[n + 1]
           e == NewEntity(r)
<1>1. DOMAIN r = RecordFields /\ r.workload_type \in WorkloadType \cup {NoValue, Bad}
  BY DEF Records
<1>2. n + 1 \in 1..(n + 1)
  OBVIOUS
<1>3. /\ DOMAIN e = RecordFields
      /\ e.entity_id = r.entity_id /\ e.entity_type = r.entity_type
      /\ e.workload_type = Given(r, "workload_type")
      /\ e.extra = IF r.extra = NoValue THEN <<>> ELSE r.extra
      /\ e.aware = Norm!has_zone(r)
  BY <1>1, NewEntityIs
<1>4. e.workload_type \in WorkloadType \cup {Bad}
  BY <1>1, <1>3 DEF Given, DefaultOf, WorkloadType
<1>5. Origin(e, fs, n + 1)
  BY <1>2, <1>3 DEF Origin
<1>6. Sound(e) \/ Suspect(fs, n + 1)
  <2>1. CASE OddGpu(r)
    BY <1>2, <2>1 DEF Suspect
  <2>2. CASE ~OddGpu(r)
    BY <1>1, <2>2, CreatedIsSound
  <2> QED
    BY <2>1, <2>2
<1>7. NameOk(e) \/ NameFlaw(fs, n + 1)
  <2>1. CASE r.extra = NoValue
    <3>1. e.extra = <<>> /\ DOMAIN <<>> = {}
      BY <1>3, <2>1
    <3> QED
      BY <3>1, ValueAssumption DEF NameOk, OddName
  <2>2. CASE r.extra # NoValue
    <3>1. e.extra = r.extra
      BY <1>3, <2>2
    <3>2. r.extra # Bad
      BY <1>1, BringsIs, BringsPlainly DEF Creatable, ValidAs, RecordFields
    <3> HIDE DEF e
    <3> QED
      BY <1>2, <2>2, <3>1, <3>2 DEF NameOk, NameFlaw, OddlyNamed
  <2> QED
    BY <2>1, <2>2
<1>8. e.aware \in BOOLEAN /\ (e.aware => Zoned(fs, n + 1))
  BY <1>2, <1>3 DEF Zoned, Norm!has_zone
<1> QED
  BY <1>3, <1>4, <1>5, <1>6, <1>7, <1>8 DEF EntityOk

(* The entity that a fragment is merged into stays as the loop invariant   *)
(* says: it gets unsound only by a value its class would refuse, be it one *)
(* of a record of another type (state_bus.py:116-119).                     *)
LEMMA MergedIsOk ==
  ASSUME NEW fs, Records(fs), NEW n \in Nat, n + 1 \in DOMAIN fs,
         NEW old, EntityOk(old, fs, n), old.entity_id = fs[n + 1].entity_id
  PROVE  EntityOk(MergedEntity(old, fs[n + 1]), fs, n + 1)
<1> DEFINE r == fs[n + 1]
           e == MergedEntity(old, r)
<1>1. DOMAIN r = RecordFields /\ r.workload_type \in WorkloadType \cup {NoValue, Bad}
  BY DEF Records
<1>2. n + 1 \in 1..(n + 1) /\ \A k \in 1..n : k \in 1..(n + 1) /\ k < n + 1 /\ k # n + 1
  OBVIOUS
<1>3. DOMAIN old = RecordFields /\ old.workload_type \in WorkloadType \cup {Bad}
  BY DEF EntityOk
<1>4. /\ DOMAIN e = RecordFields
      /\ e.entity_id = r.entity_id /\ e.entity_type = old.entity_type
      /\ e.workload_type = IF r.workload_type = NoValue THEN old.workload_type
                           ELSE r.workload_type
      /\ e.extra = (IF r.extra = NoValue THEN old.extra ELSE r.extra)
      /\ e.aware = (IF Norm!has_zone(r) = NoValue THEN old.aware ELSE Norm!has_zone(r))
  BY <1>1, <1>3, MergedEntityIs
<1>5. e.workload_type \in WorkloadType \cup {Bad}
  BY <1>1, <1>3, <1>4
<1>6. PICK k : Rival(fs, n + 1, k, n + 1) /\ fs[k].entity_type = old.entity_type
  BY HasRival
<1>7. Origin(e, fs, n + 1)
  BY <1>2, <1>4, <1>6 DEF Origin, Rival
<1>8. Sound(e) \/ Suspect(fs, n + 1)
  <2>1. CASE OddGpu(r)
    BY <1>2, <2>1 DEF Suspect
  <2>2. CASE Suspect(fs, n)
    BY <2>2, FlawsStay
  <2>3. CASE ~ValidAs(old.entity_type, r) \/ BringsText(old.entity_type, r)
    BY <1>6, <2>3 DEF Suspect
  <2>4. CASE /\ Sound(old) /\ ValidAs(old.entity_type, r)
             /\ ~BringsText(old.entity_type, r) /\ ~OddGpu(r)
    BY <1>1, <1>3, <2>4, MergedIsSound
  <2> QED
    BY <2>1, <2>2, <2>3, <2>4 DEF EntityOk
<1>10. NameOk(e) \/ NameFlaw(fs, n + 1)
  <2> HIDE DEF e
  <2>1. CASE r.extra = NoValue
    BY <1>4, <2>1, FlawsStay DEF EntityOk, NameOk
  <2>2. CASE r.extra = Bad
    BY <1>6, <2>2 DEF NameFlaw
  <2>3. CASE r.extra \notin {NoValue, Bad}
    BY <1>2, <1>4, <2>3 DEF NameOk, NameFlaw, OddlyNamed
  <2> QED
    BY <2>1, <2>2, <2>3
<1>9. e.aware \in BOOLEAN /\ (e.aware => Zoned(fs, n + 1))
  <2>1. old.aware \in BOOLEAN /\ (old.aware => Zoned(fs, n + 1))
    BY <1>2 DEF EntityOk, Zoned
  <2>2. Norm!has_zone(r) \in BOOLEAN /\ (Norm!has_zone(r) => Zoned(fs, n + 1))
    BY <1>2 DEF Zoned, Norm!has_zone
  <2> HIDE DEF e
  <2> QED
    BY <1>4, <2>1, <2>2
<1> QED
  BY <1>4, <1>5, <1>7, <1>8, <1>9, <1>10 DEF EntityOk

(* new is the bus after a step that left, replaced or added entity j *)
Touched(bus, new, fs, n, j) ==
  /\ new.raised => Stopping(fs, n + 1)
  /\ bus.raised => new.raised
  /\ j \in DOMAIN new.entities
  /\ EntityOk(new.entities[j], fs, n + 1)
  /\ new.entities[j].entity_id = fs[n + 1].entity_id
  /\ DOMAIN bus.entities \subseteq DOMAIN new.entities
  /\ \A k \in DOMAIN new.entities : k # j =>
       k \in DOMAIN bus.entities /\ new.entities[k] = bus.entities[k]
  /\ \A k \in DOMAIN bus.entities :
       k = j <=> bus.entities[k].entity_id = fs[n + 1].entity_id

(* A step that touches one entity, the one of its fragment's id, keeps the *)
(* loop invariant.                                                         *)
LEMMA TouchKeeps ==
  ASSUME NEW fs, NEW n \in Nat, NEW bus, Merged(bus, fs, n),
         NEW new, NEW j, Touched(bus, new, fs, n, j)
  PROVE  Merged(new, fs, n + 1)
<1> DEFINE es == new.entities
<1>1. \A k \in DOMAIN es : EntityOk(es[k], fs, n + 1)
  BY EntityStaysOk DEF Merged, Touched
<1>2. \A k, l \in DOMAIN es : es[k].entity_id = es[l].entity_id => k = l
  BY DEF Merged, Touched
<1>3. ASSUME NEW k \in 1..(n + 1), Creatable(fs[k]), ~new.raised
      PROVE  \E i \in DOMAIN es : es[i].entity_id = fs[k].entity_id
  <2>1. CASE k = n + 1
    BY <2>1 DEF Touched
  <2>2. CASE k \in 1..n
    <3>1. ~bus.raised
      BY <1>3 DEF Touched
    <3>2. PICK i \in DOMAIN bus.entities : bus.entities[i].entity_id = fs[k].entity_id
      BY <1>3, <2>2, <3>1 DEF Merged, At
    <3>3. CASE i = j
      BY <3>2, <3>3 DEF Touched
    <3>4. CASE i # j
      BY <3>2, <3>4 DEF Touched
    <3> QED
      BY <3>3, <3>4
  <2> QED
    BY <2>1, <2>2
<1> QED
  BY <1>1, <1>2, <1>3 DEF Merged, At, Touched

(* Entities and a flag make a bus.                                         *)
LEMMA MakesBus ==
  ASSUME NEW es, es \in Seq(ToSet(es)), NEW b \in BOOLEAN,
         \A i \in DOMAIN es : DOMAIN es[i] = RecordFields,
         NEW bus, bus = [entities |-> es, raised |-> b]
  PROVE  IsBus(bus)
<1>1. bus.entities = es
  OBVIOUS
<1> QED
  BY <1>1 DEF IsBus

(* Every iteration of put_fragments keeps the loop invariant.              *)
LEMMA PutKeeps ==
  ASSUME NEW fs, Records(fs), NEW n \in Nat, n + 1 \in DOMAIN fs,
         NEW bus, IsBus(bus), Merged(bus, fs, n)
  PROVE  IsBus(Put(bus, fs[n + 1])) /\ Merged(Put(bus, fs[n + 1]), fs, n + 1)
<1> DEFINE r == fs[n + 1]
           es == bus.entities
           here == At(bus, r.entity_id)
<1>1. DOMAIN r = RecordFields
  BY DEF Records
<1>2. /\ es \in Seq(ToSet(es)) /\ Len(es) \in Nat /\ DOMAIN es = 1..Len(es)
      /\ bus.raised \in BOOLEAN
      /\ \A i \in DOMAIN es : DOMAIN es[i] = RecordFields
  BY DEF IsBus
<1>3. \A i \in DOMAIN es : i \in here <=> es[i].entity_id = r.entity_id
  BY DEF At
<1>4. here \subseteq DOMAIN es
  BY DEF At
<1>5. n + 1 \in 1..(n + 1) /\ \A k \in 1..(n + 1) : k = n + 1 \/ k \in 1..n
  OBVIOUS
<1> HIDE DEF here
<1>6. CASE /\ Put(bus, r) = bus
           /\ bus.raised \/ ~Creatable(r) \/ here # {}
  <2>1. \A i \in DOMAIN es : EntityOk(es[i], fs, n + 1)
    BY EntityStaysOk DEF Merged
  <2>2. bus.raised => Stopping(fs, n + 1)
    BY FlawsStay DEF Merged
  <2>3. \A k \in 1..(n + 1) : Creatable(fs[k]) => bus.raised \/ At(bus, fs[k].entity_id) # {}
    BY <1>5, <1>6 DEF Merged, here
  <2>4. Merged(bus, fs, n + 1)
    BY <2>1, <2>2, <2>3 DEF Merged
  <2> QED
    BY <1>6, <2>4
<1>7. CASE /\ here = {} /\ Creatable(r) /\ ~bus.raised
           /\ Put(bus, r) = [entities |-> Append(es, NewEntity(r)), raised |-> FALSE]
  <2> DEFINE e == NewEntity(r)
             new == Append(es, e)
             L == Len(es)
  <2>1. EntityOk(e, fs, n + 1)
    BY <1>7, CreatedIsOk
  <2>2. e.entity_id = r.entity_id
    BY <1>1, NewEntityIs
  <2> HIDE DEF e, es
  <2>3. /\ new \in Seq(ToSet(es) \cup {e}) /\ L \in Nat /\ DOMAIN es = 1..L
        /\ DOMAIN new = 1..(L + 1)
        /\ \A k \in 1..L : new[k] = es[k]
        /\ new[L + 1] = e
    BY <1>2, AppendIs
  <2> HIDE DEF new
  <2>4. new \in Seq(ToSet(new))
    BY <2>3, OwnRange
  <2>5. /\ L + 1 \in DOMAIN new /\ L + 1 \notin DOMAIN es /\ DOMAIN es \subseteq DOMAIN new
        /\ \A k \in DOMAIN new : k # L + 1 => k \in DOMAIN es /\ new[k] = es[k]
        /\ \A k \in DOMAIN es : es[k].entity_id # r.entity_id
    BY <1>3, <1>7, <2>3
  <2>6. Put(bus, r) = [entities |-> new, raised |-> FALSE]
    BY <1>7 DEF new, e
  <2>7. Touched(bus, Put(bus, r), fs, n, L + 1)
    BY <1>7, <2>1, <2>2, <2>3, <2>5, <2>6 DEF Touched, es
  <2>8. IsBus(Put(bus, r))
    <3>1. \A k \in DOMAIN new : DOMAIN new[k] = RecordFields
      BY <1>2, <2>1, <2>3, <2>5 DEF EntityOk, es
    <3> QED
      BY <2>4, <2>6, <3>1, MakesBus
  <2> QED
    BY <2>7, <2>8, TouchKeeps
<1>8. CASE ~bus.raised /\ \E i \in here : /\ Norm!has_zone(r) # es[i].aware
                           /\ Put(bus, r) = [entities |-> es, raised |-> TRUE]
  <2>1. PICK i \in here : /\ Norm!has_zone(r) # es[i].aware
                          /\ Put(bus, r) = [entities |-> es, raised |-> TRUE]
    BY <1>8
  <2>2. EntityOk(es[i], fs, n + 1) /\ EntityOk(es[i], fs, n)
    BY <1>4, EntityStaysOk DEF Merged
  <2>3. Stopping(fs, n + 1)
    BY <1>5, <2>1, <2>2 DEF EntityOk, Stopping, Zoned, Norm!has_zone
  <2>4. Touched(bus, Put(bus, r), fs, n, i)
    BY <1>3, <1>4, <2>1, <2>2, <2>3 DEF Touched, Merged
  <2>5. IsBus(Put(bus, r))
    BY <1>2, <2>1, MakesBus
  <2> QED
    BY <2>4, <2>5, TouchKeeps
<1>9. CASE ~bus.raised /\ \E i \in here :
             Put(bus, r) = [entities |-> [es EXCEPT ![i] = MergedEntity(es[i], r)],
                            raised |-> Norm!has_zone(r) \/ r.clash]
  <2>1. PICK i \in here :
             Put(bus, r) = [entities |-> [es EXCEPT ![i] = MergedEntity(es[i], r)],
                            raised |-> Norm!has_zone(r) \/ r.clash]
    BY <1>9
  <2> DEFINE e == MergedEntity(es[i], r)
             new == [es EXCEPT ![i] = e]
  <2>2. EntityOk(e, fs, n + 1)
    BY <1>3, <1>4, MergedIsOk DEF Merged
  <2>3. e.entity_id = r.entity_id
    BY <1>1, <1>3, <1>4, MergedEntityIs DEF Merged, EntityOk
  <2> HIDE DEF e
  <2>4. /\ new \in Seq(ToSet(es) \cup {e}) /\ DOMAIN new = DOMAIN es
        /\ new[i] = e /\ \A k \in DOMAIN es : k # i => new[k] = es[k]
    BY <1>2, <1>4
  <2> HIDE DEF new
  <2>5. new \in Seq(ToSet(new))
    BY <2>4, OwnRange
  <2> DEFINE flag == Norm!has_zone(r) \/ r.clash
  <2>6. flag \in BOOLEAN /\ (flag => Stopping(fs, n + 1))
    <3>1. Norm!has_zone(r) => Zoned(fs, n + 1)
      BY <1>5 DEF Zoned
    <3>2. \E k : Rival(fs, n + 1, k, n + 1)
      BY <1>3, <1>4, <2>1, HasRival DEF Merged
    <3> QED
      BY <3>1, <3>2 DEF Stopping
  <2>7. Put(bus, r) = [entities |-> new, raised |-> flag]
    BY <2>1 DEF new, e
  <2> HIDE DEF flag
  <2>8. Touched(bus, Put(bus, r), fs, n, i)
    BY <1>3, <1>4, <1>9, <2>2, <2>3, <2>4, <2>6, <2>7 DEF Touched, Merged
  <2>9. IsBus(Put(bus, r))
    <3>1. \A k \in DOMAIN new : DOMAIN new[k] = RecordFields
      BY <1>2, <2>2, <2>4 DEF EntityOk
    <3> QED
      BY <2>5, <2>6, <2>7, <3>1, MakesBus
  <2> QED
    BY <2>8, <2>9, TouchKeeps
<1> QED
  BY <1>1, <1>6, <1>7, <1>8, <1>9, PutCases DEF here

(* What put_fragments returns is what its loop makes, step by step.        *)
LEMMA PutLoop ==
  ASSUME NEW fs, fs \in Seq(ToSet(fs))
  PROVE  \E f :
           /\ f[0] = EmptyBus
           /\ \A n \in 1..Len(fs) : f[n] = Put(f[n - 1], fs[n])
           /\ put_fragments(fs) = f[Len(fs)]
<1> DEFINE Loop(f, m) == f = [n \in 0..m |-> IF n = 0 THEN EmptyBus ELSE Put(f[n - 1], fs[n])]
           S == {m \in Nat : \E f : Loop(f, m)}
           h == CHOOSE f : Loop(f, Len(fs))
<1>1. put_fragments(fs) = h[Len(fs)]
  BY DEF put_fragments
<1>2. 0 \in S
  <2>1. Loop([n \in 0..0 |-> EmptyBus], 0)
    OBVIOUS
  <2> QED
    BY <2>1
<1>3. ASSUME NEW m \in Nat, m \in S PROVE m + 1 \in S
  <2>1. PICK f : Loop(f, m)
    BY <1>3
  <2> DEFINE g == [n \in 0..(m + 1) |-> IF n = m + 1 THEN Put(f[m], fs[m + 1]) ELSE f[n]]
  <2>2. /\ f[0] = EmptyBus
        /\ \A n \in 1..m : f[n] = Put(f[n - 1], fs[n])
    BY <2>1
  <2>3. (\A n \in 0..m : g[n] = f[n]) /\ g[m + 1] = Put(f[m], fs[m + 1])
    OBVIOUS
  <2>4. g = [n \in 0..(m + 1) |-> g[n]]
    OBVIOUS
  <2> HIDE DEF g, S, h
  <2>5. ASSUME NEW n \in 1..(m + 1) PROVE g[n] = Put(g[n - 1], fs[n])
    <3> HIDE DEF Loop
    <3>1. CASE n = m + 1
      BY <2>3, <3>1
    <3>2. CASE n # m + 1
      <4>1. n \in 1..m /\ n - 1 \in 0..m /\ n \in 0..m
        BY <3>2
      <4> QED
        BY <2>2, <2>3, <4>1
    <3> QED
      BY <3>1, <3>2
  <2>6. Loop(g, m + 1)
    <3>1. \A n \in 0..(m + 1) : g[n] = IF n = 0 THEN EmptyBus ELSE Put(g[n - 1], fs[n])
      BY <2>2, <2>3, <2>5
    <3> QED
      BY <2>4, <3>1
  <2> HIDE DEF Loop
  <2> QED
    BY <2>6 DEF S
<1>4. Len(fs) \in Nat
  OBVIOUS
<1> HIDE DEF S
<1>5. Len(fs) \in S
  BY <1>2, <1>3, <1>4, NatSetInduction
<1>6. Loop(h, Len(fs))
  BY <1>5 DEF S
<1> HIDE DEF h
<1>7. h[0] = EmptyBus /\ \A n \in 1..Len(fs) : h[n] = Put(h[n - 1], fs[n])
  BY <1>4, <1>6
<1> QED
  BY <1>1, <1>7

(* The loop invariant holds of what put_fragments returns.                 *)
LEMMA PutFragmentsIs ==
  ASSUME NEW fs, Records(fs)
  PROVE  IsBus(put_fragments(fs)) /\ Merged(put_fragments(fs), fs, Len(fs))
<1>1. fs \in Seq(ToSet(fs)) /\ Len(fs) \in Nat /\ DOMAIN fs = 1..Len(fs)
  BY DEF Records
<1>2. PICK f : /\ f[0] = EmptyBus
               /\ \A n \in 1..Len(fs) : f[n] = Put(f[n - 1], fs[n])
               /\ put_fragments(fs) = f[Len(fs)]
  BY <1>1, PutLoop
<1> DEFINE Good(n) == IsBus(f[n]) /\ Merged(f[n], fs, n)
           S == {n \in Nat : n <= Len(fs) => Good(n)}
<1>3. 0 \in S
  <2>1. EmptyBus.entities = <<>> /\ EmptyBus.raised = FALSE
    BY DEF EmptyBus
  <2>2. Merged(EmptyBus, fs, 0)
    BY <2>1 DEF Merged
  <2>3. IsBus(EmptyBus)
    <3>1. <<>> \in Seq(ToSet(<<>>)) /\ DOMAIN <<>> = {}
      OBVIOUS
    <3> QED
      BY <3>1, MakesBus DEF EmptyBus
  <2> QED
    BY <1>2, <2>2, <2>3
<1>4. ASSUME NEW n \in Nat, n \in S PROVE n + 1 \in S
  <2>1. SUFFICES ASSUME n + 1 <= Len(fs) PROVE Good(n + 1)
    OBVIOUS
  <2>2. n + 1 \in 1..Len(fs) /\ (n + 1) - 1 = n /\ n <= Len(fs)
    BY <1>1, <2>1
  <2>3. Good(n)
    BY <1>4, <2>2
  <2>4. f[n + 1] = Put(f[n], fs[n + 1])
    BY <1>2, <2>2
  <2> QED
    BY <1>1, <2>2, <2>3, <2>4, PutKeeps
<1> HIDE DEF S
<1>5. Len(fs) \in S
  BY <1>1, <1>3, <1>4, NatSetInduction
<1> USE DEF S
<1>6. Good(Len(fs))
  BY <1>1, <1>5
<1> QED
  BY <1>2, <1>6

-----------------------------------------------------------------------------
(* Normalizer and bus together *)

(* The records collected are as an adapter makes them *)
RawOk == Records(raw_records)

(* A record was merged unvalidated or unconverted, or nests what is no     *)
(* number where validation does not look                                   *)
Unvalidated ==
  \/ \E i, j \in DOMAIN raw_records :
       /\ MergedInto(i, j)
       /\ \/ ~ValidAs(raw_records[i].entity_type, raw_records[j])
          \/ \E f \in Numeric : Brings(raw_records[i].entity_type, raw_records[j])[f] \in Texts
  \/ \E r \in ToSet(raw_records) :
       /\ Norm!Accepts(r) /\ r.extra \notin {NoValue, Bad}
       /\ get(r.extra, "gpu_utilization") = Bad

(* What stops a run in the bus: a zone, or a key that is no field *)
StopsIngest ==
  \/ \E r \in ToSet(raw_records) : Norm!Accepts(r) /\ Norm!has_zone(r)
  \/ \E i, j \in DOMAIN raw_records : MergedInto(i, j) /\ raw_records[j].clash

(* What stops a run in the classifier: a name, or extra, of a wrong type *)
StopsClassify ==
  \/ \E r \in ToSet(raw_records) : Norm!Accepts(r) /\ OddlyNamed(r)
  \/ \E i, j \in DOMAIN raw_records : MergedInto(i, j) /\ raw_records[j].extra = Bad

(* An entity as the bus has it, and where it is from *)
Describes(e) ==
  /\ DOMAIN e = RecordFields
  /\ e.workload_type \in WorkloadType \cup {Bad}
  /\ Sound(e) \/ Unvalidated
  /\ NameOk(e) \/ StopsClassify
  /\ \E i \in DOMAIN raw_records :
       /\ Usable(raw_records[i])
       /\ raw_records[i].entity_id = e.entity_id
       /\ Single(i) => e = NewEntity(raw_records[i])

(* What is said of the records depends on nothing but the records.         *)
LEMMA SameRecords ==
  ASSUME UNCHANGED raw_records
  PROVE  /\ \A i : Single(i)' <=> Single(i)
         /\ \A e : Describes(e)' <=> Describes(e)
         /\ StopsIngest' <=> StopsIngest
         /\ StopsClassify' <=> StopsClassify
<1>1. \A i : Single(i)' <=> Single(i)
  BY DEF Single
<1>2. \A i, j : MergedInto(i, j)' <=> MergedInto(i, j)
  BY DEF MergedInto
<1>3. Unvalidated' <=> Unvalidated
  BY <1>2 DEF Unvalidated
<1>4. (StopsIngest' <=> StopsIngest) /\ (StopsClassify' <=> StopsClassify)
  BY <1>2 DEF StopsIngest, StopsClassify
<1>5. \A e : Describes(e)' <=> Describes(e)
  BY <1>1, <1>3, <1>4 DEF Describes
<1> QED
  BY <1>1, <1>4, <1>5

(* What normalizer and bus together make of the records: one entity for    *)
(* each id that a usable record has, each from a usable record and, if     *)
(* that is alone in speaking of it, just what its class makes of it; and   *)
(* they raise on nothing but what StopsIngest says (normalizer.py:49-65,   *)
(* state_bus.py:46-123).                                                   *)
LEMMA IngestedIs ==
  ASSUME RawOk
  PROVE  LET bus == put_fragments(Norm!normalize(raw_records)) IN
         /\ IsBus(bus)
         /\ \A i, j \in DOMAIN bus.entities :
              bus.entities[i].entity_id = bus.entities[j].entity_id => i = j
         /\ \A i \in DOMAIN bus.entities : Describes(bus.entities[i])
         /\ IngestFails(bus) => StopsIngest
         /\ ~bus.raised => \A i \in DOMAIN raw_records : Usable(raw_records[i]) =>
              \E j \in DOMAIN bus.entities :
                bus.entities[j].entity_id = raw_records[i].entity_id
<1> DEFINE raw == raw_records
           fs == Norm!normalize(raw)
           bus == put_fragments(fs)
           es == bus.entities
<1>1. raw \in Seq(ToSet(raw)) /\ Len(raw) \in Nat /\ DOMAIN raw = 1..Len(raw)
  BY DEF RawOk, Records
<1>2. fs \in Seq(ToSet(raw))
  BY <1>1, NormalizeIs
<1>3. PICK m : Keeps(m, fs, raw, Len(raw))
  BY <1>1, NormalizeIs
<1> HIDE DEF fs
<1>4. Len(fs) \in Nat /\ DOMAIN fs = 1..Len(fs)
  BY <1>2
<1>5. /\ \A k \in 1..Len(fs) : /\ m[k] \in DOMAIN raw /\ fs[k] = raw[m[k]]
                               /\ Norm!Accepts(raw[m[k]])
      /\ \A k, l \in 1..Len(fs) : k < l => m[k] < m[l]
      /\ \A i \in DOMAIN raw : Norm!Accepts(raw[i]) => \E k \in 1..Len(fs) : m[k] = i
  BY <1>1, <1>3 DEF Keeps
<1>6. \A k \in 1..Len(fs) : fs[k] \in ToSet(raw)
  BY <1>5 DEF ToSet
<1>7. Records(fs)
  BY <1>2, <1>4, <1>5, OwnRange DEF RawOk, Records
<1>8. IsBus(bus) /\ Merged(bus, fs, Len(fs))
  BY <1>7, PutFragmentsIs
<1> HIDE DEF bus
<1>9. \A k, l : Rival(fs, Len(fs), k, l) =>
        /\ MergedInto(m[k], m[l]) /\ m[k] \in DOMAIN raw /\ m[l] \in DOMAIN raw
        /\ fs[k] = raw[m[k]] /\ fs[l] = raw[m[l]]
  BY <1>5 DEF Rival, MergedInto, Usable
<1>10. /\ Suspect(fs, Len(fs)) => Unvalidated
       /\ Stopping(fs, Len(fs)) => StopsIngest
       /\ NameFlaw(fs, Len(fs)) => StopsClassify
  <2>1. Suspect(fs, Len(fs)) => Unvalidated
    BY <1>5, <1>6, <1>9 DEF Suspect, Unvalidated, BringsText, OddGpu
  <2>2. Stopping(fs, Len(fs)) => StopsIngest
    BY <1>5, <1>6, <1>9 DEF Stopping, Zoned, StopsIngest
  <2>3. NameFlaw(fs, Len(fs)) => StopsClassify
    BY <1>5, <1>6, <1>9 DEF NameFlaw, StopsClassify
  <2> QED
    BY <2>1, <2>2, <2>3
<1>11. ASSUME NEW e, EntityOk(e, fs, Len(fs)) PROVE Describes(e)
  <2>1. PICK k \in 1..Len(fs) :
          /\ Creatable(fs[k]) /\ fs[k].entity_id = e.entity_id
          /\ \/ e = NewEntity(fs[k])
             \/ \E l \in 1..Len(fs) : k # l /\ fs[l].entity_id = e.entity_id
    BY <1>11 DEF EntityOk, Origin
  <2>2. Usable(raw[m[k]]) /\ raw[m[k]].entity_id = e.entity_id /\ m[k] \in DOMAIN raw
    BY <1>5, <2>1 DEF Usable
  <2>3. Single(m[k]) => e = NewEntity(raw[m[k]])
    <3>1. ASSUME NEW l \in 1..Len(fs), k # l PROVE m[l] # m[k]
      <4>1. k < l \/ l < k
        BY <1>4, <3>1
      <4>2. m[k] < m[l] \/ m[l] < m[k]
        BY <1>5, <4>1
      <4>3. m[k] \in Int /\ m[l] \in Int
        BY <1>1, <1>5
      <4> QED
        BY <4>2, <4>3
    <3>2. Single(m[k]) /\ e # NewEntity(fs[k]) => FALSE
      BY <1>5, <2>1, <3>1 DEF Single
    <3> QED
      BY <1>5, <3>2
  <2> QED
    BY <1>10, <1>11, <2>2, <2>3 DEF Describes, EntityOk
<1>12. \A i \in DOMAIN es : EntityOk(es[i], fs, Len(fs))
  BY <1>8 DEF Merged
<1>13. IngestFails(bus) => StopsIngest
  BY <1>8, <1>10, <1>12 DEF IngestFails, Merged, EntityOk, Stopping
<1>14. ~bus.raised => \A i \in DOMAIN raw : Usable(raw[i]) =>
         \E j \in DOMAIN es : es[j].entity_id = raw[i].entity_id
  <2> SUFFICES ASSUME ~bus.raised, NEW i \in DOMAIN raw, Usable(raw[i])
               PROVE  \E j \in DOMAIN es : es[j].entity_id = raw[i].entity_id
    OBVIOUS
  <2>1. PICK k \in 1..Len(fs) : fs[k] = raw[i]
    BY <1>5 DEF Usable
  <2> QED
    BY <1>8, <2>1 DEF Merged, At, Usable
<1> QED
  BY <1>8, <1>11, <1>12, <1>13, <1>14 DEF bus, fs, Merged

-----------------------------------------------------------------------------
(* The two sorts *)

(* What fires is finite and has numbers for priorities: what evaluate      *)
(* needs to be a sort                                                      *)
Sortable ==
  /\ IsFiniteSet(Fired)
  /\ \A x \in Fired : PairPriority(x) \in Int
  /\ Pairs \subseteq Nat \X Nat

(* evaluate returns what fires, each pair once, in the order of Outranks:  *)
(* by priority, and equal ones in the order of the loop                    *)
(* (policy_engine.py:122-138).                                             *)
LEMMA EvaluateSorts ==
  ASSUME Sortable
  PROVE  \E place \in [Fired -> 1..Cardinality(Fired)] :
           /\ \A k \in 1..Cardinality(Fired) : \E x \in Fired : place[x] = k
           /\ \A x, y \in Fired : Outranks(x, y) <=> place[x] < place[y]
           /\ \A x, y \in Fired : place[x] = place[y] => x = y
           /\ DOMAIN evaluate = 1..Cardinality(Fired)
           /\ \A x \in Fired : evaluate[place[x]] = Recommend(x)
<1> DEFINE N == Cardinality(Fired)
           Over == {p \in Fired \X Fired : Outranks(p[1], p[2])}
           place == [x \in Fired |-> 1 + Cardinality({y \in Fired : Outranks(y, x)})]
<1>1. \A x, y \in Fired : <<x, y>> \in Over <=> Outranks(x, y)
  OBVIOUS
<1>2. \A x \in Fired : x = <<x[1], x[2]>> /\ x[1] \in Nat /\ x[2] \in Nat
                       /\ PairPriority(x) \in Int
  BY DEF Sortable, Fired, Pairs
<1>3. \A x \in Fired : ~Outranks(x, x)
  BY <1>2 DEF Outranks, Earlier
<1>4. \A x, y, z \in Fired : Outranks(x, y) /\ Outranks(y, z) => Outranks(x, z)
  <2> HIDE DEF Over
  <2> QED
    BY <1>2 DEF Outranks, Earlier
<1>5. \A x, y \in Fired : x # y => Outranks(x, y) \/ Outranks(y, x)
  <2> SUFFICES ASSUME NEW x \in Fired, NEW y \in Fired, x # y
               PROVE  Outranks(x, y) \/ Outranks(y, x)
    OBVIOUS
  <2>1. x[1] # y[1] \/ x[2] # y[2]
    BY <1>2
  <2> QED
    BY <1>2, <2>1 DEF Outranks, Earlier
<1>6. place = Places(Over, Fired)
  <2>1. \A x \in Fired : {y \in Fired : Outranks(y, x)} = {y \in Fired : <<y, x>> \in Over}
    BY <1>1
  <2> HIDE DEF Over
  <2> QED
    BY <2>1 DEF Places
<1>7. /\ \A x \in Fired : place[x] \in 1..N
      /\ \A k \in 1..N : \E x \in Fired : place[x] = k
      /\ \A x, y \in Fired : Outranks(x, y) <=> place[x] < place[y]
      /\ \A x, y \in Fired : place[x] = place[y] => x = y
  <2>1. Over \subseteq Fired \X Fired
    OBVIOUS
  <2> HIDE DEF Over, place
  <2>2. Orders(Over, Fired)
    BY <1>1, <1>3, <1>4, <1>5, <2>1 DEF Orders
  <2>3. Ranks(place, Over, Fired)
    BY <1>6, <2>2, PlacesAreRanks DEF Sortable
  <2> QED
    BY <1>1, <2>3 DEF Ranks
<1>8. evaluate = [k \in {place[x] : x \in Fired} |-> Recommend(CHOOSE x \in Fired : place[x] = k)]
  BY DEF evaluate
<1>9. place \in [Fired -> 1..N]
  BY <1>7
<1> HIDE DEF place
<1>10. {place[x] : x \in Fired} = 1..N
  BY <1>7
<1>11. \A x \in Fired : (CHOOSE y \in Fired : place[y] = place[x]) = x
  BY <1>7
<1>12. \A x \in Fired : evaluate[place[x]] = Recommend(x)
  BY <1>8, <1>10, <1>11, <1>7
<1>13. DOMAIN evaluate = 1..N
  BY <1>8, <1>10
<1> WITNESS place \in [Fired -> 1..N]
<1> QED
  BY <1>7, <1>12, <1>13

(* The recommender's sort reorders the list by priority and keeps equal    *)
(* ones in their order (recommender.py:52).                                *)
LEMMA ProcessSorts ==
  ASSUME NEW N \in Nat, DOMAIN recommendations = 1..N,
         \A i \in 1..N : recommendations[i].priority_score \in Int
  PROVE  \E place \in [1..N -> 1..N] :
           /\ \A k \in 1..N : \E i \in 1..N : place[i] = k
           /\ \A i, j \in 1..N : Before(i, j) <=> place[i] < place[j]
           /\ DOMAIN process = 1..N
           /\ \A i \in 1..N :
                process[place[i]] = [rec |-> Marked(recommendations[i]),
                                     explanation |->
                                       _build_explanation(Marked(recommendations[i]))]
<1> DEFINE L == 1..N
           Over == {p \in L \X L : Before(p[1], p[2])}
           place == [i \in L |-> 1 + Cardinality({j \in L : Before(j, i)})]
           Result(rec) == [rec |-> Marked(rec), explanation |-> _build_explanation(Marked(rec))]
<1>1. \A i, j \in L : <<i, j>> \in Over <=> Before(i, j)
  OBVIOUS
<1>2. /\ \A i \in L : ~Before(i, i)
      /\ \A i, j, k \in L : Before(i, j) /\ Before(j, k) => Before(i, k)
      /\ \A i, j \in L : i # j => Before(i, j) \/ Before(j, i)
  BY DEF Before
<1>3. IsFiniteSet(L) /\ Cardinality(L) = N
  BY FS_Interval
<1>4. \A i \in L : {j \in L : Before(j, i)} = {j \in L : <<j, i>> \in Over}
  BY <1>1
<1> HIDE DEF L
<1>5. place = Places(Over, L)
  <2> HIDE DEF Over
  <2> QED
    BY <1>4 DEF Places
<1>6. /\ \A i \in L : place[i] \in 1..N
      /\ \A k \in 1..N : \E i \in L : place[i] = k
      /\ \A i, j \in L : Before(i, j) <=> place[i] < place[j]
      /\ \A i, j \in L : place[i] = place[j] => i = j
  <2>1. Over \subseteq L \X L
    OBVIOUS
  <2> HIDE DEF Over, place
  <2>2. Orders(Over, L)
    BY <1>1, <1>2, <2>1 DEF Orders
  <2>3. Ranks(place, Over, L)
    BY <1>3, <1>5, <2>2, PlacesAreRanks
  <2> QED
    BY <1>1, <1>3, <2>3 DEF Ranks
<1>7. process = [k \in {place[i] : i \in L} |->
                   Result(recommendations[CHOOSE i \in L : place[i] = k])]
  BY DEF process, L
<1>8. place \in [L -> 1..N]
  BY <1>6
<1> HIDE DEF place, Result
<1>9. {place[i] : i \in L} = 1..N
  BY <1>6
<1>10. \A i \in L : (CHOOSE j \in L : place[j] = place[i]) = i
  BY <1>6
<1>11. \A i \in L : process[place[i]] = Result(recommendations[i])
  BY <1>6, <1>7, <1>9, <1>10
<1>12. DOMAIN process = 1..N
  BY <1>7, <1>9
<1> USE DEF L, Result
<1> WITNESS place \in [1..N -> 1..N]
<1> QED
  BY <1>6, <1>11, <1>12

-----------------------------------------------------------------------------
(* The engine and the classifier *)

(* Several checks in a row pass if each does; if they raise, then one      *)
(* raises after all before it passed.                                      *)
LEMMA AllOfIs ==
  ASSUME NEW checks
  PROVE  /\ AllOf(checks) = "yes" <=> \A i \in DOMAIN checks : checks[i] = "yes"
         /\ AllOf(checks) = "raises" =>
              \E i \in DOMAIN checks :
                checks[i] = "raises" /\ \A j \in DOMAIN checks : j < i => checks[j] = "yes"
BY DEF AllOf

(* A rule fires if its six checks pass (policy_engine.py:140-174).         *)
LEMMA FiresIs ==
  ASSUME NEW rule, NEW e, NEW t
  PROVE  Fires(rule, e, t) <=>
           /\ _matches_scenario(rule, e) = "yes"
           /\ _check_preconditions(rule, e) = "yes"
           /\ _has_required_signals(rule, e) = "yes"
           /\ _evaluate_logic(rule, e, t) = "yes"
           /\ MeetsMinimum(rule, e) = "yes"
           /\ Builds(rule, e) = "yes"
<1> DEFINE checks == <<_matches_scenario(rule, e), _check_preconditions(rule, e),
                       _has_required_signals(rule, e), _evaluate_logic(rule, e, t),
                       MeetsMinimum(rule, e), Builds(rule, e)>>
<1>1. /\ DOMAIN checks = 1..6
      /\ checks[1] = _matches_scenario(rule, e) /\ checks[2] = _check_preconditions(rule, e)
      /\ checks[3] = _has_required_signals(rule, e) /\ checks[4] = _evaluate_logic(rule, e, t)
      /\ checks[5] = MeetsMinimum(rule, e) /\ checks[6] = Builds(rule, e)
  OBVIOUS
<1>2. Fires(rule, e, t) <=> AllOf(checks) = "yes"
  BY DEF Fires, _evaluate_rule
<1> HIDE DEF checks
<1>3. AllOf(checks) = "yes" <=> \A i \in 1..6 : checks[i] = "yes"
  BY <1>1, AllOfIs
<1> QED
  BY <1>1, <1>2, <1>3

(* Numbers are numbers.                                                    *)
LEMMA IntIsNumber == \A v \in Int : ~NaN(v)
<1>1. \A v \in {NoValue, Bad} \cup Texts : v \notin Int
  BY ValueAssumption, Zenon
<1> QED
  BY <1>1, Zenon DEF NaN

(* A rule of which every check can be made raises on no sound entity,      *)
(* whichever fields that lacks (policy_engine.py:140-174, 197-360).        *)
LEMMA SoundNeverRaises ==
  ASSUME NEW rule, NEW e, NEW t, Sound(e), WellFormed(rule), NumbersOnly(t)
  PROVE  ~Raises(rule, e, t)
<1>1. /\ \A f \in Measured : e[f] # NoValue => ~NaN(e[f])
      /\ e.queue_depth \notin {Bad} \cup Texts
      /\ e.confidence_score \in 0..100 /\ e.extra # Bad
      /\ GpuUtilization(e) # NoValue => ~NaN(Plain(GpuUtilization(e)))
  BY PlainIs DEF Sound, Measured, GpuUtilization, NaN
<1>2. ~NaN(e.confidence_score)
  <2>1. e.confidence_score \in Int
    BY <1>1
  <2> HIDE DEF NaN
  <2> QED
    BY <2>1, IntIsNumber
<1>3. \A name \in DOMAIN Default : ~NaN(Threshold(t, name))
  <2>1. \A name \in DOMAIN Default : Default[name] \in Int
    BY DEF Default
  <2> QED
    BY <2>1, IntIsNumber DEF NumbersOnly, Threshold
<1>4. _matches_scenario(rule, e) # "raises"
  BY DEF WellFormed, _matches_scenario, Holds
<1>5. \A field : ~FieldRaises(e, field)
  BY <1>1 DEF FieldRaises
<1>6. _check_preconditions(rule, e) # "raises"
  <2> DEFINE checks == [i \in DOMAIN rule.preconditions |->
                          _eval_precondition(rule.preconditions[i], e)]
  <2>1. ASSUME NEW i \in DOMAIN rule.preconditions PROVE checks[i] # "raises"
    <3> DEFINE precond == rule.preconditions[i]
    <3>1. precond # Bad
      BY DEF WellFormed
    <3> HIDE DEF precond
    <3>2. _eval_precondition(precond, e) # "raises"
      BY <1>5, <3>1 DEF _eval_precondition, Holds
    <3> QED
      BY <3>2 DEF precond
  <2>2. DOMAIN checks = DOMAIN rule.preconditions
    OBVIOUS
  <2>3. _check_preconditions(rule, e) = AllOf(checks)
    BY DEF _check_preconditions, WellFormed
  <2> HIDE DEF checks
  <2> QED
    BY <2>1, <2>2, <2>3, AllOfIs
<1>7. _has_required_signals(rule, e) # "raises"
  <2> DEFINE checks == [i \in DOMAIN rule.required_signals |->
                          HasSignal(e, rule.required_signals[i])]
  <2>1. ASSUME NEW i \in DOMAIN rule.required_signals PROVE checks[i] # "raises"
    BY <1>5 DEF WellFormed, HasSignal, Present, Holds
  <2>2. DOMAIN checks = DOMAIN rule.required_signals
    OBVIOUS
  <2>3. _has_required_signals(rule, e) = AllOf(checks)
    BY DEF _has_required_signals, WellFormed
  <2> HIDE DEF checks
  <2> QED
    BY <2>1, <2>2, <2>3, AllOfIs
<1>8. \A v, w : ~NaN(v) /\ ~NaN(w) => Greater(v, w) # "raises" /\ AtMost(v, w) # "raises"
  BY DEF Greater, AtMost, Holds
<1>9. \A v : Present(v) # "raises" /\ (Present(v) = "yes" => v # NoValue)
  BY DEF Present, Holds
<1>10. /\ \A b : Holds(b) # "raises"
       /\ Readable(t) # "raises"
  BY DEF Holds, Readable, NumbersOnly
<1>11. /\ e.latency_p95_ms # NoValue => ~NaN(e.latency_p95_ms)
       /\ e.queue_depth # NoValue => ~NaN(e.queue_depth)
       /\ e.throughput # NoValue => ~NaN(e.throughput)
  BY <1>1 DEF Measured
<1>12. {"target_p95_ms", "min_queue_depth_for_scale", "target_gpu_utilization",
        "min_queue_depth_for_batching", "idle_throughput_threshold",
        "no_action_confidence_threshold"} \subseteq DOMAIN Default
  BY DEF Default
<1> HIDE DEF Greater, AtMost, Present, Holds, Readable, Threshold, NaN
<1>13. _logic_queue_pressure(e, t) # "raises"
  <2> DEFINE checks == <<Holds(IsService(e)), Readable(t),
                         Present(e.latency_p95_ms), Present(e.queue_depth),
                         Greater(e.latency_p95_ms, Threshold(t, "target_p95_ms")),
                         Greater(e.queue_depth, Threshold(t, "min_queue_depth_for_scale"))>>
  <2>1. /\ DOMAIN checks = 1..6
        /\ checks[1] = Holds(IsService(e)) /\ checks[2] = Readable(t)
        /\ checks[3] = Present(e.latency_p95_ms) /\ checks[4] = Present(e.queue_depth)
        /\ checks[5] = Greater(e.latency_p95_ms, Threshold(t, "target_p95_ms"))
        /\ checks[6] = Greater(e.queue_depth, Threshold(t, "min_queue_depth_for_scale"))
    OBVIOUS
  <2>2. _logic_queue_pressure(e, t) = AllOf(checks)
    BY DEF _logic_queue_pressure
  <2> HIDE DEF checks
  <2>3. checks[3] = "yes" => checks[5] # "raises"
    BY <1>3, <1>8, <1>9, <1>11, <1>12, <2>1
  <2>4. checks[4] = "yes" => checks[6] # "raises"
    BY <1>3, <1>8, <1>9, <1>11, <1>12, <2>1
  <2> QED
    BY <1>9, <1>10, <2>1, <2>2, <2>3, <2>4, AllOfIs
<1>14. _logic_low_gpu_high_queue(e, t) # "raises"
  <2> DEFINE gpu == GpuUtilization(e)
             checks == <<Holds(IsService(e)), Readable(t),
                         IF e.extra = Bad THEN "raises" ELSE Present(gpu),
                         Present(e.queue_depth), Underused(e, t),
                         Greater(e.queue_depth, Threshold(t, "min_queue_depth_for_batching"))>>
  <2>1. /\ DOMAIN checks = 1..6
        /\ checks[1] = Holds(IsService(e)) /\ checks[2] = Readable(t)
        /\ checks[3] = Present(gpu) /\ checks[4] = Present(e.queue_depth)
        /\ checks[5] = Underused(e, t)
        /\ checks[6] = Greater(e.queue_depth, Threshold(t, "min_queue_depth_for_batching"))
    BY <1>1
  <2>2. _logic_low_gpu_high_queue(e, t) = AllOf(checks)
    BY DEF _logic_low_gpu_high_queue
  <2> HIDE DEF checks
  <2>3. checks[3] = "yes" => checks[5] # "raises"
    BY <1>1, <1>3, <1>8, <1>9, <1>12, <2>1 DEF Underused
  <2>4. checks[4] = "yes" => checks[6] # "raises"
    BY <1>3, <1>8, <1>9, <1>11, <1>12, <2>1
  <2> QED
    BY <1>9, <1>10, <2>1, <2>2, <2>3, <2>4, AllOfIs
<1>15. _logic_idle_service(e, t) # "raises"
  <2> DEFINE checks == <<Holds(IsService(e)), Readable(t), Present(e.throughput),
                         AtMost(e.throughput, Threshold(t, "idle_throughput_threshold"))>>
  <2>1. /\ DOMAIN checks = 1..4
        /\ checks[1] = Holds(IsService(e)) /\ checks[2] = Readable(t)
        /\ checks[3] = Present(e.throughput)
        /\ checks[4] = AtMost(e.throughput, Threshold(t, "idle_throughput_threshold"))
    OBVIOUS
  <2>2. _logic_idle_service(e, t) = AllOf(checks)
    BY DEF _logic_idle_service
  <2> HIDE DEF checks
  <2>3. checks[3] = "yes" => checks[4] # "raises"
    BY <1>3, <1>8, <1>9, <1>11, <1>12, <2>1
  <2> QED
    BY <1>9, <1>10, <2>1, <2>2, <2>3, AllOfIs
<1>16. _logic_low_confidence(e, t) # "raises"
  <2> DEFINE checks == <<Readable(t), Greater(Threshold(t, "no_action_confidence_threshold"),
                                              e.confidence_score)>>
  <2>1. /\ DOMAIN checks = 1..2
        /\ checks[1] # "raises" /\ checks[2] # "raises"
    BY <1>2, <1>3, <1>8, <1>10, <1>12
  <2>2. _logic_low_confidence(e, t) = AllOf(checks)
    BY DEF _logic_low_confidence
  <2> HIDE DEF checks
  <2> QED
    BY <2>1, <2>2, AllOfIs
<1>17. _evaluate_logic(rule, e, t) # "raises"
  <2>1. rule.keywords # Bad /\ _logic_unhealthy_node(e) # "raises"
    BY <1>10 DEF WellFormed, _logic_unhealthy_node
  <2> QED
    BY <1>13, <1>14, <1>15, <1>16, <2>1 DEF _evaluate_logic
<1>18. MeetsMinimum(rule, e) # "raises"
  BY <1>2, <1>8 DEF MeetsMinimum, WellFormed
<1>19. Builds(rule, e) # "raises"
  BY <1>1 DEF Builds, WellFormed
<1> DEFINE checks == <<_matches_scenario(rule, e), _check_preconditions(rule, e),
                       _has_required_signals(rule, e), _evaluate_logic(rule, e, t),
                       MeetsMinimum(rule, e), Builds(rule, e)>>
<1>20. DOMAIN checks = 1..6 /\ \A i \in 1..6 : checks[i] # "raises"
  BY <1>4, <1>6, <1>7, <1>17, <1>18, <1>19
<1>21. Raises(rule, e, t) <=> AllOf(checks) = "raises"
  BY DEF Raises, _evaluate_rule
<1> HIDE DEF checks
<1> QED
  BY <1>20, <1>21, AllOfIs

(* What fires has a confidence that is one: building it would raise        *)
LEMMA FiredConfidence ==
  ASSUME NEW rule, NEW e, NEW t, Fires(rule, e, t)
  PROVE  e.confidence_score \in 0..100
BY FiresIs DEF Builds

(* The priority of an entity with a confidence is a number.                *)
LEMMA PriorityIsNumber ==
  ASSUME NEW rule, NEW e, e.confidence_score \in 0..100, rule.risk_level \in RiskLevel
  PROVE  priority_score(rule, e) \in Int
<1>1. BenefitScore(e) \in Int
  BY DEF BenefitScore
<1>2. _compute_urgency(e) \in Int
  BY DEF _compute_urgency, Max2
<1>3. RiskFactor[rule.risk_level] \in Int
  BY DEF RiskFactor, RiskLevel
<1>4. e.confidence_score \in Int
  OBVIOUS
<1> DEFINE a == BenefitScore(e)
           b == _compute_urgency(e)
           c == e.confidence_score
           d == RiskFactor[rule.risk_level]
<1>5. priority_score(rule, e) = a * b * c * d
  BY DEF priority_score
<1> HIDE DEF a, b, c, d
<1>6. a * b \in Int
  BY <1>1, <1>2 DEF a, b
<1>7. a * b * c \in Int
  BY <1>6, <1>4 DEF c
<1>8. a * b * c * d \in Int
  BY <1>7, <1>3 DEF d
<1> QED
  BY <1>5, <1>8

(* The classifier changes the workload type alone.                         *)
LEMMA ClassifyIs ==
  ASSUME NEW e, DOMAIN e = RecordFields
  PROVE  /\ DOMAIN classify(e) = RecordFields
         /\ classify(e).workload_type = _infer_workload_type(e)
         /\ \A f \in RecordFields \ {"workload_type"} : classify(e)[f] = e[f]
BY DEF classify, RecordFields

(* What the classifier says is a workload type, or what stood there, and a *)
(* sound entity stays sound (workload_classifier.py).                      *)
LEMMA ClassifyKeeps ==
  ASSUME NEW e, DOMAIN e = RecordFields
  PROVE  /\ classify(e).entity_id = e.entity_id
         /\ Sound(e) => Sound(classify(e))
         /\ e.workload_type \in WorkloadType \cup {Bad} =>
              classify(e).workload_type \in WorkloadType \cup {Bad}
<1>1. /\ classify(e).entity_id = e.entity_id
      /\ \A f \in Measured : classify(e)[f] = e[f]
      /\ classify(e).confidence_score = e.confidence_score
      /\ classify(e).extra = e.extra
      /\ classify(e).workload_type = _infer_workload_type(e)
  BY ClassifyIs DEF RecordFields, Measured
<1>2. Heuristic(e) \in WorkloadType
  BY DEF Heuristic, SlurmOrOnline, WorkloadType
<1> QED
  BY <1>1, <1>2 DEF Sound, _infer_workload_type

(* The classifier raises on no entity whose name, if it has one, is a      *)
(* string (workload_classifier.py:106).                                    *)
LEMMA NameIsRead ==
  ASSUME NEW e, NameOk(e)
  PROVE  ~NameRaises(e)
BY DEF NameOk, NameRaises

-----------------------------------------------------------------------------
(* The inductive invariant *)

(* Normalizer and bus have run *)
Ingested == pc \in {"classify", "evaluate", "process", "done", "failed_classify",
                    "failed_evaluate"}

(* The classifier has not *)
Unclassified == pc \in {"classify", "failed_classify"}

(* The entities are those IngestedIs describes, classified once the        *)
(* classifier ran                                                          *)
EntityInv ==
  /\ entities \in Seq(ToSet(entities))
  /\ \A i, j \in DOMAIN entities : entities[i].entity_id = entities[j].entity_id => i = j
  /\ \A i \in DOMAIN entities :
       \E e : Describes(e) /\ entities[i] = IF Unclassified THEN e ELSE classify(e)
  /\ Ingested =>
       \A i \in DOMAIN raw_records : Usable(raw_records[i]) =>
         \E j \in DOMAIN entities : entities[j].entity_id = raw_records[i].entity_id
  /\ ~Ingested => entities = <<>>

(* What was loaded and collected is what could be, and ingesting and       *)
(* classifying failed for a reason                                         *)
StageInv ==
  /\ pc \in Stages /\ control_mode \in ControlMode /\ policy_mode \in PolicyModes
  /\ rules \in {<<>>} \cup {book.rules : book \in Rulebooks}
  /\ RawOk
  /\ pc = "failed_ingest" => StopsIngest
  /\ pc = "failed_classify" => StopsClassify

(* The two lists are what evaluate and process make of the state, and      *)
(* evaluation failed because something raised                              *)
OutputInv ==
  /\ pc = "failed_evaluate" => ~NoneRaises
  /\ pc \in {"process", "done"} => NoneRaises
  /\ recommendations = IF pc \in {"process", "done"} THEN evaluate ELSE <<>>
  /\ results = IF pc = "done" THEN process ELSE <<>>

(* The inductive invariant. None of the properties below is one: each      *)
(* speaks of the last lists of a run, and needs where they came from.      *)
IInv == EntityInv /\ StageInv /\ OutputInv

(* What evaluate returns depends on entities, rules, thresholds and        *)
(* control mode alone.                                                     *)
LEMMA SameEvaluation ==
  ASSUME UNCHANGED <<control_mode, rules, thresholds, entities>>
  PROVE  evaluate' = evaluate /\ (NoneRaises' <=> NoneRaises)
<1>1. Pairs' = Pairs
  BY DEF Pairs
<1>2. \A x : PairPriority(x)' = PairPriority(x)
  BY DEF PairPriority
<1>3. \A x, y : Outranks(x, y)' <=> Outranks(x, y)
  BY <1>2 DEF Outranks
<1>4. Fired' = Fired
  BY <1>1 DEF Fired
<1>5. \A x : Recommend(x)' = Recommend(x)
  BY DEF Recommend
<1> DEFINE place == [x \in Fired |-> 1 + Cardinality({y \in Fired : Outranks(y, x)})]
           at(k) == CHOOSE x \in Fired : place[x] = k
<1>6. place' = place
  <2>1. \A x : {y \in Fired : Outranks(y, x)}' = {y \in Fired : Outranks(y, x)}
    BY <1>3, <1>4
  <2> QED
    BY <1>4, <2>1
<1>7. /\ evaluate = [k \in {place[x] : x \in Fired} |-> Recommend(at(k))]
      /\ evaluate' = [k \in {place[x] : x \in Fired} |-> Recommend(at(k))]'
  BY DEF evaluate
<1> HIDE DEF place
<1>8. \A k : at(k)' = at(k)
  BY <1>4, <1>6
<1> HIDE DEF at
<1>9. {place[x] : x \in Fired}' = {place[x] : x \in Fired}
  BY <1>4, <1>6
<1>10. \A k : Recommend(at(k))' = Recommend(at(k))
  BY <1>5, <1>8 DEF Recommend
<1>11. evaluate' = evaluate
  BY <1>7, <1>9, <1>10
<1> QED
  BY <1>1, <1>11 DEF NoneRaises

(* What process returns depends on the recommendations and the control     *)
(* mode alone.                                                             *)
LEMMA SameProcess ==
  ASSUME UNCHANGED <<control_mode, recommendations>>
  PROVE  process' = process
<1>1. \A i, j : Before(i, j)' <=> Before(i, j)
  BY DEF Before
<1>2. \A rec : Marked(rec)' = Marked(rec)
  BY DEF Marked
<1> QED
  BY <1>1, <1>2 DEF process

(* The entities stay those of the records while both are left alone.       *)
LEMMA SameEntities ==
  ASSUME UNCHANGED <<raw_records, entities>>, Unclassified' <=> Unclassified,
         Ingested' <=> Ingested, EntityInv
  PROVE  EntityInv'
<1>1. \A e : Describes(e)' <=> Describes(e)
  BY SameRecords
<1> QED
  BY <1>1 DEF EntityInv

(* Before the bus is read, all lists are empty.                            *)
LEMMA EmptyKeeps ==
  ASSUME pc' \in Stages, ~Ingested', UNCHANGED <<entities, recommendations, results>>,
         ~Ingested, EntityInv, OutputInv
  PROVE  EntityInv' /\ OutputInv'
<1>1. entities = <<>> /\ recommendations = <<>> /\ results = <<>>
  BY DEF EntityInv, OutputInv, Ingested
<1>2. entities' = <<>> /\ recommendations' = <<>> /\ results' = <<>>
  BY <1>1
<1>3. DOMAIN <<>> = {} /\ <<>> \in Seq(ToSet(<<>>))
  OBVIOUS
<1>4. EntityInv'
  BY <1>2, <1>3 DEF EntityInv
<1>5. OutputInv'
  BY <1>2 DEF OutputInv, Ingested
<1> QED
  BY <1>4, <1>5

(* A run without a scenario has no records.                                *)
LEMMA NothingIsARecord == Records(<<>>)
BY DEF Records

(* The invariant holds at the start.                                       *)
LEMMA InitKeeps == Init => IInv
<1> SUFFICES ASSUME Init PROVE IInv
  OBVIOUS
<1>1. EntityInv
  <2>1. DOMAIN <<>> = {} /\ <<>> \in Seq(ToSet(<<>>))
    OBVIOUS
  <2> QED
    BY <2>1 DEF Init, EntityInv, Ingested
<1>2. StageInv
  BY PipelineAssumption, NothingIsARecord DEF Init, StageInv, Stages, RawOk
<1>3. OutputInv
  BY DEF Init, OutputInv
<1> QED
  BY <1>1, <1>2, <1>3 DEF IInv

(* Loading rules and pack keeps the invariant, failing or not              *)
(* (policy_engine.py:88-120).                                              *)
LEMMA LoadKeeps ==
  ASSUME IInv,
         \/ \E book \in Rulebooks : LoadRules(book)
         \/ NoRules \/ MalformedRules
         \/ \E pack \in Packs : LoadPolicyPack(pack) \/ PackRaises(pack)
         \/ MalformedPack \/ NoPack
  PROVE  IInv'
<1>1. /\ pc \in {"rules", "pack"} /\ pc' \in Stages
      /\ pc' \in {"pack", "collect", "failed_rules", "failed_pack"}
      /\ UNCHANGED <<control_mode, raw_records, entities, recommendations, results>>
  BY DEF LoadRules, NoRules, MalformedRules, LoadPolicyPack, PackRaises, MalformedPack,
         NoPack, Stages
<1>2. EntityInv' /\ OutputInv'
  BY <1>1, EmptyKeeps DEF IInv, Ingested
<1>3. rules' \in {<<>>} \cup {book.rules : book \in Rulebooks}
  BY DEF LoadRules, NoRules, MalformedRules, LoadPolicyPack, PackRaises, MalformedPack,
         NoPack, IInv, StageInv
<1>4. policy_mode' \in PolicyModes
  BY DEF LoadRules, NoRules, MalformedRules, LoadPolicyPack, PackRaises, MalformedPack,
         NoPack, IInv, StageInv
<1>5. StageInv'
  BY <1>1, <1>3, <1>4 DEF IInv, StageInv, RawOk
<1> QED
  BY <1>2, <1>5 DEF IInv

(* Collecting keeps the invariant, failing or not.                         *)
LEMMA CollectKeeps ==
  ASSUME IInv,
         \/ \E scenario \in Scenarios : Collect(scenario) \/ CollectRaises(scenario)
         \/ NoScenario
  PROVE  IInv'
<1>1. /\ pc = "collect" /\ pc' \in Stages /\ pc' \in {"ingest", "failed_collect"}
      /\ UNCHANGED <<control_mode, rules, policy_mode, entities, recommendations, results>>
  BY DEF Collect, CollectRaises, NoScenario, Stages
<1>2. EntityInv' /\ OutputInv'
  BY <1>1, EmptyKeeps DEF IInv, Ingested
<1>3. RawOk'
  <2>1. CASE raw_records' = raw_records
    BY <2>1 DEF IInv, StageInv, RawOk
  <2>2. CASE \E scenario \in Scenarios : raw_records' = collect(scenario)
    BY <2>2, RecordAssumption DEF RawOk, Records, ToSet
  <2> QED
    BY <2>1, <2>2 DEF Collect, CollectRaises, NoScenario
<1>4. StageInv'
  BY <1>1, <1>3 DEF IInv, StageInv
<1> QED
  BY <1>2, <1>4 DEF IInv

(* Normalizer and bus establish what the invariant says of entities, or    *)
(* fail for a reason.                                                      *)
LEMMA IngestKeeps ==
  ASSUME IInv, Ingest \/ IngestRaises
  PROVE  IInv'
<1> DEFINE bus == put_fragments(Norm!normalize(raw_records))
<1>1. /\ IsBus(bus)
      /\ \A i, j \in DOMAIN bus.entities :
           bus.entities[i].entity_id = bus.entities[j].entity_id => i = j
      /\ \A i \in DOMAIN bus.entities : Describes(bus.entities[i])
      /\ IngestFails(bus) => StopsIngest
      /\ ~bus.raised => \A i \in DOMAIN raw_records : Usable(raw_records[i]) =>
           \E j \in DOMAIN bus.entities :
             bus.entities[j].entity_id = raw_records[i].entity_id
  BY IngestedIs DEF IInv, StageInv
<1>2. CASE Ingest
  <2>1. /\ pc = "ingest" /\ pc' = "classify" /\ ~IngestFails(bus) /\ entities' = bus.entities
        /\ UNCHANGED <<control_mode, rules, policy_mode, raw_records, recommendations, results>>
    BY <1>2 DEF Ingest
  <2> HIDE DEF bus
  <2>2. bus.entities \in Seq(ToSet(bus.entities)) /\ ~bus.raised
    BY <1>1, <2>1 DEF IsBus, IngestFails
  <2>3. \A e : Describes(e)' <=> Describes(e)
    BY <2>1, SameRecords
  <2>4. EntityInv'
    BY <1>1, <2>1, <2>2, <2>3 DEF EntityInv, Ingested, Unclassified
  <2>5. StageInv'
    BY <2>1 DEF IInv, StageInv, Stages, RawOk
  <2>6. OutputInv'
    BY <2>1 DEF IInv, OutputInv
  <2> QED
    BY <2>4, <2>5, <2>6 DEF IInv
<1>3. CASE IngestRaises
  <2>1. /\ pc = "ingest" /\ pc' = "failed_ingest" /\ IngestFails(bus)
        /\ UNCHANGED <<control_mode, rules, policy_mode, raw_records, entities,
                       recommendations, results>>
    BY <1>3 DEF IngestRaises
  <2>2. EntityInv' /\ OutputInv'
    BY <2>1, EmptyKeeps DEF IInv, Ingested, Stages
  <2>3. StopsIngest'
    BY <1>1, <2>1, SameRecords
  <2> HIDE DEF bus
  <2>4. StageInv'
    BY <2>1, <2>3 DEF IInv, StageInv, Stages, RawOk
  <2> QED
    BY <2>2, <2>4 DEF IInv
<1> QED
  BY <1>2, <1>3

(* The classifier keeps the invariant.                                     *)
LEMMA ClassifyStepKeeps == IInv /\ Classify => IInv'
<1> SUFFICES ASSUME IInv, Classify PROVE IInv'
  OBVIOUS
<1>1. /\ pc = "classify" /\ pc' = "evaluate" /\ entities' = classify_all(entities)
      /\ UNCHANGED <<control_mode, rules, policy_mode, raw_records, recommendations, results>>
  BY DEF Classify
<1>2. /\ entities \in Seq(ToSet(entities)) /\ Len(entities) \in Nat
      /\ DOMAIN entities = 1..Len(entities)
  BY DEF IInv, EntityInv
<1>3. entities' = [i \in 1..Len(entities) |-> classify(entities[i])]
  BY <1>1, <1>2 DEF classify_all
<1>4. /\ DOMAIN entities' = DOMAIN entities
      /\ \A i \in DOMAIN entities : entities'[i] = classify(entities[i])
      /\ entities' \in Seq(ToSet(entities'))
  <2>1. entities' \in Seq({classify(entities[i]) : i \in 1..Len(entities)})
    BY <1>2, <1>3
  <2> QED
    BY <1>2, <1>3, <2>1, OwnRange
<1>5. \A i \in DOMAIN entities :
        /\ Describes(entities[i])
        /\ entities'[i].entity_id = entities[i].entity_id
  BY <1>1, <1>4, ClassifyKeeps DEF IInv, EntityInv, Describes, Unclassified
<1>6. \A e : Describes(e)' <=> Describes(e)
  BY <1>1, SameRecords
<1> HIDE DEF classify
<1>7. EntityInv'
  <2>1. \A i, j \in DOMAIN entities' : entities'[i].entity_id = entities'[j].entity_id => i = j
    BY <1>4, <1>5 DEF IInv, EntityInv
  <2>2. \A i \in DOMAIN entities' : \E e : Describes(e)' /\ entities'[i] = classify(e)
    BY <1>4, <1>5, <1>6
  <2>3. \A i \in DOMAIN raw_records' : Usable(raw_records'[i]) =>
          \E j \in DOMAIN entities' : entities'[j].entity_id = raw_records'[i].entity_id
    BY <1>1, <1>4, <1>5 DEF IInv, EntityInv, Ingested
  <2> QED
    BY <1>1, <1>4, <2>1, <2>2, <2>3 DEF EntityInv, Ingested, Unclassified
<1>8. StageInv'
  BY <1>1 DEF IInv, StageInv, Stages, RawOk
<1>9. OutputInv'
  BY <1>1 DEF IInv, OutputInv
<1> QED
  BY <1>7, <1>8, <1>9 DEF IInv

(* A run that ends in the classifier does so for a name that is no string, *)
(* and the entities stay as the bus gave them.                             *)
LEMMA ClassifyRaisesKeeps == IInv /\ ClassifyRaises => IInv'
<1> SUFFICES ASSUME IInv, ClassifyRaises PROVE IInv'
  OBVIOUS
<1>1. /\ pc = "classify" /\ pc' = "failed_classify"
      /\ UNCHANGED <<control_mode, rules, policy_mode, raw_records, entities, recommendations,
                     results>>
  BY DEF ClassifyRaises
<1>2. EntityInv'
  BY <1>1, SameEntities DEF IInv, Ingested, Unclassified
<1>3. StopsClassify
  <2>1. PICK i \in DOMAIN entities : NameRaises(entities[i])
    BY DEF ClassifyRaises, NamesAreRead
  <2>2. Describes(entities[i])
    BY <1>1 DEF IInv, EntityInv, Unclassified
  <2> QED
    BY <2>1, <2>2, NameIsRead DEF Describes
<1>4. StageInv'
  BY <1>1, <1>3, SameRecords DEF IInv, StageInv, Stages, RawOk
<1>5. OutputInv'
  BY <1>1 DEF IInv, OutputInv
<1> QED
  BY <1>2, <1>4, <1>5 DEF IInv

(* Engine and recommender keep the invariant, raising or not.              *)
LEMMA OutputKeeps ==
  ASSUME IInv, Evaluate \/ EvaluateRaises \/ Process
  PROVE  IInv'
<1>1. /\ pc \in {"evaluate", "process"} /\ pc' \in {"process", "done", "failed_evaluate"}
      /\ UNCHANGED <<control_mode, rules, thresholds, policy_mode, raw_records, entities>>
  BY DEF Evaluate, EvaluateRaises, Process
<1>2. EntityInv'
  BY <1>1, SameEntities DEF IInv, Ingested, Unclassified
<1>3. StageInv'
  BY <1>1 DEF IInv, StageInv, Stages, RawOk
<1>4. evaluate' = evaluate /\ (NoneRaises' <=> NoneRaises)
  BY <1>1, SameEvaluation
<1>5. OutputInv'
  <2>1. CASE Evaluate
    BY <1>4, <2>1 DEF Evaluate, IInv, OutputInv
  <2>2. CASE EvaluateRaises
    BY <1>4, <2>2 DEF EvaluateRaises, IInv, OutputInv
  <2>3. CASE Process
    <3>1. process' = process
      BY <2>3, SameProcess DEF Process
    <3> QED
      BY <1>4, <2>3, <3>1 DEF Process, IInv, OutputInv
  <2> QED
    BY <2>1, <2>2, <2>3
<1> QED
  BY <1>2, <1>3, <1>5 DEF IInv

(* Doing nothing keeps the invariant.                                      *)
LEMMA StutterKeeps == IInv /\ UNCHANGED vars => IInv'
<1> SUFFICES ASSUME IInv, UNCHANGED vars PROVE IInv'
  OBVIOUS
<1>1. UNCHANGED <<pc, control_mode, rules, thresholds, policy_mode, raw_records, entities,
                  recommendations, results>>
  BY DEF vars
<1>2. evaluate' = evaluate /\ (NoneRaises' <=> NoneRaises) /\ process' = process
  BY <1>1, SameEvaluation, SameProcess
<1>3. OutputInv'
  BY <1>1, <1>2 DEF IInv, OutputInv
<1>4. EntityInv'
  BY <1>1, SameEntities DEF IInv, Ingested, Unclassified
<1>5. StageInv'
  BY <1>1, SameRecords DEF IInv, StageInv, RawOk
<1> QED
  BY <1>3, <1>4, <1>5 DEF IInv

(* The invariant holds of every run, whatever rules, packs and telemetry   *)
(* it is given.                                                            *)
LEMMA InvHolds == Spec => []IInv
<1>1. IInv /\ [Next]_vars => IInv'
  BY LoadKeeps, CollectKeeps, IngestKeeps, ClassifyStepKeeps, ClassifyRaisesKeeps,
     OutputKeeps, StutterKeeps DEF Next
<1> QED
  BY <1>1, InitKeeps, PTL DEF Spec

-----------------------------------------------------------------------------
(* The results of a run *)

(* The rules in force are a list, each with a known risk.                  *)
LEMMA RulesAre ==
  ASSUME StageInv
  PROVE  /\ Len(rules) \in Nat /\ DOMAIN rules = 1..Len(rules)
         /\ \A j \in DOMAIN rules : rules[j].risk_level \in RiskLevel
<1>1. CASE rules = <<>>
  BY <1>1
<1>2. CASE rules # <<>>
  <2>1. PICK book \in Rulebooks : rules = book.rules
    BY <1>2 DEF StageInv
  <2>2. rules \in Seq(ToSet(rules))
    BY <2>1, PipelineAssumption
  <2> QED
    BY <2>1, <2>2, PipelineAssumption
<1> QED
  BY <1>1, <1>2

(* There are finitely many pairs, and no more that fire.                   *)
LEMMA PairsAreFinite ==
  ASSUME EntityInv, StageInv
  PROVE  /\ Pairs \subseteq Nat \X Nat
         /\ IsFiniteSet(Pairs) /\ Cardinality(Pairs) \in Nat
         /\ IsFiniteSet(Fired) /\ Cardinality(Fired) \in Nat
         /\ Cardinality(Fired) <= Cardinality(Pairs)
<1>1. DOMAIN entities = 1..Len(entities) /\ Len(entities) \in Nat
  BY DEF EntityInv
<1>2. DOMAIN rules = 1..Len(rules) /\ Len(rules) \in Nat
  BY RulesAre
<1>3. IsFiniteSet(DOMAIN entities) /\ IsFiniteSet(DOMAIN rules)
  BY <1>1, <1>2, FS_Interval
<1>4. IsFiniteSet(Pairs) /\ Cardinality(Pairs) \in Nat
  BY <1>3, FS_Product, FS_CardinalityType DEF Pairs
<1>5. Fired \subseteq Pairs
  BY DEF Fired
<1>6. IsFiniteSet(Fired) /\ Cardinality(Fired) <= Cardinality(Pairs)
  BY <1>4, <1>5, FS_Subset
<1> QED
  BY <1>1, <1>2, <1>4, <1>6, FS_CardinalityType DEF Pairs

(* What fires can be sorted: a priority that is no number needs a          *)
(* confidence on which building the recommendation raises first.           *)
LEMMA FiredIsSortable ==
  ASSUME EntityInv, StageInv
  PROVE  Sortable
<1>1. ASSUME NEW x \in Fired PROVE PairPriority(x) \in Int
  <2>1. x \in Pairs /\ Fires(rules[x[2]], entities[x[1]], thresholds)
    BY DEF Fired
  <2>2. entities[x[1]].confidence_score \in 0..100
    BY <2>1, FiredConfidence
  <2>3. rules[x[2]].risk_level \in RiskLevel
    BY <2>1, RulesAre DEF Pairs
  <2> QED
    BY <2>2, <2>3, PriorityIsNumber DEF PairPriority
<1> QED
  BY <1>1, PairsAreFinite DEF Sortable

(* What a recommendation says (policy_engine.py:326-360).                  *)
LEMMA RecommendIs ==
  ASSUME NEW x
  PROVE  /\ Recommend(x).recommendation_id = RecId[x]
         /\ Recommend(x).entity_id = entities[x[1]].entity_id
         /\ Recommend(x).action_type = rules[x[2]].action_type
         /\ Recommend(x).priority_score = PairPriority(x)
BY DEF Recommend, _build_recommendation, PairPriority

(* Marking a recommendation keeps what it says.                            *)
LEMMA MarkedIs ==
  ASSUME NEW x
  PROVE  /\ Marked(Recommend(x)).recommendation_id = RecId[x]
         /\ Marked(Recommend(x)).entity_id = entities[x[1]].entity_id
         /\ Marked(Recommend(x)).action_type = rules[x[2]].action_type
BY DEF Recommend, _build_recommendation, Marked

(* source tells of which pair that fired each result is *)
ComesFrom(source) ==
  /\ source \in [DOMAIN results -> Fired]
  /\ \A x \in Fired : \E k \in DOMAIN results : source[k] = x
  /\ \A k \in DOMAIN results : RecOf(k) = Marked(Recommend(source[k]))
  /\ \A k, l \in DOMAIN results : k < l => Outranks(source[k], source[l])

(* The results of a run are the pairs that fired, each once, in the order  *)
(* of Outranks, through both sorts.                                        *)
LEMMA ResultsAreFired ==
  ASSUME IInv, pc = "done"
  PROVE  /\ \E source : ComesFrom(source)
         /\ DOMAIN results = 1..Cardinality(Fired)
<1> DEFINE N == Cardinality(Fired)
<1>1. NoneRaises /\ recommendations = evaluate /\ results = process
  BY DEF IInv, OutputInv
<1>2. N \in Nat
  BY PairsAreFinite DEF IInv
<1>3. Sortable
  BY <1>1, FiredIsSortable DEF IInv
<1>4. PICK p \in [Fired -> 1..N] :
        /\ \A k \in 1..N : \E x \in Fired : p[x] = k
        /\ \A x, y \in Fired : Outranks(x, y) <=> p[x] < p[y]
        /\ \A x, y \in Fired : p[x] = p[y] => x = y
        /\ DOMAIN recommendations = 1..N
        /\ \A x \in Fired : recommendations[p[x]] = Recommend(x)
  BY <1>1, <1>3, EvaluateSorts
<1>5. \A i \in 1..N : recommendations[i].priority_score \in Int
  BY <1>3, <1>4, RecommendIs DEF Sortable
<1>6. PICK q \in [1..N -> 1..N] :
        /\ \A k \in 1..N : \E i \in 1..N : q[i] = k
        /\ \A i, j \in 1..N : Before(i, j) <=> q[i] < q[j]
        /\ DOMAIN results = 1..N
        /\ \A i \in 1..N : results[q[i]].rec = Marked(recommendations[i])
  <2>1. PICK q \in [1..N -> 1..N] :
        /\ \A k \in 1..N : \E i \in 1..N : q[i] = k
        /\ \A i, j \in 1..N : Before(i, j) <=> q[i] < q[j]
        /\ DOMAIN results = 1..N
        /\ \A i \in 1..N : results[q[i]] = [rec |-> Marked(recommendations[i]),
                              explanation |-> _build_explanation(Marked(recommendations[i]))]
    BY <1>1, <1>2, <1>4, <1>5, ProcessSorts
  <2>2. ASSUME NEW i \in 1..N PROVE results[q[i]].rec = Marked(recommendations[i])
    <3>1. results[q[i]] = [rec |-> Marked(recommendations[i]),
                           explanation |-> _build_explanation(Marked(recommendations[i]))]
      BY <2>1
    <3> QED
      BY <3>1
  <2> WITNESS q \in [1..N -> 1..N]
  <2> QED
    BY <2>1, <2>2
<1> HIDE DEF N
<1>7. \A k \in 1..N : \E x \in Fired : q[p[x]] = k
  BY <1>4, <1>6
<1> DEFINE source == [k \in 1..N |-> CHOOSE x \in Fired : q[p[x]] = k]
<1>8. /\ source \in [1..N -> Fired]
      /\ \A k \in 1..N : q[p[source[k]]] = k
  BY <1>7
<1> HIDE DEF source
<1>9. \A x, y \in Fired : q[p[x]] = q[p[y]] => x = y
  <2> SUFFICES ASSUME NEW x \in Fired, NEW y \in Fired, p[x] # p[y]
               PROVE  q[p[x]] # q[p[y]]
    BY <1>4
  <2>1. p[x] \in 1..N /\ p[y] \in 1..N
    BY <1>4
  <2>2. Before(p[x], p[y]) \/ Before(p[y], p[x])
    BY <1>2, <1>5, <2>1 DEF Before, N
  <2>3. q[p[x]] < q[p[y]] \/ q[p[y]] < q[p[x]]
    BY <1>6, <2>1, <2>2
  <2> QED
    BY <1>6, <2>1, <2>3
<1>10. \A x \in Fired : \E k \in 1..N : source[k] = x
  BY <1>4, <1>6, <1>8, <1>9
<1>11. \A k \in 1..N : results[k].rec = Marked(Recommend(source[k]))
  BY <1>4, <1>6, <1>8
<1>12. ASSUME NEW k \in 1..N, NEW l \in 1..N, k < l
       PROVE  Outranks(source[k], source[l])
  <2> DEFINE x == source[k]
             y == source[l]
  <2>1. /\ x \in Fired /\ y \in Fired /\ p[x] \in 1..N /\ p[y] \in 1..N
        /\ q[p[x]] < q[p[y]]
    BY <1>4, <1>8, <1>12
  <2>2. Before(p[x], p[y])
    BY <1>6, <2>1
  <2> HIDE DEF x, y
  <2>3. /\ recommendations[p[x]].priority_score = PairPriority(x)
        /\ recommendations[p[y]].priority_score = PairPriority(y)
    BY <1>4, <2>1, RecommendIs
  <2>4. \/ PairPriority(x) > PairPriority(y)
        \/ PairPriority(x) = PairPriority(y) /\ p[x] < p[y]
    BY <2>2, <2>3 DEF Before
  <2>5. Outranks(x, y)
    <3>1. CASE PairPriority(x) > PairPriority(y)
      BY <3>1 DEF Outranks
    <3>2. CASE p[x] < p[y]
      BY <1>4, <2>1, <3>2
    <3> QED
      BY <2>4, <3>1, <3>2
  <2> QED
    BY <2>5 DEF x, y
<1>13. ComesFrom(source)
  BY <1>6, <1>8, <1>10, <1>11, <1>12 DEF ComesFrom, RecOf
<1> QED
  BY <1>6, <1>13 DEF N

(* There are no results before the end.                                    *)
LEMMA NoResultsYet ==
  ASSUME IInv, pc # "done"
  PROVE  DOMAIN results = {}
BY DEF IInv, OutputInv

-----------------------------------------------------------------------------
(* What holds of every rulebook *)

(* A result needs no approval only if the mode allows that and the risk is *)
(* low or medium, for any rulebook (policy_engine.py:335-338 and           *)
(* recommender.py:45): marking only ever adds the need.                    *)
THEOREM ApprovalGateHolds == Spec => []ApprovalGate
<1>1. IInv => ApprovalGate
  <2> SUFFICES ASSUME IInv, NEW k \in DOMAIN results, ~RecOf(k).requires_approval
               PROVE  /\ control_mode = "controlled_auto_act"
                      /\ RecOf(k).risk_level \in {"low", "medium"}
    BY DEF ApprovalGate
  <2>1. pc = "done"
    BY NoResultsYet
  <2>2. PICK x \in Fired : RecOf(k) = Marked(Recommend(x))
    BY <2>1, ResultsAreFired DEF ComesFrom
  <2>3. rules[x[2]].risk_level \in RiskLevel
    BY RulesAre DEF Fired, Pairs, IInv
  <2>4. /\ Recommend(x).requires_approval = RequiresApproval(rules[x[2]], control_mode)
        /\ Recommend(x).risk_level = rules[x[2]].risk_level
    BY DEF Recommend, _build_recommendation
  <2>5. CASE control_mode = "observe_only"
    <3> DEFINE rec == Recommend(x)
    <3>1. RecOf(k) = [rec EXCEPT !.requires_approval = TRUE]
      BY <2>2, <2>5 DEF Marked
    <3>2. "requires_approval" \in DOMAIN rec
      BY DEF Recommend, _build_recommendation
    <3> HIDE DEF rec
    <3>3. RecOf(k).requires_approval = TRUE
      BY <3>1, <3>2
    <3> QED
      BY <3>3
  <2>6. CASE control_mode # "observe_only"
    <3>1. RecOf(k) = Recommend(x)
      BY <2>2, <2>6 DEF Marked
    <3> QED
      BY <2>3, <2>4, <3>1 DEF RequiresApproval, RiskLevel
  <2> QED
    BY <2>5, <2>6
<1> QED
  BY <1>1, InvHolds, PTL

(* Results are ranked by priority; equal ones stay in the order of their   *)
(* entities and then of their rules, through both sorts                    *)
(* (policy_engine.py:137, recommender.py:52), for any rules and telemetry. *)
THEOREM RankedHolds == Spec => []Ranked
<1>1. IInv => Ranked
  <2> SUFFICES ASSUME IInv, NEW i \in DOMAIN results, NEW j \in DOMAIN results, i < j
               PROVE  \E x, y \in Pairs :
                        /\ RecOf(i).recommendation_id = RecId[x]
                        /\ RecOf(j).recommendation_id = RecId[y]
                        /\ PairPriority(x) >= PairPriority(y)
                        /\ PairPriority(x) = PairPriority(y) => Earlier(x, y)
    BY DEF Ranked
  <2>1. pc = "done"
    BY NoResultsYet
  <2>2. PICK source : ComesFrom(source)
    BY <2>1, ResultsAreFired
  <2> DEFINE x == source[i]
             y == source[j]
  <2>3. x \in Fired /\ y \in Fired /\ Outranks(x, y)
    BY <2>2 DEF ComesFrom
  <2>4. RecOf(i).recommendation_id = RecId[x] /\ RecOf(j).recommendation_id = RecId[y]
    BY <2>2, MarkedIs DEF ComesFrom
  <2>5. PairPriority(x) \in Int /\ PairPriority(y) \in Int
    BY <2>1, <2>3, FiredIsSortable DEF IInv, OutputInv, Sortable
  <2>6. /\ PairPriority(x) >= PairPriority(y)
        /\ PairPriority(x) = PairPriority(y) => Earlier(x, y)
    BY <2>3, <2>5 DEF Outranks
  <2>7. x \in Pairs /\ y \in Pairs
    BY <2>3 DEF Fired
  <2> QED
    BY <2>4, <2>6, <2>7
<1> QED
  BY <1>1, InvHolds, PTL

(* Every variable keeps its type: the bus holds one entity for each id an  *)
(* accepted record had, and no stage makes up anything.                    *)
THEOREM TypeOKHolds == Spec => []TypeOK
<1>1. IInv => TypeOK
  <2> SUFFICES ASSUME IInv PROVE TypeOK
    OBVIOUS
  <2>1. ASSUME NEW i \in DOMAIN entities
        PROVE  /\ \A j \in DOMAIN entities : entities[i].entity_id = entities[j].entity_id => i = j
               /\ \E r \in ToSet(raw_records) : /\ Norm!Accepts(r)
                                               /\ r.entity_id = entities[i].entity_id
               /\ entities[i].workload_type \in WorkloadType \cup {Bad}
    <3>1. PICK e : Describes(e) /\ entities[i] = IF Unclassified THEN e ELSE classify(e)
      BY DEF IInv, EntityInv
    <3>2. /\ entities[i].entity_id = e.entity_id
          /\ entities[i].workload_type \in WorkloadType \cup {Bad}
      BY <3>1, ClassifyKeeps DEF Describes
    <3>3. PICK k \in DOMAIN raw_records :
            Usable(raw_records[k]) /\ raw_records[k].entity_id = e.entity_id
      BY <3>1 DEF Describes
    <3>4. /\ raw_records[k] \in ToSet(raw_records) /\ Norm!Accepts(raw_records[k])
          /\ raw_records[k].entity_id = entities[i].entity_id
      BY <3>2, <3>3 DEF Usable, ToSet
    <3> QED
      BY <3>2, <3>4 DEF IInv, EntityInv
  <2>2. DOMAIN recommendations \subseteq 1..Cardinality(Pairs)
    <3>1. CASE pc \in {"process", "done"}
      <4>1. Sortable /\ recommendations = evaluate
        BY <3>1, FiredIsSortable DEF IInv, OutputInv
      <4>2. DOMAIN recommendations = 1..Cardinality(Fired)
        BY <4>1, EvaluateSorts
      <4> QED
        BY <4>2, PairsAreFinite DEF IInv
    <3>2. CASE pc \notin {"process", "done"}
      BY <3>2 DEF IInv, OutputInv
    <3> QED
      BY <3>1, <3>2
  <2>3. DOMAIN results \subseteq DOMAIN recommendations
    <3>1. CASE pc = "done"
      <4>1. Sortable /\ recommendations = evaluate
        BY <3>1, FiredIsSortable DEF IInv, OutputInv
      <4>2. DOMAIN recommendations = 1..Cardinality(Fired)
        BY <4>1, EvaluateSorts
      <4> QED
        BY <3>1, <4>2, ResultsAreFired
    <3> QED
      BY <3>1, NoResultsYet
  <2> QED
    BY <2>1, <2>2, <2>3 DEF TypeOK, IInv, StageInv
<1> QED
  BY <1>1, InvHolds, PTL

(* Whatever the telemetry, a run ends in the bus or in the classifier only *)
(* for a zone, a merged key that is no field, or a name that is no string: *)
(* records that lack what they need or that validation refuses cost no     *)
(* more than themselves (normalizer.py:57-63, state_bus.py:86-123,         *)
(* workload_classifier.py:106).                                            *)
THEOREM FlawsThatStopHolds == Spec => []FlawsThatStop
<1>1. IInv => FlawsThatStop
  BY DEF IInv, StageInv, StopsIngest, StopsClassify, FlawsThatStop
<1> QED
  BY <1>1, InvHolds, PTL

(* Whatever the rules, thresholds and telemetry, evaluation raises only on *)
(* rules or thresholds that are not well formed, or on a value that no     *)
(* validation saw: merged into an entity of a class that would refuse or   *)
(* convert it, or nested in extra (state_bus.py:116-119, entities.py:159). *)
THEOREM RaisesOnlyOnUnvalidatedHolds == Spec => []RaisesOnlyOnUnvalidated
<1>1. IInv => RaisesOnlyOnUnvalidated
  <2> SUFFICES ASSUME IInv, pc = "failed_evaluate", NumbersOnly(thresholds),
                      \A j \in DOMAIN rules : WellFormed(rules[j])
               PROVE  Unvalidated
    BY DEF RaisesOnlyOnUnvalidated, Unvalidated
  <2>1. PICK x \in Pairs : Raises(rules[x[2]], entities[x[1]], thresholds)
    BY DEF IInv, OutputInv, NoneRaises
  <2>2. ~Sound(entities[x[1]])
    BY <2>1, SoundNeverRaises DEF Pairs
  <2>3. PICK e : Describes(e) /\ entities[x[1]] = classify(e)
    BY <2>1 DEF Pairs, IInv, EntityInv, Unclassified
  <2> QED
    BY <2>2, <2>3, ClassifyKeeps DEF Describes
<1> QED
  BY <1>1, InvHolds, PTL

-----------------------------------------------------------------------------
(* What becomes of one record *)

(* The entity that a record without a rival becomes is the only one the id *)
(* stands for.                                                             *)
LEMMA SingleEntity ==
  ASSUME IInv, pc = "done", NEW i \in DOMAIN raw_records, Single(i),
         NEW j \in DOMAIN entities, entities[j].entity_id = raw_records[i].entity_id
  PROVE  Usable(raw_records[i]) /\ entities[j] = classify(NewEntity(raw_records[i]))
<1>1. PICK e : Describes(e) /\ entities[j] = classify(e)
  BY DEF IInv, EntityInv, Unclassified
<1>2. e.entity_id = raw_records[i].entity_id
  BY <1>1, ClassifyKeeps DEF Describes
<1>3. PICK k \in DOMAIN raw_records :
        /\ Usable(raw_records[k])
        /\ raw_records[k].entity_id = e.entity_id
        /\ Single(k) => e = NewEntity(raw_records[k])
  BY <1>1 DEF Describes
<1>4. k = i
  BY <1>2, <1>3 DEF Single
<1> QED
  BY <1>1, <1>3, <1>4

(* What is recommended of a record without a rival is what fires on the    *)
(* entity it becomes, if its rule alone has the action.                    *)
LEMMA RecommendedIs ==
  ASSUME IInv, pc = "done", NEW i \in DOMAIN raw_records, Single(i),
         NEW j \in DOMAIN rules,
         \A k \in DOMAIN rules : rules[k].action_type = rules[j].action_type => k = j
  PROVE  Recommended(raw_records[i], rules[j].action_type) <=>
           /\ Usable(raw_records[i])
           /\ Fires(rules[j], classify(NewEntity(raw_records[i])), thresholds)
<1> DEFINE r == raw_records[i]
           e == classify(NewEntity(r))
<1>1. PICK source : ComesFrom(source)
  BY ResultsAreFired
<1>2. ASSUME Recommended(r, rules[j].action_type)
      PROVE  Usable(r) /\ Fires(rules[j], e, thresholds)
  <2>1. PICK k \in DOMAIN results : /\ RecOf(k).entity_id = r.entity_id
                                    /\ RecOf(k).action_type = rules[j].action_type
    BY <1>2 DEF Recommended
  <2> DEFINE x == source[k]
  <2>2. x \in Fired /\ RecOf(k) = Marked(Recommend(x))
    BY <1>1 DEF ComesFrom
  <2> HIDE DEF x
  <2>3. /\ entities[x[1]].entity_id = r.entity_id
        /\ rules[x[2]].action_type = rules[j].action_type
    BY <2>1, <2>2, MarkedIs
  <2>4. /\ x[1] \in DOMAIN entities /\ x[2] \in DOMAIN rules
        /\ Fires(rules[x[2]], entities[x[1]], thresholds)
    BY <2>2 DEF Fired, Pairs
  <2>5. x[2] = j
    BY <2>3, <2>4
  <2>6. Usable(r) /\ entities[x[1]] = e
    BY <2>3, <2>4, SingleEntity
  <2> QED
    BY <2>4, <2>5, <2>6
<1>3. ASSUME Usable(r), Fires(rules[j], e, thresholds)
      PROVE  Recommended(r, rules[j].action_type)
  <2>1. PICK n \in DOMAIN entities : entities[n].entity_id = r.entity_id
    BY <1>3 DEF IInv, EntityInv, Ingested
  <2>2. entities[n] = e
    BY <2>1, SingleEntity
  <2> HIDE DEF e
  <2>3. <<n, j>> \in Fired
    BY <1>3, <2>2 DEF Fired, Pairs
  <2>4. PICK k \in DOMAIN results : source[k] = <<n, j>>
    BY <1>1, <2>3 DEF ComesFrom
  <2>5. RecOf(k) = Marked(Recommend(<<n, j>>))
    BY <1>1, <2>4 DEF ComesFrom
  <2>6. RecOf(k).entity_id = r.entity_id /\ RecOf(k).action_type = rules[j].action_type
    BY <2>1, <2>5, MarkedIs
  <2> QED
    BY <2>6 DEF Recommended
<1> QED
  BY <1>2, <1>3

(* What a rule reads of the entity a record becomes *)
Reads(r, e) ==
  /\ DOMAIN e = RecordFields
  /\ e.entity_type = r.entity_type
  /\ e.scheduler_domain = Domain(r)
  /\ e.health_state = Given(r, "health_state")
  /\ e.confidence_score = Confidence(r) /\ e.confidence_score \in 0..100
  /\ e.workload_type = IF Given(r, "workload_type") # "unknown" THEN Given(r, "workload_type")
                       ELSE Heuristic(e)
  /\ e.llm_id \/ get(e.extra, "model_name") = "llm" <=> SaysLlm(r)
  /\ e.queue_depth \notin {Bad} \cup Texts
  /\ r.entity_type = "service" => /\ e.latency_p95_ms = Plain(r.latency_p95_ms)
                                  /\ e.queue_depth = Plain(r.queue_depth)
                                  /\ e.throughput = Plain(r.throughput)

(* What a rule reads of the entity a record becomes is what the record     *)
(* says, or the defaults of its source and its class, and the workload     *)
(* type by the heuristics.                                                 *)
LEMMA EntityReads ==
  ASSUME NEW r, DOMAIN r = RecordFields, Creatable(r)
  PROVE  Reads(r, classify(NewEntity(r)))
<1> DEFINE e == NewEntity(r)
           c == classify(e)
           new == Brings(r.entity_type, r)
<1>1. /\ DOMAIN e = RecordFields
      /\ \A f \in RecordFields \ Numeric :
           e[f] = IF new[f] = NoValue THEN DefaultOf(f) ELSE new[f]
      /\ \A f \in Numeric : e[f] = IF new[f] = NoValue THEN DefaultOf(f) ELSE Plain(new[f])
      /\ e.entity_type = r.entity_type
      /\ e.workload_type = Given(r, "workload_type")
      /\ e.health_state = Given(r, "health_state")
      /\ e.confidence_score = Confidence(r)
      /\ e.llm_id = r.llm_id
      /\ e.extra = IF r.extra = NoValue THEN <<>> ELSE r.extra
  BY NewEntityIs
<1>2. e.scheduler_domain = Domain(r)
  <2>1. new.scheduler_domain = Norm!scheduler_domain(r)
    BY BringsIs
  <2>2. Norm!scheduler_domain(r) = Domain(r)
    BY DEF Norm!scheduler_domain, Norm!SOURCE_DOMAIN_MAP, Domain
  <2>3. "scheduler_domain" \in RecordFields \ Numeric /\ DefaultOf("scheduler_domain") = NoValue
    BY DEF RecordFields, Numeric, Measured, DefaultOf
  <2> HIDE DEF e, new
  <2> QED
    BY <1>1, <2>1, <2>2, <2>3
<1>3. r.entity_type = "service" => /\ e.latency_p95_ms = Plain(r.latency_p95_ms)
                                   /\ e.queue_depth = Plain(r.queue_depth)
                                   /\ e.throughput = Plain(r.throughput)
  <2> SUFFICES ASSUME r.entity_type = "service",
                      NEW f \in {"latency_p95_ms", "queue_depth", "throughput"}
               PROVE  e[f] = Plain(r[f])
    OBVIOUS
  <2>1. new[f] = r[f]
    BY BringsIs DEF Declared, Measured
  <2>2. f \in Numeric /\ DefaultOf(f) = NoValue
    BY DEF Numeric, Measured, DefaultOf
  <2> HIDE DEF e, new
  <2> QED
    BY <1>1, <2>1, <2>2, PlainIs
<1>4. e.queue_depth \notin {Bad} \cup Texts /\ e.confidence_score \in 0..100
  <2>1. new.queue_depth # Bad /\ Plain(new.confidence_score) \in (0..100) \cup {NoValue}
    BY NumericFields, BringsIs DEF Creatable, ValidAs, Measured
  <2>2. /\ "queue_depth" \in Numeric /\ DefaultOf("queue_depth") = NoValue
        /\ "confidence_score" \in Numeric /\ DefaultOf("confidence_score") = 50
    BY DEF Numeric, Measured, DefaultOf
  <2> HIDE DEF e, new
  <2>3. /\ e.queue_depth = IF new.queue_depth = NoValue THEN NoValue ELSE Plain(new.queue_depth)
        /\ e.confidence_score = IF new.confidence_score = NoValue THEN 50
                                ELSE Plain(new.confidence_score)
    BY <1>1, <2>2
  <2>4. e.queue_depth \notin {Bad} \cup Texts
    BY <2>1, <2>3, PlainIs, ValueAssumption
  <2>5. Plain(new.confidence_score) = NoValue <=> new.confidence_score = NoValue
    BY PlainIs
  <2> QED
    BY <2>1, <2>3, <2>4, <2>5
<1>5. e.llm_id \/ get(e.extra, "model_name") = "llm" <=> SaysLlm(r)
  <2>1. CASE r.extra = NoValue
    <3>1. e.extra = <<>> /\ DOMAIN <<>> = {}
      BY <1>1, <2>1
    <3> HIDE DEF e
    <3>2. get(e.extra, "model_name") = NoValue /\ NoValue # "llm"
      BY <3>1, ValueAssumption DEF get
    <3> QED
      BY <1>1, <2>1, <3>2 DEF SaysLlm
  <2>2. CASE r.extra # NoValue
    <3> HIDE DEF e
    <3> QED
      BY <1>1, <2>2 DEF SaysLlm
  <2> QED
    BY <2>1, <2>2
<1> HIDE DEF e
<1>6. /\ DOMAIN c = RecordFields
      /\ c.workload_type = _infer_workload_type(e)
      /\ \A f \in RecordFields \ {"workload_type"} : c[f] = e[f]
  BY <1>1, ClassifyIs
<1> HIDE DEF c
<1>7. /\ c.entity_type = e.entity_type /\ c.scheduler_domain = e.scheduler_domain
      /\ c.health_state = e.health_state /\ c.confidence_score = e.confidence_score
      /\ c.llm_id = e.llm_id /\ c.extra = e.extra /\ c.latency_p95_ms = e.latency_p95_ms
      /\ c.queue_depth = e.queue_depth /\ c.throughput = e.throughput
  BY <1>6 DEF RecordFields
<1>8. Heuristic(c) = Heuristic(e)
  BY <1>7 DEF Heuristic, SlurmOrOnline, _looks_like_llm
<1>9. Reads(r, c)
  BY <1>1, <1>2, <1>3, <1>4, <1>5, <1>6, <1>7, <1>8 DEF Reads, _infer_workload_type
<1> QED
  BY <1>9 DEF c, e

(* A precondition of the shipped rules, once parsed, is an equation.       *)
LEMMA IsHolds ==
  ASSUME NEW e, NEW field \in {"workload_type", "scheduler_domain"},
         NEW expected \in {"online_inference", "kubernetes", "slurm"},
         Is(field, expected) # Bad
  PROVE  _eval_precondition(Is(field, expected), e) = "yes" <=> e[field] = expected
<1> DEFINE precond == Is(field, expected)
<1>1. precond.field = field /\ precond.op = "==" /\ precond.expected = expected
  BY DEF Is
<1>2. precond # Bad
  OBVIOUS
<1> HIDE DEF precond
<1>3. _get_field(e, field) = e[field] /\ ~FieldRaises(e, field)
  BY DEF _get_field, FieldRaises, Attributes
<1>4. expected # NoValue
  BY ValueAssumption DEF WorkloadType
<1>5. _eval_precondition(precond, e) =
        Holds(e[field] # NoValue /\ e[field] = expected)
  BY <1>1, <1>2, <1>3 DEF _eval_precondition
<1>6. _eval_precondition(precond, e) = "yes" <=> e[field] = expected
  BY <1>4, <1>5 DEF Holds
<1> QED
  BY <1>6 DEF precond

(* What the shipped rules are made of can be read.                         *)
LEMMA ShippedCanBeRead ==
  /\ \A rule \in {ScaleUp, AdjustBatching, Quarantine, ScaleToZero, NoAction} :
       WellFormed(rule)
  /\ Is("workload_type", "online_inference") # Bad
  /\ Is("scheduler_domain", "kubernetes") # Bad
  /\ Is("scheduler_domain", "slurm") # Bad
<1>1. \A rule \in {ScaleUp, AdjustBatching, Quarantine, ScaleToZero, NoAction} :
        WellFormed(rule)
  <2> DEFINE yaml == <<ScaleUp, AdjustBatching, Quarantine, ScaleToZero, NoAction>>
  <2>1. RulesYaml.rules = yaml
    BY DEF RulesYaml
  <2>2. /\ DOMAIN yaml = 1..5 /\ yaml[1] = ScaleUp /\ yaml[2] = AdjustBatching
        /\ yaml[3] = Quarantine /\ yaml[4] = ScaleToZero /\ yaml[5] = NoAction
    OBVIOUS
  <2> HIDE DEF yaml
  <2>3. \A i \in 1..5 : WellFormed(yaml[i])
    BY <2>1, <2>2, ShippedAssumption
  <2> QED
    BY <2>2, <2>3
<1>2. /\ ScaleUp.preconditions = <<Is("workload_type", "online_inference"),
                                   Is("scheduler_domain", "kubernetes")>>
      /\ Quarantine.preconditions = <<Is("scheduler_domain", "slurm")>>
  BY DEF ScaleUp, Quarantine
<1>3. /\ \A i \in DOMAIN ScaleUp.preconditions : ScaleUp.preconditions[i] # Bad
      /\ \A i \in DOMAIN Quarantine.preconditions : Quarantine.preconditions[i] # Bad
  BY <1>1 DEF WellFormed
<1> HIDE DEF Is
<1>4. ScaleUp.preconditions[1] # Bad /\ ScaleUp.preconditions[2] # Bad
      /\ Quarantine.preconditions[1] # Bad
  <2>1. 1 \in DOMAIN ScaleUp.preconditions /\ 2 \in DOMAIN ScaleUp.preconditions
        /\ 1 \in DOMAIN Quarantine.preconditions
    BY <1>2
  <2> QED
    BY <1>3, <2>1
<1> QED
  BY <1>1, <1>2, <1>4

(* Of an entity that a record becomes, the last two checks ask for enough  *)
(* confidence and nothing else (policy_engine.py:165-174).                 *)
LEMMA ConfidenceDecides ==
  ASSUME NEW r, NEW e, Reads(r, e), NEW rule, WellFormed(rule),
         rule.minimum_confidence \in Int
  PROVE  /\ MeetsMinimum(rule, e) = "yes" <=> Confidence(r) >= rule.minimum_confidence
         /\ Builds(rule, e) = "yes"
<1>1. /\ e.confidence_score = Confidence(r) /\ e.confidence_score \in Int
      /\ e.confidence_score \in 0..100 /\ e.queue_depth \notin {Bad} \cup Texts
  BY DEF Reads
<1>2. ~NaN(e.confidence_score) /\ ~NaN(rule.minimum_confidence)
  BY <1>1, IntIsNumber
<1>3. MeetsMinimum(rule, e) = "yes" <=> rule.minimum_confidence <= e.confidence_score
  BY <1>2 DEF MeetsMinimum, AtMost, Holds
<1>4. Builds(rule, e) = "yes"
  BY <1>1 DEF Builds, WellFormed
<1> QED
  BY <1>1, <1>3, <1>4

(* What is greater, or at most as great, is there, and so is what it is    *)
(* compared with.                                                          *)
LEMMA ComparedIsThere ==
  ASSUME NEW v, NEW t, NEW name
  PROVE  /\ Greater(v, Threshold(t, name)) = "yes" => v # NoValue /\ t # Bad
         /\ AtMost(v, Threshold(t, name)) = "yes" => v # NoValue /\ t # Bad
BY DEF Greater, AtMost, NaN, Threshold

(* When rule 1 fires (rules.yaml, policy_engine.py:265-276).               *)
LEMMA ScaleUpFires ==
  ASSUME NEW r, NEW e, Reads(r, e), NEW t
  PROVE  Fires(ScaleUp, e, t) <=>
           /\ r.entity_type = "service" /\ Domain(r) = "kubernetes"
           /\ \/ Given(r, "workload_type") = "online_inference"
              \/ Given(r, "workload_type") = "unknown" /\ ~SaysLlm(r)
           /\ Greater(Plain(r.latency_p95_ms), Threshold(t, "target_p95_ms")) = "yes"
           /\ Greater(Plain(r.queue_depth), Threshold(t, "min_queue_depth_for_scale")) = "yes"
           /\ Confidence(r) >= 75
<1>1. _matches_scenario(ScaleUp, e) = "yes" <=> e.workload_type = "online_inference"
  <2>1. ScaleUp.scenario_family = "kubernetes_online_inference"
        /\ ScaleUp.scenario_family # Bad
    BY ShippedCanBeRead DEF ScaleUp, WellFormed
  <2> QED
    BY <2>1 DEF _matches_scenario, Workloads, Holds
<1>2. _check_preconditions(ScaleUp, e) = "yes" <=>
        e.workload_type = "online_inference" /\ e.scheduler_domain = "kubernetes"
  <2> DEFINE ps == ScaleUp.preconditions
             checks == [i \in DOMAIN ps |-> _eval_precondition(ps[i], e)]
  <2>1. /\ DOMAIN ps = 1..2
        /\ ps[1] = Is("workload_type", "online_inference")
        /\ ps[2] = Is("scheduler_domain", "kubernetes")
    BY DEF ScaleUp
  <2>2. ps # Bad
    BY ShippedCanBeRead DEF WellFormed
  <2>3. _check_preconditions(ScaleUp, e) = AllOf(checks)
    BY <2>2 DEF _check_preconditions
  <2> HIDE DEF ps
  <2>4. /\ DOMAIN checks = 1..2
        /\ checks[1] = _eval_precondition(Is("workload_type", "online_inference"), e)
        /\ checks[2] = _eval_precondition(Is("scheduler_domain", "kubernetes"), e)
    BY <2>1
  <2> HIDE DEF checks
  <2>5. AllOf(checks) = "yes" <=> checks[1] = "yes" /\ checks[2] = "yes"
    BY <2>4, AllOfIs
  <2> QED
    BY <2>3, <2>4, <2>5, IsHolds, ShippedCanBeRead
<1>3. r.entity_type = "service" =>
        (_has_required_signals(ScaleUp, e) = "yes" <=>
           e.latency_p95_ms # NoValue /\ e.queue_depth # NoValue)
  <2> SUFFICES ASSUME r.entity_type = "service"
               PROVE  _has_required_signals(ScaleUp, e) = "yes" <=>
                        e.latency_p95_ms # NoValue /\ e.queue_depth # NoValue
    OBVIOUS
  <2> DEFINE ss == ScaleUp.required_signals
             checks == [i \in DOMAIN ss |-> HasSignal(e, ss[i])]
  <2>1. /\ DOMAIN ss = 1..2 /\ ss[1] = "latency_p95_ms" /\ ss[2] = "queue_depth"
    BY DEF ScaleUp
  <2>2. ss # Bad /\ ss[1] # Bad /\ ss[2] # Bad
    BY <2>1, ShippedCanBeRead DEF WellFormed
  <2>3. _has_required_signals(ScaleUp, e) = AllOf(checks)
    BY <2>2 DEF _has_required_signals
  <2> HIDE DEF ss
  <2>4. {"latency_p95_ms", "queue_depth"} \subseteq Attributes(e.entity_type)
    BY DEF Reads, Attributes, Declared
  <2>5. /\ HasSignal(e, ss[1]) = Present(e.latency_p95_ms)
        /\ HasSignal(e, ss[2]) = Present(e.queue_depth)
    BY <2>1, <2>2, <2>4 DEF HasSignal, FieldRaises, _get_field
  <2>6. /\ DOMAIN checks = 1..2
        /\ checks[1] = Present(e.latency_p95_ms) /\ checks[2] = Present(e.queue_depth)
    BY <2>1, <2>5
  <2> HIDE DEF checks
  <2>7. AllOf(checks) = "yes" <=> checks[1] = "yes" /\ checks[2] = "yes"
    BY <2>6, AllOfIs
  <2> QED
    BY <2>3, <2>6, <2>7 DEF Present, Holds
<1>4. _evaluate_logic(ScaleUp, e, t) = _logic_queue_pressure(e, t)
  BY ShippedCanBeRead DEF _evaluate_logic, Logic, ScaleUp, WellFormed
<1>5. /\ MeetsMinimum(ScaleUp, e) = "yes" <=> Confidence(r) >= 75
      /\ Builds(ScaleUp, e) = "yes"
  <2>1. ScaleUp.minimum_confidence = 75
    BY DEF ScaleUp
  <2> QED
    BY <2>1, ConfidenceDecides, ShippedCanBeRead
<1>6. r.entity_type = "service" /\ Domain(r) = "kubernetes" =>
        (e.workload_type = "online_inference" <=>
           \/ Given(r, "workload_type") = "online_inference"
           \/ Given(r, "workload_type") = "unknown" /\ ~SaysLlm(r))
  BY DEF Reads, Heuristic, _looks_like_llm
<1>7. _logic_queue_pressure(e, t) = "yes" <=>
        /\ r.entity_type = "service" /\ t # Bad
        /\ e.latency_p95_ms # NoValue /\ e.queue_depth # NoValue
        /\ Greater(e.latency_p95_ms, Threshold(t, "target_p95_ms")) = "yes"
        /\ Greater(e.queue_depth, Threshold(t, "min_queue_depth_for_scale")) = "yes"
  <2> DEFINE checks == <<Holds(IsService(e)), Readable(t),
                         Present(e.latency_p95_ms), Present(e.queue_depth),
                         Greater(e.latency_p95_ms, Threshold(t, "target_p95_ms")),
                         Greater(e.queue_depth, Threshold(t, "min_queue_depth_for_scale"))>>
  <2>1. /\ DOMAIN checks = 1..6
        /\ checks[1] = Holds(IsService(e)) /\ checks[2] = Readable(t)
        /\ checks[3] = Present(e.latency_p95_ms) /\ checks[4] = Present(e.queue_depth)
        /\ checks[5] = Greater(e.latency_p95_ms, Threshold(t, "target_p95_ms"))
        /\ checks[6] = Greater(e.queue_depth, Threshold(t, "min_queue_depth_for_scale"))
    OBVIOUS
  <2>2. _logic_queue_pressure(e, t) = AllOf(checks)
    BY DEF _logic_queue_pressure
  <2> HIDE DEF checks
  <2>3. AllOf(checks) = "yes" <=> \A i \in 1..6 : checks[i] = "yes"
    BY <2>1, AllOfIs
  <2>4. /\ Holds(IsService(e)) = "yes" <=> r.entity_type = "service"
        /\ Readable(t) = "yes" <=> t # Bad
        /\ \A v : Present(v) = "yes" <=> v # NoValue
    BY DEF Holds, IsService, Readable, Present, Reads
  <2> QED
    BY <2>1, <2>2, <2>3, <2>4
<1>8. /\ e.scheduler_domain = Domain(r)
      /\ r.entity_type = "service" => /\ e.latency_p95_ms = Plain(r.latency_p95_ms)
                                      /\ e.queue_depth = Plain(r.queue_depth)
  BY DEF Reads
<1> QED
  BY <1>1, <1>2, <1>3, <1>4, <1>5, <1>6, <1>7, <1>8, ComparedIsThere, FiresIs

(* When rule 3 fires (rules.yaml, policy_engine.py:295-299).               *)
LEMMA QuarantineFires ==
  ASSUME NEW r, NEW e, Reads(r, e), NEW t
  PROVE  Fires(Quarantine, e, t) <=>
           /\ Domain(r) = "slurm" /\ r.health_state \in {"degraded", "critical"}
           /\ \/ Given(r, "workload_type") \in {"hpc_research", "distributed_training"}
              \/ /\ Given(r, "workload_type") = "unknown"
                 /\ r.entity_type \in {"job", "gpu", "node", "queue"}
           /\ Confidence(r) >= 85
<1>1. _matches_scenario(Quarantine, e) = "yes" <=>
        e.workload_type \in {"hpc_research", "distributed_training"}
  <2>1. Quarantine.scenario_family = "hpc_or_training" /\ Quarantine.scenario_family # Bad
    BY ShippedCanBeRead DEF Quarantine, WellFormed
  <2> QED
    BY <2>1 DEF _matches_scenario, Workloads, Holds
<1>2. _check_preconditions(Quarantine, e) = "yes" <=> e.scheduler_domain = "slurm"
  <2> DEFINE ps == Quarantine.preconditions
             checks == [i \in DOMAIN ps |-> _eval_precondition(ps[i], e)]
  <2>1. DOMAIN ps = 1..1 /\ ps[1] = Is("scheduler_domain", "slurm")
    BY DEF Quarantine
  <2>2. ps # Bad
    BY ShippedCanBeRead DEF WellFormed
  <2>3. _check_preconditions(Quarantine, e) = AllOf(checks)
    BY <2>2 DEF _check_preconditions
  <2> HIDE DEF ps
  <2>4. /\ DOMAIN checks = 1..1
        /\ checks[1] = _eval_precondition(Is("scheduler_domain", "slurm"), e)
    BY <2>1
  <2> HIDE DEF checks
  <2>5. AllOf(checks) = "yes" <=> checks[1] = "yes"
    BY <2>4, AllOfIs
  <2> QED
    BY <2>3, <2>4, <2>5, IsHolds, ShippedCanBeRead
<1>3. _has_required_signals(Quarantine, e) = "yes" <=> e.health_state # NoValue
  <2> DEFINE ss == Quarantine.required_signals
             checks == [i \in DOMAIN ss |-> HasSignal(e, ss[i])]
  <2>1. DOMAIN ss = 1..1 /\ ss[1] = "health_state"
    BY DEF Quarantine
  <2>2. ss # Bad /\ ss[1] # Bad
    BY <2>1, ShippedCanBeRead DEF WellFormed
  <2>3. _has_required_signals(Quarantine, e) = AllOf(checks)
    BY <2>2 DEF _has_required_signals
  <2> HIDE DEF ss
  <2>4. "health_state" \in Attributes(e.entity_type)
    BY DEF Attributes
  <2>5. HasSignal(e, ss[1]) = Present(e.health_state)
    BY <2>1, <2>2, <2>4 DEF HasSignal, FieldRaises, _get_field
  <2>6. DOMAIN checks = 1..1 /\ checks[1] = Present(e.health_state)
    BY <2>1, <2>5
  <2> HIDE DEF checks
  <2>7. AllOf(checks) = "yes" <=> checks[1] = "yes"
    BY <2>6, AllOfIs
  <2> QED
    BY <2>3, <2>6, <2>7 DEF Present, Holds
<1>4. _evaluate_logic(Quarantine, e, t) = "yes" <=> e.health_state \in {"degraded", "critical"}
  BY ShippedCanBeRead
     DEF _evaluate_logic, Logic, Quarantine, WellFormed, _logic_unhealthy_node, Holds
<1>5. /\ MeetsMinimum(Quarantine, e) = "yes" <=> Confidence(r) >= 85
      /\ Builds(Quarantine, e) = "yes"
  <2>1. Quarantine.minimum_confidence = 85
    BY DEF Quarantine
  <2> QED
    BY <2>1, ConfidenceDecides, ShippedCanBeRead
<1>6. Domain(r) = "slurm" =>
        (e.workload_type \in {"hpc_research", "distributed_training"} <=>
           \/ Given(r, "workload_type") \in {"hpc_research", "distributed_training"}
           \/ /\ Given(r, "workload_type") = "unknown"
              /\ r.entity_type \in {"job", "gpu", "node", "queue"})
  BY DEF Reads, Heuristic, SlurmOrOnline
<1>7. e.health_state \in {"degraded", "critical"} <=>
        r.health_state \in {"degraded", "critical"}
  BY ValueAssumption DEF Reads, Given, DefaultOf
<1>8. e.health_state \in {"degraded", "critical"} => e.health_state # NoValue
  BY ValueAssumption
<1>9. e.scheduler_domain = Domain(r)
  BY DEF Reads
<1> QED
  BY <1>1, <1>2, <1>3, <1>4, <1>5, <1>6, <1>7, <1>8, <1>9, FiresIs

(* When rule 4 fires (rules.yaml, policy_engine.py:301-309).               *)
LEMMA ScaleToZeroFires ==
  ASSUME NEW r, NEW e, Reads(r, e), NEW t
  PROVE  Fires(ScaleToZero, e, t) <=>
           /\ r.entity_type = "service"
           /\ \/ Given(r, "workload_type") = "online_inference"
              \/ /\ Given(r, "workload_type") = "unknown"
                 /\ Domain(r) = "kubernetes" /\ ~SaysLlm(r)
           /\ AtMost(Plain(r.throughput), Threshold(t, "idle_throughput_threshold")) = "yes"
           /\ Confidence(r) >= 80
<1>1. _matches_scenario(ScaleToZero, e) = "yes" <=>
        e.workload_type \in {"online_inference", "llm_serving"}
  <2>1. ScaleToZero.scenario_family = "managed_or_kserve_serving"
        /\ ScaleToZero.scenario_family # Bad
    BY ShippedCanBeRead DEF ScaleToZero, WellFormed
  <2> QED
    BY <2>1 DEF _matches_scenario, Workloads, Holds
<1>2. _check_preconditions(ScaleToZero, e) = "yes" <=> e.workload_type = "online_inference"
  <2> DEFINE ps == ScaleToZero.preconditions
             checks == [i \in DOMAIN ps |-> _eval_precondition(ps[i], e)]
  <2>1. DOMAIN ps = 1..1 /\ ps[1] = Is("workload_type", "online_inference")
    BY DEF ScaleToZero
  <2>2. ps # Bad
    BY ShippedCanBeRead DEF WellFormed
  <2>3. _check_preconditions(ScaleToZero, e) = AllOf(checks)
    BY <2>2 DEF _check_preconditions
  <2> HIDE DEF ps
  <2>4. /\ DOMAIN checks = 1..1
        /\ checks[1] = _eval_precondition(Is("workload_type", "online_inference"), e)
    BY <2>1
  <2> HIDE DEF checks
  <2>5. AllOf(checks) = "yes" <=> checks[1] = "yes"
    BY <2>4, AllOfIs
  <2> QED
    BY <2>3, <2>4, <2>5, IsHolds, ShippedCanBeRead
<1>3. r.entity_type = "service" =>
        (_has_required_signals(ScaleToZero, e) = "yes" <=> e.throughput # NoValue)
  <2> SUFFICES ASSUME r.entity_type = "service"
               PROVE  _has_required_signals(ScaleToZero, e) = "yes" <=> e.throughput # NoValue
    OBVIOUS
  <2> DEFINE ss == ScaleToZero.required_signals
             checks == [i \in DOMAIN ss |-> HasSignal(e, ss[i])]
  <2>1. DOMAIN ss = 1..1 /\ ss[1] = "throughput"
    BY DEF ScaleToZero
  <2>2. ss # Bad /\ ss[1] # Bad
    BY <2>1, ShippedCanBeRead DEF WellFormed
  <2>3. _has_required_signals(ScaleToZero, e) = AllOf(checks)
    BY <2>2 DEF _has_required_signals
  <2> HIDE DEF ss
  <2>4. "throughput" \in Attributes(e.entity_type)
    BY DEF Reads, Attributes, Declared
  <2>5. HasSignal(e, ss[1]) = Present(e.throughput)
    BY <2>1, <2>2, <2>4 DEF HasSignal, FieldRaises, _get_field
  <2>6. DOMAIN checks = 1..1 /\ checks[1] = Present(e.throughput)
    BY <2>1, <2>5
  <2> HIDE DEF checks
  <2>7. AllOf(checks) = "yes" <=> checks[1] = "yes"
    BY <2>6, AllOfIs
  <2> QED
    BY <2>3, <2>6, <2>7 DEF Present, Holds
<1>4. _evaluate_logic(ScaleToZero, e, t) = _logic_idle_service(e, t)
  BY ShippedCanBeRead DEF _evaluate_logic, Logic, ScaleToZero, WellFormed
<1>5. /\ MeetsMinimum(ScaleToZero, e) = "yes" <=> Confidence(r) >= 80
      /\ Builds(ScaleToZero, e) = "yes"
  <2>1. ScaleToZero.minimum_confidence = 80
    BY DEF ScaleToZero
  <2> QED
    BY <2>1, ConfidenceDecides, ShippedCanBeRead
<1>6. r.entity_type = "service" =>
        (e.workload_type = "online_inference" <=>
           \/ Given(r, "workload_type") = "online_inference"
           \/ /\ Given(r, "workload_type") = "unknown"
              /\ Domain(r) = "kubernetes" /\ ~SaysLlm(r))
  BY DEF Reads, Heuristic, _looks_like_llm
<1>7. _logic_idle_service(e, t) = "yes" <=>
        /\ r.entity_type = "service" /\ t # Bad /\ e.throughput # NoValue
        /\ AtMost(e.throughput, Threshold(t, "idle_throughput_threshold")) = "yes"
  <2> DEFINE checks == <<Holds(IsService(e)), Readable(t), Present(e.throughput),
                         AtMost(e.throughput, Threshold(t, "idle_throughput_threshold"))>>
  <2>1. /\ DOMAIN checks = 1..4
        /\ checks[1] = Holds(IsService(e)) /\ checks[2] = Readable(t)
        /\ checks[3] = Present(e.throughput)
        /\ checks[4] = AtMost(e.throughput, Threshold(t, "idle_throughput_threshold"))
    OBVIOUS
  <2>2. _logic_idle_service(e, t) = AllOf(checks)
    BY DEF _logic_idle_service
  <2> HIDE DEF checks
  <2>3. AllOf(checks) = "yes" <=> \A i \in 1..4 : checks[i] = "yes"
    BY <2>1, AllOfIs
  <2>4. /\ Holds(IsService(e)) = "yes" <=> r.entity_type = "service"
        /\ Readable(t) = "yes" <=> t # Bad
        /\ \A v : Present(v) = "yes" <=> v # NoValue
    BY DEF Holds, IsService, Readable, Present, Reads
  <2> QED
    BY <2>1, <2>2, <2>3, <2>4
<1>8. r.entity_type = "service" => e.throughput = Plain(r.throughput)
  BY DEF Reads
<1> QED
  BY <1>1, <1>2, <1>3, <1>4, <1>5, <1>6, <1>7, <1>8, ComparedIsThere, FiresIs

-----------------------------------------------------------------------------
(* The shipped rules *)

(* No file raises the threshold of rule 5 above the least confidence the   *)
(* others ask for                                                          *)
Lowered == \A source \in Rulebooks \cup Packs :
  source.thresholds # Bad /\ "no_action_confidence_threshold" \in DOMAIN source.thresholds =>
    source.thresholds["no_action_confidence_threshold"] \in {n \in Int : n <= 75}

(* What the shipped rules are, and that each has an action of its own.     *)
LEMMA ShippedAre ==
  ASSUME rules = RulesYaml.rules
  PROVE  /\ DOMAIN rules = 1..5
         /\ rules[1] = ScaleUp /\ rules[2] = AdjustBatching /\ rules[3] = Quarantine
         /\ rules[4] = ScaleToZero /\ rules[5] = NoAction
         /\ \A k \in 1..5 : rules[k].action_type =
              CASE k = 1 -> "scale_replicas" [] k = 2 -> "adjust_batching"
                [] k = 3 -> "quarantine_node" [] k = 4 -> "enable_scale_to_zero"
                [] k = 5 -> "recommend_no_action"
<1>1. rules = <<ScaleUp, AdjustBatching, Quarantine, ScaleToZero, NoAction>>
  BY DEF RulesYaml
<1>2. /\ ScaleUp.action_type = "scale_replicas"
      /\ AdjustBatching.action_type = "adjust_batching"
      /\ Quarantine.action_type = "quarantine_node"
      /\ ScaleToZero.action_type = "enable_scale_to_zero"
      /\ NoAction.action_type = "recommend_no_action"
  BY DEF ScaleUp, AdjustBatching, Quarantine, ScaleToZero, NoAction
<1> QED
  BY <1>1, <1>2

(* With the shipped rules, an action is recommended of a record without a  *)
(* rival exactly if its one rule fires.                                    *)
LEMMA ShippedRecommends ==
  ASSUME rules = RulesYaml.rules, IInv, pc = "done",
         NEW i \in DOMAIN raw_records, Single(i), NEW j \in 1..5
  PROVE  Recommended(raw_records[i], rules[j].action_type) <=>
           /\ Usable(raw_records[i])
           /\ Fires(rules[j], classify(NewEntity(raw_records[i])), thresholds)
<1>1. DOMAIN rules = 1..5
      /\ \A k, l \in 1..5 : rules[k].action_type = rules[l].action_type => k = l
  BY ShippedAre
<1> QED
  BY <1>1, RecommendedIs

(* Usable records are what EntityReads asks for.                           *)
LEMMA RawReads ==
  ASSUME IInv, NEW i \in DOMAIN raw_records, Usable(raw_records[i])
  PROVE  Reads(raw_records[i], classify(NewEntity(raw_records[i])))
BY EntityReads DEF IInv, StageInv, RawOk, Records, Usable

(* When the shipped rules are in force, with any thresholds, packs and     *)
(* telemetry, scaling is recommended exactly as ScaleUpTrigger says (rule  *)
(* 1 through normalizer, bus, classifier and engine).                      *)
THEOREM ScaleUpTriggerHolds == Spec => []ScaleUpTrigger
<1>1. IInv => ScaleUpTrigger
  <2> SUFFICES ASSUME IInv, pc = "done", rules = RulesYaml.rules,
                      NEW i \in DOMAIN raw_records, Single(i)
               PROVE  LET r == raw_records[i] IN
                      Recommended(r, "scale_replicas") <=>
                        /\ Usable(r)
                        /\ r.entity_type = "service" /\ Domain(r) = "kubernetes"
                        /\ \/ Given(r, "workload_type") = "online_inference"
                           \/ Given(r, "workload_type") = "unknown" /\ ~SaysLlm(r)
                        /\ Greater(Plain(r.latency_p95_ms),
                                   Threshold(thresholds, "target_p95_ms")) = "yes"
                        /\ Greater(Plain(r.queue_depth),
                                   Threshold(thresholds, "min_queue_depth_for_scale")) = "yes"
                        /\ Confidence(r) >= 75
    BY DEF ScaleUpTrigger
  <2>1. rules[1] = ScaleUp /\ rules[1].action_type = "scale_replicas"
    BY ShippedAre
  <2>2. Recommended(raw_records[i], rules[1].action_type) <=>
           /\ Usable(raw_records[i])
           /\ Fires(rules[1], classify(NewEntity(raw_records[i])), thresholds)
    BY ShippedRecommends
  <2> QED
    BY <2>1, <2>2, RawReads, ScaleUpFires
<1> QED
  BY <1>1, InvHolds, PTL

(* When the shipped rules are in force, with any thresholds, packs and     *)
(* telemetry, quarantine is recommended as QuarantineTrigger says          *)
(* (policy_engine.py:295-299, rule 3).                                     *)
THEOREM QuarantineTriggerHolds == Spec => []QuarantineTrigger
<1>1. IInv => QuarantineTrigger
  <2> SUFFICES ASSUME IInv, pc = "done", rules = RulesYaml.rules,
                      NEW i \in DOMAIN raw_records, Single(i)
               PROVE  LET r    == raw_records[i]
                          sick == r.health_state \in {"degraded", "critical"}
                          sure == Confidence(r) >= 85
                      IN
                      /\ Recommended(r, "quarantine_node") => Usable(r) /\ sick /\ sure
                      /\ /\ Usable(r) /\ sick /\ sure
                         /\ r.entity_type \in {"node", "gpu"} /\ Domain(r) = "slurm"
                         /\ Given(r, "workload_type") \in
                              {"unknown", "hpc_research", "distributed_training"}
                         => Recommended(r, "quarantine_node")
    BY DEF QuarantineTrigger
  <2>1. rules[3] = Quarantine /\ rules[3].action_type = "quarantine_node"
    BY ShippedAre
  <2>2. Recommended(raw_records[i], rules[3].action_type) <=>
           /\ Usable(raw_records[i])
           /\ Fires(rules[3], classify(NewEntity(raw_records[i])), thresholds)
    BY ShippedRecommends
  <2> QED
    BY <2>1, <2>2, RawReads, QuarantineFires
<1> QED
  BY <1>1, InvHolds, PTL

(* When the shipped rules are in force, with any thresholds, packs and     *)
(* telemetry, scaling to zero is recommended as ScaleToZeroTrigger says    *)
(* (policy_engine.py:301-309, rule 4).                                     *)
THEOREM ScaleToZeroTriggerHolds == Spec => []ScaleToZeroTrigger
<1>1. IInv => ScaleToZeroTrigger
  <2> SUFFICES ASSUME IInv, pc = "done", rules = RulesYaml.rules,
                      NEW i \in DOMAIN raw_records, Single(i),
                      Plain(raw_records[i].throughput)
                        # Threshold(thresholds, "idle_throughput_threshold")
               PROVE  LET r == raw_records[i] IN
                      Recommended(r, "enable_scale_to_zero") <=>
                        /\ Usable(r)
                        /\ r.entity_type = "service"
                        /\ \/ Given(r, "workload_type") = "online_inference"
                           \/ /\ Given(r, "workload_type") = "unknown"
                              /\ Domain(r) = "kubernetes" /\ ~SaysLlm(r)
                        /\ AtMost(Plain(r.throughput),
                                  Threshold(thresholds, "idle_throughput_threshold")) = "yes"
                        /\ Confidence(r) >= 80
    BY DEF ScaleToZeroTrigger
  <2>1. rules[4] = ScaleToZero /\ rules[4].action_type = "enable_scale_to_zero"
    BY ShippedAre
  <2>2. Recommended(raw_records[i], rules[4].action_type) <=>
           /\ Usable(raw_records[i])
           /\ Fires(rules[4], classify(NewEntity(raw_records[i])), thresholds)
    BY ShippedRecommends
  <2> QED
    BY <2>1, <2>2, RawReads, ScaleToZeroFires
<1> QED
  BY <1>1, InvHolds, PTL

(* The threshold of rule 5 in force is a number, and low, if there are any *)
NoActionBelow ==
  thresholds # Bad =>
    Threshold(thresholds, "no_action_confidence_threshold") \in {n \in Int : n <= 75}

(* The pack's thresholds replace those of the rules one by one             *)
(* (policy_engine.py:117), so if no file raises the one of rule 5 it stays *)
(* low.                                                                    *)
LEMMA NoActionBelowHolds == Lowered => (Spec => []NoActionBelow)
<1> SUFFICES ASSUME Lowered PROVE Spec => []NoActionBelow
  OBVIOUS
<1>1. Init => NoActionBelow
  BY DEF Init, NoActionBelow, Threshold, Default
<1>2. NoActionBelow /\ [Next]_vars => NoActionBelow'
  <2> SUFFICES ASSUME NoActionBelow, [Next]_vars PROVE NoActionBelow'
    OBVIOUS
  <2>1. ASSUME NEW book \in Rulebooks, thresholds' = book.thresholds PROVE NoActionBelow'
    BY <2>1 DEF Lowered, NoActionBelow, Threshold, Default
  <2>2. ASSUME NEW pack \in Packs, Bad \notin {thresholds, pack.thresholds},
               thresholds' = update(thresholds, pack.thresholds)
        PROVE  NoActionBelow'
    <3> DEFINE name == "no_action_confidence_threshold"
    <3>1. CASE name \in DOMAIN pack.thresholds
      <4>1. thresholds'[name] = pack.thresholds[name] /\ name \in DOMAIN thresholds'
        BY <2>2, <3>1 DEF update
      <4> QED
        BY <2>2, <3>1, <4>1 DEF Lowered, NoActionBelow, Threshold
    <3>2. CASE name \notin DOMAIN pack.thresholds
      <4>1. /\ name \in DOMAIN thresholds' <=> name \in DOMAIN thresholds
            /\ name \in DOMAIN thresholds => thresholds'[name] = thresholds[name]
        BY <2>2, <3>2 DEF update
      <4> QED
        BY <2>2, <4>1 DEF NoActionBelow, Threshold
    <3> QED
      BY <3>1, <3>2
  <2>3. CASE UNCHANGED thresholds
    BY <2>3 DEF NoActionBelow, Threshold
  <2>4. CASE \E book \in Rulebooks : LoadRules(book)
    BY <2>1, <2>4 DEF LoadRules
  <2>5. CASE \E pack \in Packs : LoadPolicyPack(pack)
    BY <2>2, <2>5 DEF LoadPolicyPack
  <2>6. CASE \E pack \in Packs : PackRaises(pack)
    BY <2>3, <2>6 DEF PackRaises
  <2>7. CASE NoRules \/ MalformedRules \/ MalformedPack \/ NoPack
    BY <2>3, <2>7 DEF NoRules, MalformedRules, MalformedPack, NoPack
  <2>8. CASE \/ \E scenario \in Scenarios : Collect(scenario) \/ CollectRaises(scenario)
             \/ NoScenario \/ Ingest \/ IngestRaises \/ Classify \/ ClassifyRaises
             \/ Evaluate \/ EvaluateRaises \/ Process \/ UNCHANGED vars
    BY <2>3, <2>8 DEF Collect, CollectRaises, NoScenario, Ingest, IngestRaises, Classify,
       ClassifyRaises, Evaluate, EvaluateRaises, Process, vars
  <2> QED
    BY <2>4, <2>5, <2>6, <2>7, <2>8 DEF Next
<1> QED
  BY <1>1, <1>2, PTL DEF Spec

(* With the shipped rules, and unless a file raises the threshold of rule  *)
(* 5 above 75 percent, what is told to take no action is told nothing else *)
(* (rules.yaml rule 5 against the minimum confidence of the others).       *)
THEOREM NoActionIsExclusiveHolds ==
  Lowered => (Spec => []NoActionIsExclusive)
<1> SUFFICES ASSUME Lowered PROVE Spec => []NoActionIsExclusive
  OBVIOUS
<1>1. IInv /\ NoActionBelow => NoActionIsExclusive
  <2> SUFFICES ASSUME IInv, NoActionBelow, rules = RulesYaml.rules, NEW e,
                      NEW k \in DOMAIN results, RecOf(k).entity_id = e.entity_id,
                      RecOf(k).action_type = "recommend_no_action",
                      NEW l \in DOMAIN results, RecOf(l).entity_id = e.entity_id,
                      RecOf(l).action_type # "recommend_no_action"
               PROVE  FALSE
    BY DEF NoActionIsExclusive, Recommended
  <2>1. pc = "done"
    BY NoResultsYet
  <2>2. PICK source : ComesFrom(source)
    BY <2>1, ResultsAreFired
  <2> DEFINE x == source[k]
             y == source[l]
  <2>3. /\ x \in Fired /\ y \in Fired
        /\ RecOf(k) = Marked(Recommend(x)) /\ RecOf(l) = Marked(Recommend(y))
    BY <2>2 DEF ComesFrom
  <2> HIDE DEF x, y
  <2>4. /\ entities[x[1]].entity_id = e.entity_id
        /\ entities[y[1]].entity_id = e.entity_id
        /\ rules[x[2]].action_type = "recommend_no_action"
        /\ rules[y[2]].action_type # "recommend_no_action"
    BY <2>3, MarkedIs
  <2>5. /\ x[1] \in DOMAIN entities /\ y[1] \in DOMAIN entities
        /\ x[2] \in DOMAIN rules /\ y[2] \in DOMAIN rules
        /\ Fires(rules[x[2]], entities[x[1]], thresholds)
        /\ Fires(rules[y[2]], entities[y[1]], thresholds)
    BY <2>3 DEF Fired, Pairs
  <2> DEFINE confidence == entities[x[1]].confidence_score
  <2>6. x[1] = y[1]
    BY <2>4, <2>5 DEF IInv, EntityInv
  <2>7. confidence \in 0..100
    BY <2>5, FiredConfidence
  <2>8. /\ DOMAIN rules = 1..5 /\ x[2] = 5 /\ y[2] \in 1..4
        /\ rules[x[2]] = NoAction
        /\ rules[y[2]] \in {ScaleUp, AdjustBatching, Quarantine, ScaleToZero}
    BY <2>4, <2>5, ShippedAre
  <2>9. /\ thresholds # Bad
        /\ confidence < Threshold(thresholds, "no_action_confidence_threshold")
    <3> DEFINE limit == Threshold(thresholds, "no_action_confidence_threshold")
               checks == <<Readable(thresholds), Greater(limit, confidence)>>
    <3>1. _evaluate_logic(NoAction, entities[x[1]], thresholds) = "yes"
      BY <2>5, <2>8, FiresIs
    <3>2. Logic(NoAction) = "low_confidence" /\ NoAction.keywords # Bad
      BY ShippedCanBeRead DEF Logic, NoAction, WellFormed
    <3>3. AllOf(checks) = "yes"
      BY <3>1, <3>2 DEF _evaluate_logic, _logic_low_confidence
    <3>4. /\ DOMAIN checks = 1..2
          /\ checks[1] = Readable(thresholds) /\ checks[2] = Greater(limit, confidence)
      OBVIOUS
    <3> HIDE DEF checks
    <3>5. Readable(thresholds) = "yes" /\ Greater(limit, confidence) = "yes"
      BY <3>3, <3>4, AllOfIs
    <3> HIDE DEF limit, confidence
    <3>6. thresholds # Bad /\ limit > confidence
      BY <3>5 DEF Readable, Greater, Holds
    <3> QED
      BY <3>6 DEF limit
  <2>10. confidence >= 75
    <3>1. MeetsMinimum(rules[y[2]], entities[y[1]]) = "yes"
      BY <2>5, FiresIs
    <3>2. rules[y[2]].minimum_confidence \in {75, 80, 85}
      BY <2>8 DEF ScaleUp, AdjustBatching, Quarantine, ScaleToZero
    <3>3. rules[y[2]].minimum_confidence <= confidence
      BY <2>6, <3>1 DEF MeetsMinimum, AtMost, Holds
    <3> QED
      BY <2>7, <3>2, <3>3
  <2> QED
    BY <2>7, <2>9, <2>10 DEF NoActionBelow
<1> QED
  BY <1>1, InvHolds, NoActionBelowHolds, PTL
=============================================================================
