-------------------------- MODULE GuardrailsProofs --------------------------
(***************************************************************************)
(* Proofs about the guardrails, for every configuration, every set of      *)
(* entities and recommendations, and every bound.                          *)
(***************************************************************************)
EXTENDS Guardrails, FiniteSetTheorems, TLAPS

(* A verdict on a recommendation is a result (evaluate).                   *)
LEMMA VerdictType ==
  ASSUME TypeOK, NEW rec \in Recommendations, NEW violations \in SUBSET Violation
  PROVE  Verdict(rec, violations) \in Result
BY DEF TypeOK, Verdict, Result

(* What an iteration appends, and to the counter adds (evaluate_batch).    *)
LEMMA Iteration ==
  ASSUME TypeOK, NEW rec \in Recommendations, EvaluateInBatch(rec)
  PROVE  \E v \in SUBSET Violation :
           /\ results' = Append(results, Verdict(rec, v))
           /\ Verdict(rec, v) \in Result
           /\ \/ /\ v = {} /\ Violations(rec) = {}
                 /\ approved_count < blast_radius_limit
                 /\ approved_count' = approved_count + 1
              \/ /\ v = {"blast_radius"}
                 /\ approved_count >= blast_radius_limit
                 /\ approved_count' = approved_count
              \/ /\ v # {} /\ "blast_radius" \notin v
                 /\ approved_count' = approved_count
<1>1. /\ Violations(rec) \in SUBSET Violation
      /\ "blast_radius" \notin Violations(rec)
  BY DEF Violations, Violation
<1>2. /\ approved_count \in Nat /\ blast_radius_limit \in Nat
  BY GuardrailsAssumption DEF TypeOK
<1>3. CASE Violations(rec) = {} /\ approved_count >= blast_radius_limit
  <2>1. /\ results' = Append(results, Verdict(rec, {"blast_radius"}))
        /\ approved_count' = approved_count
    BY <1>3 DEF EvaluateInBatch
  <2>2. {"blast_radius"} \in SUBSET Violation
    BY DEF Violation
  <2> QED
    BY <1>3, <2>1, <2>2, VerdictType
<1>4. CASE Violations(rec) = {} /\ ~(approved_count >= blast_radius_limit)
  <2>1. /\ results' = Append(results, Verdict(rec, {}))
        /\ approved_count' = approved_count + 1
    BY <1>4 DEF EvaluateInBatch
  <2>2. {} \in SUBSET Violation
    OBVIOUS
  <2>3. approved_count < blast_radius_limit
    BY <1>2, <1>4
  <2> QED
    BY <1>4, <2>1, <2>2, <2>3, VerdictType
<1>5. CASE Violations(rec) # {}
  <2>1. /\ results' = Append(results, Verdict(rec, Violations(rec)))
        /\ approved_count' = approved_count
    BY <1>5 DEF EvaluateInBatch
  <2> QED
    BY <1>1, <1>5, <2>1, VerdictType
<1> QED
  BY <1>3, <1>4, <1>5

(* Every variable of the guardrails keeps its type.                        *)
THEOREM TypeCorrect == Spec => []TypeOK
<1>1. Init => TypeOK
  <2> SUFFICES ASSUME Init PROVE TypeOK
    OBVIOUS
  <2>1. observed_at \in [Ids -> Int]
    BY GuardrailsAssumption DEF Init
  <2>2. results \in Seq(Result) /\ eligible \in SUBSET Result
    BY DEF Init
  <2>3. actions \in Seq(Action)
    BY DEF Init
  <2>4. /\ freshness \in [Ids -> Int]
        /\ last_actions \in [Ids -> Nat \cup {Never}]
    BY DEF Init
  <2> QED
    BY <2>1, <2>2, <2>3, <2>4 DEF Init, TypeOK
<1>2. TypeOK /\ [Next]_vars => TypeOK'
  <2> SUFFICES ASSUME TypeOK, [Next]_vars
               PROVE  TypeOK'
    OBVIOUS
  <2> USE DEF TypeOK
  <2>1. CASE BeginBatch
    BY <2>1 DEF BeginBatch
  <2>2. ASSUME NEW rec \in Recommendations, EvaluateInBatch(rec)
        PROVE  TypeOK'
    <3>1. rec.entity \in Ids
      BY GuardrailsAssumption DEF Recommendation
    <3>2. freshness' \in [Ids -> Int]
      BY <2>2, <3>1 DEF EvaluateInBatch
    <3>3. results' \in Seq(Result) /\ approved_count' \in Nat
      <4>1. PICK v \in SUBSET Violation :
              /\ results' = Append(results, Verdict(rec, v))
              /\ Verdict(rec, v) \in Result
              /\ approved_count' \in {approved_count, approved_count + 1}
        BY <2>2, Iteration
      <4> QED
        BY <4>1
    <3> QED
      BY <2>2, <3>2, <3>3 DEF EvaluateInBatch
  <2>3. ASSUME NEW rec \in Recommendations, BatchRaises(rec)
        PROVE  TypeOK'
    <3>1. results' = <<>> /\ results' \in Seq(Result)
      BY <2>3 DEF BatchRaises
    <3>2. UNCHANGED <<now, observed_at, freshness, last_actions, eligible, batches, actions>>
      BY <2>3 DEF BatchRaises
    <3>3. approved_count' \in Nat /\ evaluating' \in BOOLEAN
      BY <2>3 DEF BatchRaises
    <3> QED
      BY <3>1, <3>2, <3>3
  <2>4. CASE ReturnBatch
    <3>1. \A i \in DOMAIN results : results[i] \in Result
      OBVIOUS
    <3>2. eligible' \in SUBSET Result
      BY <2>4, <3>1 DEF ReturnBatch
    <3> QED
      BY <2>4, <3>2 DEF ReturnBatch
  <2>5. ASSUME NEW result \in eligible, Apply(result)
        PROVE  TypeOK'
    <3>1. result.rec.entity \in Ids /\ result.after \in Nat
      BY GuardrailsAssumption DEF Result, Recommendation
    <3>2. actions' \in Seq(Action)
      BY <2>5, <3>1 DEF Apply, Action
    <3> QED
      BY <2>5, <3>1, <3>2 DEF Apply
  <2>6. ASSUME NEW e \in Ids, NEW t \in 0..(now + MaxSkew), Observe(e, t)
        PROVE  TypeOK'
    BY <2>6, GuardrailsAssumption DEF Observe
  <2>7. CASE Tick
    BY <2>7 DEF Tick
  <2>8. CASE UNCHANGED vars
    BY <2>8 DEF vars
  <2> QED
    BY <2>1, <2>2, <2>3, <2>4, <2>5, <2>6, <2>7, <2>8 DEF Next
<1> QED
  BY <1>1, <1>2, PTL DEF Spec

-----------------------------------------------------------------------------
(* The blast radius *)

(* The counter counts the results that passed, and stays below the limit;  *)
(* a result is blocked by the limit only when that many passed before it.  *)
CountInv ==
  /\ approved_count = Cardinality(PassedUpTo(Len(results)))
  /\ approved_count <= blast_radius_limit
  /\ \A i \in DOMAIN results : "blast_radius" \in results[i].violations =>
       /\ results[i].violations = {"blast_radius"}
       /\ Cardinality(PassedUpTo(i)) = blast_radius_limit

(* The indices of a prefix are finitely many.                              *)
LEMMA PassedFinite ==
  ASSUME NEW n \in Nat
  PROVE  IsFiniteSet(PassedUpTo(n))
<1>1. IsFiniteSet(1..n)
  BY FS_Interval
<1> QED
  BY <1>1, FS_Subset DEF PassedUpTo

(* The number of entities of the results that passed is at most their      *)
(* number.                                                                 *)
LEMMA EntitiesCounted ==
  ASSUME NEW n \in Nat
  PROVE  Cardinality({results[i].rec.entity : i \in PassedUpTo(n)})
           <= Cardinality(PassedUpTo(n))
<1> DEFINE S == PassedUpTo(n)
           T == {results[i].rec.entity : i \in S}
           f == [i \in S |-> results[i].rec.entity]
<1>1. f \in Surjection(S, T)
  BY DEF Surjection
<1> HIDE DEF f, T, S
<1>2. IsFiniteSet(S)
  BY PassedFinite DEF S
<1>3. Cardinality(T) <= Cardinality(S)
  BY <1>1, <1>2, FS_Surjection
<1> QED
  BY <1>3 DEF T, S

(* evaluate_batch keeps the count.                                         *)
LEMMA IterationCounted ==
  ASSUME TypeOK, CountInv, NEW rec \in Recommendations, EvaluateInBatch(rec)
  PROVE  CountInv'
<1> PICK m \in Nat : m = Len(results)
  BY DEF TypeOK
<1> DEFINE n == m + 1
<1>1. PICK v \in SUBSET Violation :
           /\ results' = Append(results, Verdict(rec, v))
           /\ Verdict(rec, v) \in Result
           /\ \/ /\ v = {} /\ approved_count < blast_radius_limit
                 /\ approved_count' = approved_count + 1
              \/ /\ v = {"blast_radius"}
                 /\ approved_count >= blast_radius_limit
                 /\ approved_count' = approved_count
              \/ /\ v # {} /\ "blast_radius" \notin v
                 /\ approved_count' = approved_count
  BY Iteration
<1>2. /\ results \in Seq(Result) /\ Len(results') = n
      /\ DOMAIN results = 1..m /\ DOMAIN results' = 1..n
      /\ results'[n] = Verdict(rec, v)
      /\ \A i \in DOMAIN results : results'[i] = results[i]
  BY <1>1 DEF TypeOK
<1>3. approved_count \in Nat /\ blast_radius_limit \in Nat
  BY GuardrailsAssumption DEF TypeOK
<1>4. results'[n].violations = v
  BY <1>2 DEF Verdict
<1>5. ASSUME NEW k \in DOMAIN results \cup {0}
      PROVE  PassedUpTo(k)' = PassedUpTo(k)
  BY <1>2 DEF PassedUpTo, Passed
<1>6. /\ v = {} => PassedUpTo(n)' = PassedUpTo(m) \cup {n}
      /\ v # {} => PassedUpTo(n)' = PassedUpTo(m)
  BY <1>2, <1>4 DEF PassedUpTo, Passed
<1>7. IsFiniteSet(PassedUpTo(m)) /\ n \notin PassedUpTo(m)
  BY <1>2, PassedFinite DEF PassedUpTo
<1>8. approved_count' = Cardinality(PassedUpTo(n)')
  <2> approved_count = Cardinality(PassedUpTo(m))
    BY DEF CountInv
  <2>1. CASE v = {}
    <3>1. PassedUpTo(n)' = PassedUpTo(m) \cup {n}
      BY <1>6, <2>1
    <3>2. Cardinality(PassedUpTo(n)') = Cardinality(PassedUpTo(m)) + 1
      BY <3>1, <1>7, FS_AddElement
    <3> QED
      BY <1>1, <1>2, <2>1, <3>2 DEF CountInv
  <2>2. CASE v # {}
    BY <1>1, <1>2, <1>6, <2>2 DEF CountInv
  <2> QED
    BY <2>1, <2>2
<1>9. approved_count' <= blast_radius_limit
  BY <1>1, <1>3 DEF CountInv
<1>10. ASSUME NEW i \in DOMAIN results', "blast_radius" \in results'[i].violations
       PROVE  /\ results'[i].violations = {"blast_radius"}
              /\ Cardinality(PassedUpTo(i)') = blast_radius_limit
  <2>1. CASE i \in DOMAIN results
    BY <1>2, <1>5, <1>10, <2>1 DEF CountInv
  <2>2. CASE i = n
    BY <1>1, <1>2, <1>3, <1>4, <1>8, <1>9, <1>10, <2>2
  <2> QED
    BY <1>2, <2>1, <2>2
<1>11. PassedUpTo(Len(results))' = PassedUpTo(n)'
  BY <1>2 DEF PassedUpTo
<1> QED
  BY <1>8, <1>9, <1>10, <1>11 DEF CountInv

(* No evaluation cycle affects more entities than blast_radius_limit, and  *)
(* nothing is blocked for it before the limit is used up.                  *)
THEOREM BlastRadiusHolds == Spec => []BlastRadius
<1>1. Init => CountInv
  <2> SUFFICES ASSUME Init PROVE CountInv
    OBVIOUS
  <2>1. PassedUpTo(Len(results)) = {} /\ DOMAIN results = {}
    BY DEF Init, PassedUpTo
  <2>2. Cardinality(PassedUpTo(Len(results))) = 0
    BY <2>1, FS_EmptySet
  <2>3. approved_count = 0 /\ blast_radius_limit \in Nat
    BY GuardrailsAssumption DEF Init
  <2> QED
    BY <2>1, <2>2, <2>3 DEF CountInv
<1>2. TypeOK /\ CountInv /\ [Next]_vars => CountInv'
  <2> SUFFICES ASSUME TypeOK, CountInv, [Next]_vars
               PROVE  CountInv'
    OBVIOUS
  <2>1. CASE results' = <<>> /\ approved_count' = 0
    <3>1. results' = <<>> /\ approved_count' = 0
      BY <2>1
    <3>2. PassedUpTo(Len(results))' = {} /\ DOMAIN results' = {}
      BY <3>1 DEF PassedUpTo
    <3>3. Cardinality(PassedUpTo(Len(results))') = 0
      BY <3>2, FS_EmptySet
    <3>4. blast_radius_limit \in Nat
      BY GuardrailsAssumption
    <3> QED
      BY <3>1, <3>2, <3>3, <3>4 DEF CountInv
  <2>2. CASE UNCHANGED <<results, approved_count>>
    BY <2>2 DEF CountInv, PassedUpTo, Passed
  <2> QED
    BY <2>1, <2>2, IterationCounted
       DEF Next, BeginBatch, BatchRaises, ReturnBatch, Apply, Observe, Tick, vars
<1>3. TypeOK /\ CountInv => BlastRadius
  <2> SUFFICES ASSUME TypeOK, CountInv PROVE BlastRadius
    OBVIOUS
  <2> DEFINE affected == {results[i].rec.entity : i \in PassedUpTo(Len(results))}
  <2>1. Cardinality(affected) <= approved_count
    <3>1. Len(results) \in Nat
      BY DEF TypeOK
    <3>2. Cardinality(affected) <= Cardinality(PassedUpTo(Len(results)))
      BY <3>1, EntitiesCounted
    <3> QED
      BY <3>2 DEF CountInv
  <2>2. IsFiniteSet(affected)
    <3>1. IsFiniteSet(PassedUpTo(Len(results)))
      BY PassedFinite DEF TypeOK
    <3> DEFINE f == [i \in PassedUpTo(Len(results)) |-> results[i].rec.entity]
    <3>2. f \in Surjection(PassedUpTo(Len(results)), affected)
      BY DEF Surjection
    <3> HIDE DEF f, affected
    <3> QED
      BY <3>1, <3>2, FS_Surjection
  <2>3. Cardinality(affected) \in Nat
    BY <2>2, FS_CardinalityType
  <2>4. Cardinality(affected) <= blast_radius_limit
    <3> HIDE DEF affected
    <3> QED
      BY <2>1, <2>3, GuardrailsAssumption DEF CountInv, TypeOK
  <2> QED
    BY <2>4 DEF BlastRadius, CountInv
<1> QED
  BY <1>1, <1>2, <1>3, TypeCorrect, PTL DEF Spec

-----------------------------------------------------------------------------
(* The cooldown *)

(* _last_actions knows of every action and never lies in the future.       *)
LastInv ==
  /\ \A i \in DOMAIN actions :
       /\ last_actions[actions[i].entity] # Never
       /\ actions[i].at <= last_actions[actions[i].entity]
  /\ \A e \in Ids : last_actions[e] # Never => last_actions[e] <= now

(* When a result passed, the actions recorded on its entity until then     *)
(* were a cooldown ago.                                                    *)
Waited(result) ==
  /\ result.at <= now
  /\ \A i \in DOMAIN actions :
       i <= result.after /\ actions[i].entity = result.rec.entity
       => result.at - actions[i].at >= cooldown_seconds

(* The actuator and the batch in progress hold only results that waited.   *)
WaitedInv ==
  /\ \A result \in eligible : Waited(result) /\ result.after <= Len(actions)
  /\ \A i \in DOMAIN results :
       Passed(results[i]) => Waited(results[i]) /\ results[i].after <= Len(actions)

CooldownInv == LastInv /\ WaitedInv /\ CooldownSinceApproval

(* The clock alone keeps what was waited for.                              *)
LEMMA TickKeeps ==
  ASSUME TypeOK, CooldownInv, UNCHANGED <<actions, last_actions>>,
         now' \in Nat, now <= now',
         \A result \in eligible' :
           \/ result \in eligible
           \/ \E i \in DOMAIN results : results[i] = result /\ Passed(result),
         \A i \in DOMAIN results' : results'[i] = results[i] /\ i \in DOMAIN results
  PROVE  CooldownInv'
<1>1. ASSUME NEW result \in Result, Waited(result)
      PROVE  Waited(result)'
  BY <1>1 DEF Waited, TypeOK, Result
<1>2. eligible \subseteq Result /\ \A i \in DOMAIN results : results[i] \in Result
  BY DEF TypeOK
<1>3. WaitedInv'
  BY <1>1, <1>2 DEF CooldownInv, WaitedInv, Passed
<1>4. LastInv'
  BY DEF CooldownInv, LastInv, TypeOK
<1> QED
  BY <1>3, <1>4 DEF CooldownInv, CooldownSinceApproval

(* What passes has waited (_check_cooldown).                               *)
LEMMA PassedWaited ==
  ASSUME TypeOK, LastInv, NEW rec \in Recommendations, ~FailsCooldown(rec)
  PROVE  Waited(Verdict(rec, {}))
<1>1. rec.entity \in Ids /\ cooldown_seconds \in Nat
  BY GuardrailsAssumption DEF Recommendation
<1>2. ASSUME NEW i \in DOMAIN actions, actions[i].entity = rec.entity
      PROVE  now - actions[i].at >= cooldown_seconds
  <2>1. /\ last_actions[rec.entity] \in Nat /\ last_actions[rec.entity] # Never
        /\ actions[i].at <= last_actions[rec.entity]
    BY <1>1, <1>2 DEF TypeOK, LastInv
  <2>2. actions[i] \in Action /\ now \in Nat
    BY <1>2 DEF TypeOK
  <2>3. ~(now - last_actions[rec.entity] < cooldown_seconds)
    BY <2>1 DEF FailsCooldown
  <2>4. actions[i].at \in Nat
    BY <2>2 DEF Action
  <2> QED
    BY <1>1, <2>1, <2>2, <2>3, <2>4
<1> QED
  BY <1>2 DEF Waited, Verdict, TypeOK

(* An iteration adds to the results only what waited (evaluate_batch).     *)
LEMMA IterationWaited ==
  ASSUME TypeOK, CooldownInv, NEW rec \in Recommendations, EvaluateInBatch(rec)
  PROVE  CooldownInv'
<1>1. PICK v \in SUBSET Violation :
        /\ results' = Append(results, Verdict(rec, v))
        /\ Verdict(rec, v) \in Result
        /\ v = {} => Violations(rec) = {}
  BY Iteration
<1>2. v = {} => ~FailsCooldown(rec)
  BY <1>1 DEF Violations, Violation
<1>3. UNCHANGED <<now, actions, last_actions, eligible>>
  BY DEF EvaluateInBatch
<1>4. ASSUME NEW i \in DOMAIN results', Passed(results'[i])
      PROVE  Waited(results'[i]) /\ results'[i].after <= Len(actions)
  <2>1. CASE i \in DOMAIN results
    BY <1>1, <1>4, <2>1 DEF CooldownInv, WaitedInv, TypeOK
  <2>2. CASE i = Len(results) + 1
    <3>1. results'[i] = Verdict(rec, v)
      BY <1>1, <2>2 DEF TypeOK
    <3>2. v = {}
      BY <1>4, <3>1 DEF Passed, Verdict
    <3>3. Verdict(rec, v).after = Len(actions)
      BY DEF Verdict
    <3> QED
      BY <1>2, <3>1, <3>2, <3>3, PassedWaited DEF CooldownInv, TypeOK
  <2> QED
    BY <1>1, <2>1, <2>2 DEF TypeOK
<1>5. \A result : Waited(result)' <=> Waited(result)
  BY <1>3 DEF Waited
<1>6. WaitedInv'
  BY <1>3, <1>4, <1>5 DEF CooldownInv, WaitedInv, Passed
<1>7. LastInv' /\ CooldownSinceApproval'
  BY <1>3 DEF CooldownInv, LastInv, CooldownSinceApproval
<1> QED
  BY <1>6, <1>7 DEF CooldownInv

(* An action keeps the window, and is known afterwards (record_action).    *)
LEMMA ApplyWaited ==
  ASSUME TypeOK, CooldownInv, NEW result \in eligible, Apply(result)
  PROVE  CooldownInv'
<1> DEFINE n == Len(actions) + 1
           act == [entity |-> result.rec.entity, at |-> now,
                   after |-> result.after]
<1>1. /\ result \in Result /\ result.rec.entity \in Ids
      /\ result.at \in Nat /\ result.after \in Nat
  BY GuardrailsAssumption DEF TypeOK, Result, Recommendation
<1>2. /\ DOMAIN actions = 1..Len(actions) /\ DOMAIN actions' = 1..n
      /\ actions'[n] = act /\ Len(actions') = n /\ Len(actions) \in Nat
      /\ \A i \in DOMAIN actions : /\ actions'[i] = actions[i]
                                   /\ actions[i].at \in Nat
                                   /\ actions[i].entity \in Ids
                                   /\ actions[i].after \in Nat
  <2>1. /\ actions \in Seq(Action)
        /\ act \in Action
    BY <1>1 DEF TypeOK, Action
  <2>2. actions' = Append(actions, act)
    BY DEF Apply
  <2>3. \A i \in DOMAIN actions :
          actions[i] \in Action
    BY DEF TypeOK
  <2> HIDE DEF act
  <2>4. \A i \in DOMAIN actions :
          /\ actions[i].at \in Nat /\ actions[i].entity \in Ids
          /\ actions[i].after \in Nat
    BY <2>3 DEF Action
  <2> QED
    BY <2>1, <2>2, <2>4
<1>3. /\ now' = now /\ now \in Nat /\ results' = results
      /\ eligible' \subseteq eligible
      /\ last_actions' = [last_actions EXCEPT ![result.rec.entity] = now]
  BY DEF Apply, TypeOK
<1>4. \A e \in Ids : last_actions[e] \in Nat \cup {Never}
  BY DEF TypeOK
<1>5. LastInv'
  <2>1. ASSUME NEW i \in DOMAIN actions
        PROVE  /\ last_actions'[actions[i].entity] # Never
               /\ actions[i].at <= last_actions'[actions[i].entity]
    <3>1. /\ last_actions[actions[i].entity] # Never
          /\ actions[i].at <= last_actions[actions[i].entity]
          /\ last_actions[actions[i].entity] <= now
          /\ last_actions[actions[i].entity] \in Nat
          /\ actions[i].at \in Nat /\ actions[i].entity \in Ids
      BY <1>2, <1>4 DEF CooldownInv, LastInv
    <3>2. last_actions'[actions[i].entity] \in {last_actions[actions[i].entity], now}
      BY <1>3, <3>1 DEF TypeOK
    <3>3. now # Never
      BY <1>3, GuardrailsAssumption
    <3> QED
      BY <1>3, <3>1, <3>2, <3>3
  <2>2. last_actions'[result.rec.entity] = now /\ now # Never
    BY <1>1, <1>3, GuardrailsAssumption DEF TypeOK
  <2>3. \A e \in Ids : last_actions'[e] # Never => last_actions'[e] <= now
    BY <1>1, <1>3 DEF CooldownInv, LastInv, TypeOK
  <2> QED
    BY <1>2, <1>3, <2>1, <2>2, <2>3 DEF LastInv
<1>6. WaitedInv'
  <2>1. ASSUME NEW r \in Result, Waited(r), r.after <= Len(actions)
        PROVE  Waited(r)' /\ r.after <= Len(actions')
    <3>1. r.after \in Nat
      BY DEF Result
    <3> QED
      BY <1>2, <1>3, <2>1, <3>1 DEF Waited
  <2> QED
    <3>1. /\ eligible \subseteq Result
          /\ \A i \in DOMAIN results : results[i] \in Result
      BY DEF TypeOK
    <3> QED
      BY <1>3, <2>1, <3>1 DEF CooldownInv, WaitedInv, Passed
<1>7. CooldownSinceApproval'
  <2>1. Waited(result)
    BY DEF CooldownInv, WaitedInv
  <2>2. ASSUME NEW i \in DOMAIN actions, i <= result.after,
               actions[i].entity = result.rec.entity
        PROVE  now - actions[i].at >= cooldown_seconds
    BY <1>1, <1>2, <1>3, <2>1, <2>2, GuardrailsAssumption DEF Waited
  <2>3. ASSUME NEW i \in DOMAIN actions', NEW j \in DOMAIN actions', i < j,
               actions'[i].entity = actions'[j].entity, i <= actions'[j].after
        PROVE  actions'[j].at - actions'[i].at >= cooldown_seconds
    <3>1. CASE j \in DOMAIN actions
      BY <1>2, <2>3, <3>1 DEF CooldownInv, CooldownSinceApproval
    <3>2. CASE j = n
      BY <1>2, <2>2, <2>3, <3>2
    <3> QED
      BY <1>2, <3>1, <3>2
  <2> QED
    BY <2>3 DEF CooldownSinceApproval
<1> QED
  BY <1>5, <1>6, <1>7 DEF CooldownInv

(* However batches, actions and the clock interleave, an action comes a    *)
(* cooldown after every action that was recorded before its approval.      *)
THEOREM CooldownHolds == Spec => []CooldownSinceApproval
<1>1. Init => CooldownInv
  BY DEF Init, CooldownInv, LastInv, WaitedInv, CooldownSinceApproval
<1>2. TypeOK /\ CooldownInv /\ [Next]_vars => CooldownInv'
  <2> SUFFICES ASSUME TypeOK, CooldownInv, [Next]_vars
               PROVE  CooldownInv'
    OBVIOUS
  <2>1. CASE BeginBatch
    BY <2>1, TickKeeps DEF BeginBatch, TypeOK
  <2>2. ASSUME NEW rec \in Recommendations, EvaluateInBatch(rec)
        PROVE  CooldownInv'
    BY <2>2, IterationWaited
  <2>3. ASSUME NEW rec \in Recommendations, BatchRaises(rec)
        PROVE  CooldownInv'
    BY <2>3, TickKeeps DEF BatchRaises, TypeOK
  <2>4. CASE ReturnBatch
    BY <2>4, TickKeeps DEF ReturnBatch, TypeOK
  <2>5. ASSUME NEW result \in eligible, Apply(result)
        PROVE  CooldownInv'
    BY <2>5, ApplyWaited
  <2>6. ASSUME NEW e \in Ids, NEW t \in 0..(now + MaxSkew), Observe(e, t)
        PROVE  CooldownInv'
    BY <2>6, TickKeeps DEF Observe, TypeOK
  <2>7. CASE Tick
    BY <2>7, TickKeeps DEF Tick, TypeOK
  <2>8. CASE UNCHANGED vars
    BY <2>8, TickKeeps DEF vars, TypeOK
  <2> QED
    BY <2>1, <2>2, <2>3, <2>4, <2>5, <2>6, <2>7, <2>8 DEF Next
<1>3. CooldownInv => CooldownSinceApproval
  BY DEF CooldownInv
<1> QED
  BY <1>1, <1>2, <1>3, TypeCorrect, PTL DEF Spec
=============================================================================
