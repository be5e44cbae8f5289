----------------------------- MODULE Guardrails -----------------------------
(***************************************************************************)
(* The safety guardrails of openaice/core/guardrails.py, with the clock,   *)
(* the telemetry that refreshes the entities, and an actuator.  No code    *)
(* under openaice/ calls the guardrails; the actuator is what their        *)
(* docstrings describe: it applies recommendations that passed (line 45)   *)
(* and calls record_action for each (line 109).  It may hold what it was   *)
(* given while other batches are evaluated.                                *)
(***************************************************************************)
EXTENDS Integers, Sequences, FiniteSets

CONSTANTS
  Ids,                        \* entity ids
  Aware,                      \* those whose observed_at has a zone
  Recommendations,            \* the recommendations a batch may hold
  min_confidence_for_action,  \* GuardrailConfig, confidence in percent
  max_staleness_seconds,
  cooldown_seconds,
  blast_radius_limit,
  Never,                      \* no action recorded for an entity
  MaxTime,                    \* bound: last reading of the clock
  MaxSkew,                    \* bound: how far ahead an observation may be
  MaxBatches,                 \* bound: calls of evaluate_batch
  MaxActions                  \* bound: actions applied

RiskLevel == {"low", "medium", "high", "critical"}

Recommendation == [id : STRING, entity : Ids, confidence : 0..100,
                   risk : RiskLevel, requires_approval : BOOLEAN]

ASSUME GuardrailsAssumption ==
  /\ Recommendations \subseteq Recommendation
  /\ Aware \subseteq Ids
  /\ min_confidence_for_action \in 0..100
  /\ max_staleness_seconds \in Nat
  /\ cooldown_seconds \in Nat
  /\ blast_radius_limit \in Nat
  /\ Never \notin Int
  /\ MaxSkew \in Nat

VARIABLES
  now,             \* datetime.utcnow(), monotone here
  observed_at,     \* entity.observed_at
  freshness,       \* entity.state_freshness_seconds
  last_actions,    \* _last_actions: entity |-> time of its last action
  evaluating,      \* evaluate_batch is in its loop
  approved_count,  \* its local counter
  results,         \* its local list
  eligible,        \* the actuator: results that passed, not yet applied
  batches,         \* history: calls of evaluate_batch so far
  actions          \* history: the actions applied

vars == <<now, observed_at, freshness, last_actions, evaluating,
          approved_count, results, eligible, batches, actions>>

Violation == {"confidence", "freshness", "cooldown", "risk", "blast_radius"}

(* A result remembers the batch, the time, and how many actions had been   *)
(* applied when it was evaluated.                                          *)
Result == [rec : Recommendations, violations : SUBSET Violation,
           batch : Nat, at : Nat, after : Nat]

Action == [entity : Ids, at : Nat, after : Nat]

Passed(result) == result.violations = {}

-----------------------------------------------------------------------------
(* The checks *)

FailsConfidence(rec) == rec.confidence < min_confidence_for_action

FailsFreshness(rec) == now - observed_at[rec.entity] > max_staleness_seconds

(* Mutated form: the window ends a second early *)
BugCooldownOff(rec) ==
  /\ last_actions[rec.entity] # Never
  /\ now - last_actions[rec.entity] < cooldown_seconds - 1

FailsCooldown(rec) ==
  /\ last_actions[rec.entity] # Never
  /\ now - last_actions[rec.entity] < cooldown_seconds

FailsRisk(rec) == rec.risk \in {"high", "critical"} /\ ~rec.requires_approval

(* evaluate *)
Violations(rec) ==
  {v \in Violation : \/ v = "confidence" /\ FailsConfidence(rec)
                     \/ v = "freshness"  /\ FailsFreshness(rec)
                     \/ v = "cooldown"   /\ FailsCooldown(rec)
                     \/ v = "risk"       /\ FailsRisk(rec)}

-----------------------------------------------------------------------------
Init ==
  /\ now = 0
  /\ observed_at \in [Ids -> 0..MaxSkew]
  /\ freshness = [e \in Ids |-> 0]
  /\ last_actions = [e \in Ids |-> Never]
  /\ evaluating = FALSE
  /\ approved_count = 0
  /\ results = <<>>
  /\ eligible = {}
  /\ batches = 0
  /\ actions = <<>>

BeginBatch ==
  /\ ~evaluating
  /\ batches < MaxBatches
  /\ evaluating' = TRUE
  /\ batches' = batches + 1
  /\ approved_count' = 0
  /\ results' = <<>>
  /\ UNCHANGED <<now, observed_at, freshness, last_actions, eligible, actions>>

(* The next recommendation of the batch; ids are unique (uuid4) *)
Takes(rec) ==
  /\ evaluating
  /\ \A i \in DOMAIN results : results[i].rec.id # rec.id

Verdict(rec, violations) ==
  [rec |-> rec, violations |-> violations,
   batch |-> batches, at |-> now, after |-> Len(actions)]

(* Mutated form: the limit is passed by one *)
BugBlastOneMore(rec) ==
  LET violations == Violations(rec)
      full       == approved_count > blast_radius_limit
  IN
  /\ Takes(rec)
  /\ rec.entity \notin Aware
  /\ freshness' = [freshness EXCEPT ![rec.entity] =
                     now - observed_at[rec.entity]]
  /\ IF violations = {} /\ full
     THEN results' = Append(results, Verdict(rec, {"blast_radius"}))
     ELSE results' = Append(results, Verdict(rec, violations))
  /\ approved_count' = IF violations = {} /\ ~full
                       THEN approved_count + 1 ELSE approved_count
  /\ UNCHANGED <<now, observed_at, last_actions, evaluating, eligible,
                 batches, actions>>

(* An iteration: evaluate, then the blast-radius limit if it passed *)
EvaluateInBatch(rec) ==
  LET violations == Violations(rec)
      full       == approved_count >= blast_radius_limit
  IN
  /\ Takes(rec)
  /\ rec.entity \notin Aware
  /\ freshness' = [freshness EXCEPT ![rec.entity] =
                     now - observed_at[rec.entity]]
  /\ IF violations = {} /\ full
     THEN results' = Append(results, Verdict(rec, {"blast_radius"}))
     ELSE results' = Append(results, Verdict(rec, violations))
  /\ approved_count' = IF violations = {} /\ ~full
                       THEN approved_count + 1 ELSE approved_count
  /\ UNCHANGED <<now, observed_at, last_actions, evaluating, eligible,
                 batches, actions>>

(* The freshness of an entity whose time has a zone cannot be computed     *)
(* (entities.py:163): the whole batch is lost.                             *)
BatchRaises(rec) ==
  /\ Takes(rec)
  /\ rec.entity \in Aware
  /\ evaluating' = FALSE
  /\ approved_count' = 0
  /\ results' = <<>>
  /\ UNCHANGED <<now, observed_at, freshness, last_actions, eligible, batches, actions>>

ReturnBatch ==
  /\ evaluating
  /\ evaluating' = FALSE
  /\ eligible' = eligible \cup
       {results[i] : i \in {j \in DOMAIN results : Passed(results[j])}}
  /\ UNCHANGED <<now, observed_at, freshness, last_actions, approved_count,
                 results, batches, actions>>

(* Mutated form: the end of the window is recorded, with the wrong sign *)
BugRecordExpiry(result) ==
  /\ result \in eligible
  /\ Len(actions) < MaxActions
  /\ eligible' = eligible \ {result}
  /\ last_actions' = [last_actions EXCEPT ![result.rec.entity] = now - cooldown_seconds]
  /\ actions' = Append(actions, [entity |-> result.rec.entity, at |-> now,
                                 after |-> result.after])
  /\ UNCHANGED <<now, observed_at, freshness, evaluating, approved_count,
                 results, batches>>

(* The actuator applies one of the results it holds: record_action *)
Apply(result) ==
  /\ result \in eligible
  /\ Len(actions) < MaxActions
  /\ eligible' = eligible \ {result}
  /\ last_actions' = [last_actions EXCEPT ![result.rec.entity] = now]
  /\ actions' = Append(actions, [entity |-> result.rec.entity, at |-> now,
                                 after |-> result.after])
  /\ UNCHANGED <<now, observed_at, freshness, evaluating, approved_count,
                 results, batches>>

(* Telemetry: newer data reaches the entity, its time perhaps skewed; a    *)
(* merge into an entity with a zone raises before its freshness is set.    *)
Observe(e, t) ==
  /\ t \in observed_at[e]..(now + MaxSkew)
  /\ observed_at' = [observed_at EXCEPT ![e] = t]
  /\ freshness' = [freshness EXCEPT ![e] = IF e \in Aware THEN @ ELSE now - t]
  /\ UNCHANGED <<now, last_actions, evaluating, approved_count, results,
                 eligible, batches, actions>>

Tick ==
  /\ now < MaxTime
  /\ now' = now + 1
  /\ UNCHANGED <<observed_at, freshness, last_actions, evaluating,
                 approved_count, results, eligible, batches, actions>>

Next ==
  \/ BeginBatch
  \/ \E rec \in Recommendations : EvaluateInBatch(rec) \/ BatchRaises(rec)
  \/ ReturnBatch
  \/ \E result \in eligible : Apply(result)
  \/ \E e \in Ids : \E t \in 0..(now + MaxSkew) : Observe(e, t)
  \/ Tick

Spec == Init /\ [][Next]_vars

-----------------------------------------------------------------------------
(* Properties *)

(* Every variable has its type.                                            *)
TypeOK ==
  /\ now \in Nat
  /\ observed_at \in [Ids -> Int]
  /\ freshness \in [Ids -> Int]
  /\ last_actions \in [Ids -> Nat \cup {Never}]
  /\ evaluating \in BOOLEAN
  /\ approved_count \in Nat
  /\ results \in Seq(Result)
  /\ eligible \in SUBSET Result
  /\ batches \in Nat
  /\ actions \in Seq(Action)

PassedUpTo(n) == {i \in 1..n : Passed(results[i])}

(* One evaluation cycle affects at most blast_radius_limit entities, and   *)
(* evaluate_batch blocks for that reason only what was fit to pass and     *)
(* came after the limit was used up.                                       *)
BlastRadius ==
  /\ Cardinality({results[i].rec.entity : i \in PassedUpTo(Len(results))})
       <= blast_radius_limit
  /\ \A i \in DOMAIN results : "blast_radius" \in results[i].violations =>
       /\ results[i].violations = {"blast_radius"}
       /\ Cardinality(PassedUpTo(i)) = blast_radius_limit

(* Two actions on an entity are a cooldown apart unless the second was     *)
(* approved before the first was recorded: nothing but an approval that    *)
(* outlives an action gets around the window (_check_cooldown,             *)
(* record_action).                                                         *)
CooldownSinceApproval ==
  \A i, j \in DOMAIN actions :
    /\ i < j
    /\ actions[i].entity = actions[j].entity
    /\ i <= actions[j].after
    => actions[j].at - actions[i].at >= cooldown_seconds

(* "Guardrail C: enforce cooldown window between actions"                  *)
(* (guardrails.py:147): any two actions on an entity are a cooldown apart. *)
CooldownBetweenActions ==
  \A i, j \in DOMAIN actions :
    i < j /\ actions[i].entity = actions[j].entity
    => actions[j].at - actions[i].at >= cooldown_seconds
=============================================================================
