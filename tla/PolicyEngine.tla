---------------------------- MODULE PolicyEngine ----------------------------
(***************************************************************************)
(* openaice/core/policy_engine.py: what the engine says of one entity and  *)
(* one rule.  The loop over both, the loading and the sort are actions of  *)
(* module Pipeline.                                                        *)
(*                                                                         *)
(* An entity is a record of the fields the rules read.  A rule carries,    *)
(* for the keywords line 241 looks for in its id, the set of those it      *)
(* contains, and for a precondition the parsed triple of lines 204-223.    *)
(* Nothing of a rule but its id, action and risk is validated: Bad stands  *)
(* for a list that is null, an item or id that is no string, a family that *)
(* is a list, a confidence or threshold that is no number, and, in wording, *)
(* for what no recommendation can be built from: a reason with a           *)
(* placeholder of its own (line 330), a benefit or parameters of the wrong *)
(* type.  Two wrong values of one type, which Python may compare, are left *)
(* out.                                                                    *)
(***************************************************************************)
EXTENDS Entities, Sequences

RiskLevel == {"low", "medium", "high", "critical"}
ControlMode == {"observe_only", "recommend_with_approval", "controlled_auto_act"}

-----------------------------------------------------------------------------
(* A check passes, fails or raises; of several in a row, the first that    *)
(* does not pass tells.                                                    *)

Outcome == {"yes", "no", "raises"}

Holds(condition) == IF condition THEN "yes" ELSE "no"

AllOf(outcomes) ==
  CASE \A i \in DOMAIN outcomes : outcomes[i] = "yes" -> "yes"
    [] \E i \in DOMAIN outcomes :
         /\ outcomes[i] = "raises"
         /\ \A j \in DOMAIN outcomes : j < i => outcomes[j] = "yes" -> "raises"
    [] OTHER -> "no"

Present(v) == Holds(v # NoValue)
Greater(v, w) == IF NaN(v) \/ NaN(w) THEN "raises" ELSE Holds(v > w)
AtMost(v, w) == IF NaN(v) \/ NaN(w) THEN "raises" ELSE Holds(v <= w)

-----------------------------------------------------------------------------
(* The checks before a rule's own logic *)

Workloads(scenario) ==
  CASE scenario = "kubernetes_online_inference" -> {"online_inference"}
    [] scenario = "llm_or_inference_serving" -> {"llm_serving", "online_inference"}
    [] scenario = "hpc_or_training" -> {"hpc_research", "distributed_training"}
    [] scenario = "managed_or_kserve_serving" -> {"online_inference", "llm_serving"}
    [] scenario = "batch" -> {"batch_inference"}
    [] OTHER -> {}

(* A family the map does not name matches like "any". *)
_matches_scenario(rule, entity) ==
  IF rule.scenario_family = Bad THEN "raises"
  ELSE Holds(\/ Workloads(rule.scenario_family) = {}
             \/ entity.workload_type \in Workloads(rule.scenario_family))

(* An attribute of the entity's class, or else a key of its extra fields   *)
_get_field(entity, field) ==
  IF field \in Attributes(entity.entity_type) THEN entity[field]
  ELSE get(entity.extra, field)

FieldRaises(entity, field) ==
  field \notin Attributes(entity.entity_type) /\ entity.extra = Bad

(* What is compared are words, as in the shipped rules: how str() writes a *)
(* number is left out.                                                     *)
_eval_precondition(precond, entity) ==
  CASE precond = Bad -> "raises"
    [] precond # Bad /\ precond.op \notin {"==", "!="} -> "yes"
    [] precond # Bad /\ precond.op \in {"==", "!="} ->
         LET actual == _get_field(entity, precond.field) IN
         IF FieldRaises(entity, precond.field) THEN "raises"
         ELSE Holds(IF precond.op = "==" THEN actual # NoValue /\ actual = precond.expected
                    ELSE actual = NoValue \/ actual # precond.expected)

_check_preconditions(rule, entity) ==
  IF rule.preconditions = Bad THEN "raises"
  ELSE AllOf([i \in DOMAIN rule.preconditions |->
                _eval_precondition(rule.preconditions[i], entity)])

HasSignal(entity, signal) ==
  IF signal = Bad \/ FieldRaises(entity, signal) THEN "raises"
  ELSE Present(_get_field(entity, signal))

_has_required_signals(rule, entity) ==
  IF rule.required_signals = Bad THEN "raises"
  ELSE AllOf([i \in DOMAIN rule.required_signals |->
                HasSignal(entity, rule.required_signals[i])])

-----------------------------------------------------------------------------
(* The thresholds and what a rule's own logic compares with them.  As a    *)
(* whole they are Bad if the rules file gives null for them.               *)

Default ==
  [target_p95_ms |-> 200, min_queue_depth_for_scale |-> 10,
   target_gpu_utilization |-> 55, min_queue_depth_for_batching |-> 5,
   idle_throughput_threshold |-> 1, no_action_confidence_threshold |-> 50]

Threshold(t, name) ==
  IF t = Bad THEN Bad
  ELSE IF name \in DOMAIN t THEN t[name] ELSE Default[name]

Readable(t) == IF t = Bad THEN "raises" ELSE "yes"

IsService(entity) == entity.entity_type = "service"

_logic_queue_pressure(entity, t) ==
  AllOf(<<Holds(IsService(entity)), Readable(t),
          Present(entity.latency_p95_ms), Present(entity.queue_depth),
          Greater(entity.latency_p95_ms, Threshold(t, "target_p95_ms")),
          Greater(entity.queue_depth, Threshold(t, "min_queue_depth_for_scale"))>>)

(* A service has no attribute gpu_utilization: line 285 finds the one in   *)
(* its extra fields, if any, and float() reads it though it be a text.     *)
GpuUtilization(entity) == get(entity.extra, "gpu_utilization")

Underused(entity, t) ==
  Greater(Threshold(t, "target_gpu_utilization"), Plain(GpuUtilization(entity)))

(* Mutated form: no early return for a service without the field           *)
BugNoGpuGuard(entity, t) ==
  AllOf(<<Holds(IsService(entity)), Readable(t), Present(entity.queue_depth),
          Underused(entity, t),
          Greater(entity.queue_depth, Threshold(t, "min_queue_depth_for_batching"))>>)

_logic_low_gpu_high_queue(entity, t) ==
  AllOf(<<Holds(IsService(entity)), Readable(t),
          IF entity.extra = Bad THEN "raises" ELSE Present(GpuUtilization(entity)),
          Present(entity.queue_depth), Underused(entity, t),
          Greater(entity.queue_depth, Threshold(t, "min_queue_depth_for_batching"))>>)

(* Mutated form: the branch for what is no node is missing                 *)
BugNodesOnly(entity) ==
  Holds(entity.entity_type = "node" /\ entity.health_state \in {"degraded", "critical"})

_logic_unhealthy_node(entity) == Holds(entity.health_state \in {"degraded", "critical"})

(* Mutated form: the threshold of the files is not looked at               *)
BugDefaultIdle(entity, t) ==
  AllOf(<<Holds(IsService(entity)), Present(entity.throughput),
          AtMost(entity.throughput, Default.idle_throughput_threshold)>>)

_logic_idle_service(entity, t) ==
  AllOf(<<Holds(IsService(entity)), Readable(t), Present(entity.throughput),
          AtMost(entity.throughput, Threshold(t, "idle_throughput_threshold"))>>)

_logic_low_confidence(entity, t) ==
  AllOf(<<Readable(t),
          Greater(Threshold(t, "no_action_confidence_threshold"), entity.confidence_score)>>)

(* The first method whose keywords the rule's id contains (241-259)        *)
Logic(rule) ==
  CASE rule.keywords \cap {"scale_up", "queue_pressure"} # {} -> "queue_pressure"
    [] "adjust_batching" \in rule.keywords -> "low_gpu"
    [] rule.keywords \cap {"quarantine", "unhealthy"} # {} -> "unhealthy"
    [] rule.keywords \cap {"scale_to_zero", "idle"} # {} -> "idle"
    [] rule.keywords \cap {"no_action", "low_confidence"} # {} -> "low_confidence"
    [] OTHER -> "default"

_evaluate_logic(rule, entity, t) ==
  IF rule.keywords = Bad THEN "raises"
  ELSE CASE Logic(rule) = "queue_pressure" -> _logic_queue_pressure(entity, t)
         [] Logic(rule) = "low_gpu" -> _logic_low_gpu_high_queue(entity, t)
         [] Logic(rule) = "unhealthy" -> _logic_unhealthy_node(entity)
         [] Logic(rule) = "idle" -> _logic_idle_service(entity, t)
         [] Logic(rule) = "low_confidence" -> _logic_low_confidence(entity, t)
         [] OTHER -> "yes"

-----------------------------------------------------------------------------
(* Building a recommendation *)

Max2(a, b) == IF a > b THEN a ELSE b

_compute_urgency(entity) ==
  LET health == CASE entity.health_state = "critical" -> 100
                  [] entity.health_state = "degraded" -> 80
                  [] OTHER -> 50
  IN  CASE IsService(entity) /\ Greater(entity.queue_depth, 50) = "yes" -> Max2(health, 90)
        [] IsService(entity) /\ Greater(entity.queue_depth, 20) = "yes" -> Max2(health, 70)
        [] OTHER -> health

BenefitScore(entity) ==
  IF entity.confidence_score < 50 THEN 100 ELSE 150 - entity.confidence_score

RiskFactor == [low |-> 100, medium |-> 70, high |-> 40, critical |-> 20]

(* Four percentages multiplied, in units of 10^-8                          *)
priority_score(rule, entity) ==
  BenefitScore(entity) * _compute_urgency(entity) * entity.confidence_score
    * RiskFactor[rule.risk_level]

(* Mutated form: the risk of the rule is not looked at                     *)
BugModeOnly(rule, control_mode) == control_mode # "controlled_auto_act"

RequiresApproval(rule, control_mode) ==
  \/ control_mode # "controlled_auto_act"
  \/ rule.risk_level \in {"high", "critical"}

_build_recommendation(rule, entity, control_mode, id) ==
  [recommendation_id |-> id,
   entity_id |-> entity.entity_id,
   action_type |-> rule.action_type,
   confidence_score |-> entity.confidence_score,
   risk_level |-> rule.risk_level,
   requires_approval |-> RequiresApproval(rule, control_mode),
   priority_score |-> priority_score(rule, entity)]

(* A stored confidence outside [0, 1] fails the validation of the          *)
(* recommendation, and a queue depth that is no number the urgency.        *)
Builds(rule, entity) ==
  IF \/ rule.wording = Bad
     \/ entity.confidence_score \notin 0..100
     \/ IsService(entity) /\ entity.queue_depth \in {Bad} \cup Texts
  THEN "raises" ELSE "yes"

-----------------------------------------------------------------------------
(* The rule as a whole *)

(* Mutated form: the confidence gate is missing                            *)
BugNoGate(rule, entity) == "yes"

MeetsMinimum(rule, entity) == AtMost(rule.minimum_confidence, entity.confidence_score)

_evaluate_rule(rule, entity, t) ==
  AllOf(<<_matches_scenario(rule, entity), _check_preconditions(rule, entity),
          _has_required_signals(rule, entity), _evaluate_logic(rule, entity, t),
          MeetsMinimum(rule, entity), Builds(rule, entity)>>)

Fires(rule, entity, t) == _evaluate_rule(rule, entity, t) = "yes"
Raises(rule, entity, t) == _evaluate_rule(rule, entity, t) = "raises"
=============================================================================
