--------------------------- MODULE ShippedPolicy ---------------------------
(***************************************************************************)
(* The rules and the policy pack the repository ships: policies/rules.yaml *)
(* and policies/packs/balanced.yaml, with what line 241 of the engine      *)
(* finds in each rule's id.                                                *)
(***************************************************************************)

Is(field, expected) == [field |-> field, op |-> "==", expected |-> expected]

ScaleUp ==
  [rule_id |-> "infer_scale_up_on_queue_pressure",
   keywords |-> {"scale_up", "queue_pressure"},
   scenario_family |-> "kubernetes_online_inference",
   preconditions |-> <<Is("workload_type", "online_inference"),
                      Is("scheduler_domain", "kubernetes")>>,
   required_signals |-> <<"latency_p95_ms", "queue_depth">>,
   action_type |-> "scale_replicas",
   risk_level |-> "medium", minimum_confidence |-> 75, wording |-> "ok"]

AdjustBatching ==
  [rule_id |-> "infer_adjust_batching_before_scale_out",
   keywords |-> {"adjust_batching"},
   scenario_family |-> "llm_or_inference_serving",
   preconditions |-> <<>>,
   required_signals |-> <<"queue_depth">>,
   action_type |-> "adjust_batching",
   risk_level |-> "medium", minimum_confidence |-> 80, wording |-> "ok"]

Quarantine ==
  [rule_id |-> "hpc_quarantine_unhealthy_node",
   keywords |-> {"quarantine", "unhealthy"},
   scenario_family |-> "hpc_or_training",
   preconditions |-> <<Is("scheduler_domain", "slurm")>>,
   required_signals |-> <<"health_state">>,
   action_type |-> "quarantine_node",
   risk_level |-> "high", minimum_confidence |-> 85, wording |-> "ok"]

ScaleToZero ==
  [rule_id |-> "enable_scale_to_zero_for_idle_service",
   keywords |-> {"scale_to_zero", "idle"},
   scenario_family |-> "managed_or_kserve_serving",
   preconditions |-> <<Is("workload_type", "online_inference")>>,
   required_signals |-> <<"throughput">>,
   action_type |-> "enable_scale_to_zero",
   risk_level |-> "low", minimum_confidence |-> 80, wording |-> "ok"]

NoAction ==
  [rule_id |-> "recommend_no_action_low_confidence",
   keywords |-> {"no_action", "low_confidence"},
   scenario_family |-> "any",
   preconditions |-> <<>>,
   required_signals |-> <<>>,
   action_type |-> "recommend_no_action",
   risk_level |-> "low", minimum_confidence |-> 0, wording |-> "ok"]

RulesYaml ==
  [rules |-> <<ScaleUp, AdjustBatching, Quarantine, ScaleToZero, NoAction>>,
   thresholds |-> [target_p95_ms |-> 200, min_queue_depth_for_scale |-> 10,
                   min_queue_depth_for_batching |-> 5, target_gpu_utilization |-> 55,
                   idle_throughput_threshold |-> 1,
                   no_action_confidence_threshold |-> 50]]

BalancedYaml ==
  [policy_mode |-> "balanced",
   thresholds |-> [target_p95_ms |-> 200, target_gpu_utilization |-> 55,
                   min_queue_depth_for_scale |-> 10, idle_throughput_threshold |-> 1]]
=============================================================================
