---------------------------- MODULE FreshnessGate ----------------------------
(***************************************************************************)
(* The state bus with the freshness guardrail on its entities:             *)
(* Guardrails._check_freshness (openaice/core/guardrails.py:129-140) reads *)
(* the one observed_at the bus keeps for all the fields of an entity.      *)
(***************************************************************************)
EXTENDS StateBusProperties

CONSTANTS
  max_staleness_seconds,  \* GuardrailConfig
  NoVerdict               \* nothing was checked in the last step

ASSUME FreshnessGateAssumption == max_staleness_seconds \in Nat

VARIABLE verdict   \* what the last step's check said, of which entity

gateVars == <<vars, verdict>>

GateInit == Init /\ verdict = NoVerdict

(* Mutated form: the freshness last stored is trusted, not recomputed *)
BugStoredFreshness(e) ==
  /\ ~putting
  /\ Present(e)
  /\ ~entities[e].aware
  /\ verdict' = [entity |-> e,
                 passed |-> entities[e].fresh <= max_staleness_seconds]
  /\ UNCHANGED vars

(* update_freshness, then the comparison; an aware entity raises *)
CheckFreshness(e) ==
  /\ GetEntity(e)
  /\ verdict' = [entity |-> e,
                 passed |-> entities'[e].fresh <= max_staleness_seconds]

GateNext ==
  \/ Next /\ verdict' = NoVerdict
  \/ \E e \in Ids : CheckFreshness(e)

GateSpec == GateInit /\ [][GateNext]_gateVars

Fresh(frag) == now - frag.at <= max_staleness_seconds

(* The guardrail passes an entity exactly when some fragment received for  *)
(* it, in whatever order they came, is recent enough.                      *)
VerdictIsNewest ==
  verdict # NoVerdict =>
    (verdict.passed <=> \E i \in DOMAIN received[verdict.entity] :
                          Fresh(received[verdict.entity][i]))

(* "Telemetry data is recent enough to act on" (docs/architecture/         *)
(* overview.md:94): of an entity that passes, each value a rule may read   *)
(* was observed recently enough.                                           *)
ValuesAreFresh ==
  verdict # NoVerdict /\ verdict.passed =>
    \A f \in Fields : \A i \in DOMAIN received[verdict.entity] :
      IsLast(Carriers(entities[verdict.entity].type,
                      received[verdict.entity], f), i)
      => Fresh(received[verdict.entity][i])
=============================================================================
