---------------------------- MODULE MCGuardrails ----------------------------
(* Small instances of the guardrails for TLC: two recommendations for one  *)
(* service, one of high risk for a node, one of low confidence, one for an *)
(* entity whose time has a zone.                                           *)
EXTENDS Guardrails

CONSTANTS svc, node, zoned

Rec(id, entity, confidence, risk, approval) ==
  [id |-> id, entity |-> entity, confidence |-> confidence, risk |-> risk,
   requires_approval |-> approval]

TwoEntities ==
  { Rec("scale_up", svc, 80, "medium", FALSE),
    Rec("scale_to_zero", svc, 80, "low", FALSE),
    Rec("quarantine", node, 90, "high", TRUE),
    Rec("drain", node, 74, "high", FALSE),
    Rec("throttle", zoned, 90, "low", TRUE) }

OneEntity ==
  { Rec("scale_up", svc, 75, "medium", FALSE),
    Rec("scale_to_zero", svc, 80, "low", FALSE) }
=============================================================================
