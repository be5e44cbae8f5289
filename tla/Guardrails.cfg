SPECIFICATION Spec
CONSTANTS
  svc = svc
  node = node
  zoned = zoned
  Never = Never
  Ids = {svc, node, zoned}
  Aware = {zoned}
  Recommendations <- TwoEntities
  min_confidence_for_action = 75
  max_staleness_seconds = 1
  cooldown_seconds = 2
  blast_radius_limit = 1
  MaxTime = 2
  MaxSkew = 0
  MaxBatches = 2
  MaxActions = 2
INVARIANTS
  TypeOK
  BlastRadius
  CooldownSinceApproval
