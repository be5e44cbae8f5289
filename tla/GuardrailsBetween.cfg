SPECIFICATION Spec
CONSTANTS
  svc = svc
  node = node
  zoned = zoned
  Never = Never
  Ids = {svc}
  Aware = {}
  Recommendations <- OneEntity
  min_confidence_for_action = 75
  max_staleness_seconds = 4
  cooldown_seconds = 2
  blast_radius_limit = 2
  MaxTime = 4
  MaxSkew = 0
  MaxBatches = 2
  MaxActions = 3
INVARIANTS
  CooldownBetweenActions
