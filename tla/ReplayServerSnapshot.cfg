SPECIFICATION Spec
CONSTANTS
  r1 = r1  r2 = r2  r3 = r3
  g1 = g1  g2 = g2
  big = big  small = small
  Replays = {r1, r2}
  StateReads = {g1}
  RecReads = {g2}
  Scenarios = {big, small}
  Entities <- TwoSizes
  Recs <- SomeRecs
  NoJsonEntities = {}
  NoJsonRecs = {}
  Missing = Missing
  Nothing = Nothing
  PoolSize = 2
INVARIANTS
  StateIsSnapshot
CHECK_DEADLOCK FALSE
