SPECIFICATION FairSpec
CONSTANTS
  r1 = r1  r2 = r2  r3 = r3
  g1 = g1  g2 = g2
  big = big  small = small
  Replays = {r1, r2, r3}
  StateReads = {g1}
  RecReads = {g2}
  Scenarios = {small}
  Entities <- OneEntity
  Recs <- NoRecs
  NoJsonEntities = {r1}
  NoJsonRecs = {r1}
  Missing = Missing
  Nothing = Nothing
  PoolSize = 2
INVARIANTS
  TypeOK
  NoResurrection
  FailureIsInvisible
  MixedOnlyIfOverlapped
PROPERTIES
  EveryRequestAnswered
CHECK_DEADLOCK FALSE
