SPECIFICATION GateSpec
CONSTANTS
  svc = svc
  gpu = gpu
  prom = prom
  k8s = k8s
  lat = lat
  mem = mem
  low = low
  high = high
  raw = raw
  NoValue = NoValue
  Absent = Absent
  Ids = {svc, gpu}
  Types = {"service", "node"}
  Sources = {prom, k8s}
  Fields = {lat, mem}
  Values = {low, high, raw}
  Bad = {raw}
  Known <- MCKnown
  Fragments <- MixedFragments
  MaxLog = 2
  MaxBatch = 3
  MaxFragments = 3
  MaxTime = 2
  NoVerdict = NoVerdict
  max_staleness_seconds = 1
INVARIANTS
  OneZone
  TypeOK
  NewestWins
  ObservedAtIsNewest
  LogIsPrefix
  ReturnedNamesTouched
  FreshnessRebased
  VerdictIsNewest
PROPERTIES
  ImplementsStore
  PoisonPersists
