SPECIFICATION GateSpec
CONSTANTS
  svc = svc
  prom = prom
  k8s = k8s
  lat = lat
  mem = mem
  low = low
  high = high
  NoValue = NoValue
  Absent = Absent
  NoVerdict = NoVerdict
  Ids = {svc}
  Types = {"service"}
  Sources = {prom, k8s}
  Fields = {lat, mem}
  Values = {low, high}
  Bad = {}
  Known <- MCKnown
  Fragments <- TwoSignals
  MaxLog = 2
  MaxBatch = 2
  MaxFragments = 3
  MaxTime = 4
  max_staleness_seconds = 1
INVARIANTS
  ValuesAreFresh
