SPECIFICATION CollectorSpec
CONSTANTS
  NoValue = NoValue
  Absent = Absent
  Malformed = Malformed
  BadTime = BadTime
  Idle = Idle
  Ids <- MCIds
  Types = {"service", "deployment", "job", "node", "gpu"}
  Sources = {"kubernetes", "slurm", "prometheus", "dcgm", "generic_serving", "replay"}
  Fields <- MCFields
  Values <- MCValues
  Bad = {"rotten"}
  Known <- MCKnown
  Fragments <- MCFragments
  MaxLog = 2
  MaxBatch = 6
  MaxFragments = 12
  MaxTime = 1
  AdapterNames = {"kubernetes", "slurm", "prometheus", "gpu_metrics", "generic_serving", "replay"}
  namespaces <- MCNamespaces
  label_filters <- MCFilters
  Metrics <- MCMetrics
  Answers <- MCAnswers
  MaxSnapshots = 2
INVARIANTS
  LastAnswerWins
  ServiceMirrorsDeployment
  DomainIsReporters
  OnlyFilesPoison
