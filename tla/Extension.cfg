SPECIFICATION FairSpec
CONSTANTS
  a = a  b = b
  t1 = t1  t2 = t2
  f1 = f1  f2 = f2
  Flows = {f1, f2}
  Urls = {a, b}
  FirstUrl = a
  Timers = {t1, t2}
  None = None
  Failed = Failed
  MaxChanges = 2
  MaxLate = 1
INVARIANTS
  TypeOK
  OneTimer
PROPERTIES
  FreshAtLast
  DownAtLast
CHECK_DEADLOCK FALSE
