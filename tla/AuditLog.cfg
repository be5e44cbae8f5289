SPECIFICATION Spec
CONSTANTS
  rec1 = rec1
  rec2 = rec2
  Recommendations = {rec1, rec2}
  EventTypes <- Events
  Garbled = Garbled
  NoRecord = NoRecord
  MaxLogged = 3
  MaxEpochs = 2
INVARIANTS
  TypeOK
  FileIsHistory
  IdNamesOneRecord
  LossNeedsFailure
CHECK_DEADLOCK FALSE
