SPECIFICATION Spec
CONSTANTS
  Workers = {w1}
  Clients = {c1}
  NumUsers = 2
  Selections <- MCOneSelection
  BatchSizes <- MCUnitBatches
  Window = 1
  MaxOps = 1
  MaxFaults = 0
CHECK_DEADLOCK FALSE
INVARIANTS SendingIsUnderWay
