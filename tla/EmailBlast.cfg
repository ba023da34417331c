SPECIFICATION Spec
CONSTANTS
  Workers = {w1, w2}
  Clients = {c1}
  NumUsers = 6
  Selections <- MCSelections
  BatchSizes <- MCBatchSizes
  Window = 1
  MaxOps = 2
  MaxFaults = 1
SYMMETRY MCSymmetry
CHECK_DEADLOCK FALSE
INVARIANTS SentCountNeverOverstates OneMailEach StopsWithinWindow
 
