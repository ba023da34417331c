SPECIFICATION Spec
CONSTANTS
  Workers = {w1, w2}
  QueueSize = 1
  MaxOffset = 4
  MaxRestarts = 1
  Malformed <- MCMalformed
  ProcessErrors <- MCAllErrors
CHECK_DEADLOCK FALSE
INVARIANTS TypeOK CommittedIsHandled  ExitedWorkersLeaveNothing
