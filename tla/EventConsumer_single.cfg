SPECIFICATION FairSpec
CONSTANTS
  Workers = {w1}
  QueueSize = 1
  MaxOffset = 3
  MaxRestarts = 1
  Malformed <- MCNoMalformed
  ProcessErrors <- MCAllErrors
CHECK_DEADLOCK FALSE
 
PROPERTIES  StopTerminates EveryEventDecided
