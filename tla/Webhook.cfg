SPECIFICATION FairSpec
CONSTANTS
  s1 = s1
  h1 = h1
  h2 = h2
  Servers <- MCServers
  Webhooks <- MCWebhooks
  NumRows = 3
  NumEvents = 1
  MaxAttempt = 3
  RetryLimits <- MCLimits
  Limit = 3
  MaxOps = 1
  MaxFaults = 1
INVARIANTS CallsBounded SentCountedOnce
PROPERTIES SuccessIsFinal 
CHECK_DEADLOCK FALSE
