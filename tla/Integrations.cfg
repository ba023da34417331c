SPECIFICATION Spec
CONSTANTS
  Accounts = {"a1"}
  Keys = {"k1"}
  Owner <- MCOwner
  ZapierKeys = {"k1"}
  Requests = {r1, r2}
  Filters <- MCFilters
  Events <- MCEvents
  MaxSubs = 2
  MaxOps = 4
  MaxFailures = 1
  MaxChanges = 1
SYMMETRY MCSymmetry
CHECK_DEADLOCK FALSE
INVARIANTS CountersTrue DisconnectLeavesNothing LateSubscriptionsBounded
