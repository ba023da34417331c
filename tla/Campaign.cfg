SPECIFICATION Spec
CONSTANTS
  Requests = {r1, r2}
  Slugs = {s1, s2, s3}
  Plans <- MCPlans
  Payloads <- MCPayloads
  Statuses = {"active"}
  MaxOps = 3
  MaxFaults = 1
  MaxPlanChanges = 1
SYMMETRY MCSymmetry
CHECK_DEADLOCK FALSE
INVARIANTS LimitOverrunBounded GatedSettingsWerePaid 
