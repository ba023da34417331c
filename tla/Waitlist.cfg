SPECIFICATION FairSpec
CONSTANTS
  NumUsers = 3
  Requests = {r1, r2}
  Calculators = {c1, c2}
  SignupLimits <- MCSignupLimits
  MaxOps = 3
  MaxFaults = 1
CHECK_DEADLOCK FALSE
INVARIANTS PositionsDistinct  ReferralsCounted OverrunBounded
PROPERTIES EverybodyRankedAgain
