SPECIFICATION Spec
CONSTANTS
  Rewards = {w1}
  Users = {u1, u2}
  Requests = {r1, r2, r3}
  Limits = {1}
  UserLimits = {0, 2}
  NoLimit = NoLimit
  MaxOps = 8
  MaxFaults = 1
SYMMETRY MCSymmetry
CHECK_DEADLOCK FALSE
INVARIANTS OverGrantBounded ClaimedTrue StoppedIsFinal
