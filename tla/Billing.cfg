SPECIFICATION BillingSpec
CONSTANTS
  Emails = {m1}
  Prices = {free, pro}
  Free = free
  Planned = {free}
  Requests = {r1, r2}
  Workers = {w1, w2}
  MaxEvents = 5
  MaxActs = 3
SYMMETRY MCSymmetry
CHECK_DEADLOCK FALSE
INVARIANTS RowsFollowStripe  DuplicateAccountsBounded
