SPECIFICATION Spec
CONSTANTS
  u1 = u1 u2 = u2 u3 = u3 c1 = c1 c2 = c2 m1 = m1 m2 = m2 r1 = r1 r2 = r2 w1 = w1
  Users = {u1, u2, u3}
  Campaign <- MCCampaign
  Address <- MCAddress
  First <- MCFirst
  Statuses = {"pending", "verified"}
  Criteria = {{}, {"verified"}}
  Requests = {r1, r2}
  Workers = {w1}
  MaxSegments = 2
  MaxBlasts = 1
  MaxActs = 2
SYMMETRY MCSymmetry
CHECK_DEADLOCK FALSE
INVARIANTS CachedCountCurrent OneRecipientPerAddress MembersAreReached
