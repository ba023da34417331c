SPECIFICATION LeadsSpec
CONSTANTS
  a1 = a1 a2 = a2 a3 = a3 i1 = i1 r1 = r1 r2 = r2 w1 = w1 w2 = w2
  Emails <- MCEmails
  Disposable <- MCDisposable
  Similar <- MCSimilar
  Ips <- MCIps
  Features = {"email_verification"}
  Written = {"verified"}
  LeadsLimit = 2
  Low = 1
  High = 2
  Requests = {r1, r2}
  Analysts = {w1, w2}
  MaxLeads = 3
  MaxActs = 3
SYMMETRY MCSymmetry
CHECK_DEADLOCK FALSE
INVARIANTS BlockedForFraud BurstsAreCaught ImportsWithinLimit 
