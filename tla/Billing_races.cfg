CONSTANTS
  u1 = u1
  u2 = u2
  s1 = s1
  s2 = s2
  s3 = s3
  Payments = {p1, p2}
  Calls = {c1, c2}
  Users = {u1, u2}
  Submits = {s1, s2, s3}
  By <- MCBy
  MaxActivations = 1
SPECIFICATION BillingSpec
INVARIANTS PaidIsNotLost CapIsHonoured
PROPERTIES SettledIsKept
SYMMETRY MCSymmetry
CHECK_DEADLOCK FALSE
