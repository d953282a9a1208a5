CONSTANTS
  Identities = {e1, e2}
  Ips = {a1, a2}
  Requests = {q1, q2, q3, q4}
  Limit <- MCLimit
  Window = 1
  Block = 2
  MaxWait = 1
  MaxTime = 5
SPECIFICATION Spec
INVARIANTS FailuresAreCounted LockNeedsSpread
 
SYMMETRY MCSymmetry
CHECK_DEADLOCK FALSE
