CONSTANTS
  Requests = {r1, r2}
  MaxVersion = 3
  MaxStep = 2
  MaxSecret = 2
SPECIFICATION Spec
INVARIANTS PasswordSessionNeedsCode RetiredPasswordIsOut CodeSpentOnce
SYMMETRY MCSymmetry
CHECK_DEADLOCK FALSE
