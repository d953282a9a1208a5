CONSTANTS
  Alternatives = 2
  Requests = {r1, r2}
  Passes = {k1, k2}
  None = None
SPECIFICATION FairSpec
INVARIANTS LedgersMatchOutcome
PROPERTIES LabelIsFinal PassEnds
CHECK_DEADLOCK FALSE
