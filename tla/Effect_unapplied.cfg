CONSTANTS
  Links = {l1, l2}
  Confirms = {c1, c2}
  Closes = {k1, k2}
SPECIFICATION EffectSpec
INVARIANTS ObservedWasApplied
SYMMETRY MCSymmetry
CHECK_DEADLOCK FALSE
