CONSTANTS
  o1 = o1
  r1 = r1
  Ops = {o1, r1}
  Inverses = {r1}
  Original <- MCOriginal
  Contents = {c1, c2}
  NoContent = NoContent
  MaxReowns = 1
  MaxReconciles = 2
  Callers = {w1, w2, w3}
  Correlations = {}
  ReownEnabled = FALSE
  ReaperEnabled = TRUE
  OperatorEnabled = FALSE
  RedispatchEnabled = FALSE
SPECIFICATION FairSpec
INVARIANTS TypeOK FailedWasNotApplied RevertIsAtomic InverseFollowsOriginal
PROPERTIES SuccessIsKept SettledIsNotReclassified OpenRowsReachTheOperator
CHECK_DEADLOCK FALSE
