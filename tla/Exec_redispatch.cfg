CONSTANTS
  o1 = o1
  r1 = r1
  Ops = {o1}
  Inverses = {}
  Original <- MCNoOriginal
  Contents = {c1, c2}
  NoContent = NoContent
  MaxReowns = 1
  MaxReconciles = 2
  Callers = {w1, w2, w3}
  Correlations = {q1, q2}
  ReownEnabled = TRUE
  ReaperEnabled = TRUE
  OperatorEnabled = TRUE
  RedispatchEnabled = TRUE
SPECIFICATION Spec
INVARIANTS AtMostOneDispatch DispatchIsAccounted SuccessIsThisRequest AuthorizedOnce OnlyOwnerDispatches
PROPERTIES ImplementsAtMostOnce
CHECK_DEADLOCK FALSE
