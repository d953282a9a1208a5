CONSTANTS
  f1 = f1
  f2 = f2
  d1 = d1
  d2 = d2
  Imports = {i1, i2}
  Handlers = {h1, h2}
  Stores = {st1, st2}
  Files = {f1, f2}
  Keys = {d1, d2}
  KeysOf <- MCKeysOf
  Kinds = {"dated", "snapshot", "card"}
  LostAck = FALSE
SPECIFICATION Spec
INVARIANTS FileCountedOnce FailedHasNoRows
SYMMETRY MCSymmetry
CHECK_DEADLOCK FALSE
