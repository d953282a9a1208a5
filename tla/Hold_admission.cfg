CONSTANTS
  Tasks = {t1, t2}
  NoTask = NoTask
  Ops = {k1}
  MaxTime = 1
  MaxDelay = 1
SPECIFICATION FairSpec
INVARIANTS HoldCoversObservations DeferredLeavesNoClaim OneSendPerClaim
PROPERTIES ClaimHonoursHold AdmissionEnds
CHECK_DEADLOCK FALSE
