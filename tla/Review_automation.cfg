CONSTANTS
  Reviews = {r1, r2}
  Requests = {}
  Worker = Worker
  Texts = {}
  Markets = {TRUE}
  MaxAttempts = 2
  MaxWait = 1
  BreakerFails = 1
  Window = 0
  Batch = 2
  MaxTroubles = 1
SPECIFICATION FairSpec
INVARIANTS PublishedIsVisible
PROPERTIES ApprovedLeavesQueue DecidedIsRecorded
