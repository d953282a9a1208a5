CONSTANTS
  Reviews = {r1}
  Requests = {q1}
  Worker = Worker
  Texts = {t1}
  Markets = {TRUE, FALSE}
  MaxAttempts = 1
  MaxWait = 1
  BreakerFails = 1
  Window = 0
  Batch = 1
  MaxTroubles = 1
SPECIFICATION Spec
INVARIANTS OneReplyPerReview PublishedWasAccepted
