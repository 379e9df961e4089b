SPECIFICATION Spec
CONSTANTS
  Pages = 1
  SYNC_TRIES = 3
  wbufRetryLimit = 1
  Sums <- OtherSums
  Lines <- LateAndGarbled
CHECK_DEADLOCK FALSE
INVARIANTS
  CompletedIsFlashed
