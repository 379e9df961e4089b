SPECIFICATION Spec
CONSTANTS
  Pages = 17
  SYNC_TRIES = 3
  wbufRetryLimit = 1
  Sums <- SameSums
  Lines <- LateOrGarbled
CHECK_DEADLOCK FALSE
INVARIANTS
  InStep
  CompletedIsFlashed
PROPERTIES
  ProgramsErased
  HostEnds
