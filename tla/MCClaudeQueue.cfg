SPECIFICATION FairSpec
CONSTANTS
  Jobs <- MCJobs
  Direct <- MCDirect
  Essential <- MCEssential
  Concurrency = 2
  Throttle = 1
  Window = 1
  MaxNow = 2
INVARIANTS ProcessesBounded OvershootBounded
PROPERTY JobsSettle
CHECK_DEADLOCK FALSE
