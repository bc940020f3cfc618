SPECIFICATION FairSpec
CONSTANTS
  r1 = r1
  r2 = r2
  r3 = r3
  Runners <- OneRunner
  MaxProcs = 1
  Soft = 1
  Hard = 2
  CanRetry <- OneRunner
  Cancellable <- OneRunner
CHECK_DEADLOCK FALSE
PROPERTIES VerdictIsRight RunEnds
