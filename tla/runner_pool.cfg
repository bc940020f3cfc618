SPECIFICATION Spec
CONSTANTS
  r1 = r1
  r2 = r2
  r3 = r3
  Runners <- TwoRunners
  MaxProcs = 1
  Soft = 0
  Hard = 1
  CanRetry <- None
  Cancellable <- OneRunner
CHECK_DEADLOCK FALSE
PROPERTY ImplementsPool
