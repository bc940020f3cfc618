SPECIFICATION Spec
CONSTANTS
  t1 = t1
  t2 = t2
  t3 = t3
  t4 = t4
  m1 = m1
  m2 = m2
  m3 = m3
  None = None
  Prober = Prober
  Threads <- FourThreads
  Messages <- ThreeMessages
  Hazards <- NoSoftNoCard
  MaxInputs = 2
CHECK_DEADLOCK FALSE
SYMMETRY Symmetry3
INVARIANTS ForegroundExclusive QueuedIsVisible
PROPERTY ImplementsService
