SPECIFICATION FairSpec
CONSTANTS
  t1 = t1
  t2 = t2
  t3 = t3
  t4 = t4
  m1 = m1
  m2 = m2
  m3 = m3
  None = None
  Prober = Prober
  Threads <- ThreeThreads
  Messages <- TwoMessages
  Hazards <- EveryHazard
  MaxInputs = 1
CHECK_DEADLOCK FALSE
INVARIANTS TakenOnce BackgroundUnreachable
PROPERTY QueueDrains
