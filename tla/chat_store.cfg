SPECIFICATION Spec
CONSTANTS
  c1 = c1
  t1 = t1
  Crons <- MCCrons
  Tasks <- MCTasks
  Phases <- MCPhases
  Late = 1
  MaxEdits = 1
  MaxStops = 1
  Hazards = {"disk", "thread", "pid"}
  MaxStuck = 1
INVARIANTS JobsAsWanted SlotHonoured
PROPERTIES TasksKept ChangesAreSaved EndIsReported
CHECK_DEADLOCK FALSE
