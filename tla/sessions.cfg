SPECIFICATION Spec
CONSTANTS
  q1 = q1
  q2 = q2
  Queries <- MCQueries
  MaxTurns = 2
  MaxCommands = 1
  Hazards = {"disk", "slow", "model"}
SYMMETRY Symmetry
INVARIANTS DocKnown
PROPERTIES MemoryForward KeptBeforeCleared
CHECK_DEADLOCK FALSE
