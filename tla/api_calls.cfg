SPECIFICATION ApiSpec
CONSTANTS
  q1 = q1
  q2 = q2
  b1 = b1
  Queries <- MCQueries
  Asides <- MCAsides
  MaxProcs = 1
  MaxTries = 2
  Room <- MCRoom
  MaxResets = 1
  ApiHazards = {"busy", "error", "stall", "silent", "disk", "unread"}
INVARIANTS HistoryIsConversation
PROPERTIES CallsUsePool CallsEnd
CHECK_DEADLOCK FALSE
