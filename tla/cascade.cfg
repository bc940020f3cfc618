SPECIFICATION Spec
CONSTANTS
  c1 = c1
  project = project
  global = global
  Chats <- MCChats
  Layers <- MCLayers
  Contents = {"x"}
  MaxCascades = 2
  Places = 2
  MaxTries = 2
  MaxCommands = 1
  Hazards = {"disk", "model", "thread"}
SYMMETRY Symmetry
INVARIANTS StampIsTrue AllTidy NoneStuck
PROPERTIES StaleStaysUnwritten WritersApart
CHECK_DEADLOCK FALSE
