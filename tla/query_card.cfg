SPECIFICATION CardSpec
CONSTANTS
  tool = tool
  flow = flow
  Tools <- MCTools
  Workflows <- MCWorkflows
  MaxText = 1
  MaxClicks = 1
  Hazards = {"fail", "lost"}
INVARIANTS ToolsOnce
PROPERTIES FinalStays CardFollows UserIsTold
CHECK_DEADLOCK FALSE
