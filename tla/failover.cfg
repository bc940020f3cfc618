CONSTANTS
  cli = cli  api = api
  Place <- MCPlace
  Tags <- MCTags
  Cli = {cli}
  Orchestrators = {cli}
  None = None  Gone = Gone  Unavailable = Unavailable
  Legacy = cli
  RunnerThreshold = 3  LoopThreshold = 3
  Backends = {cli, api}
  Preferred = None  Default = api
  Queries = {q1}
  Requests <- AllRequests
  Slow = {}  Steady = {cli}
SPECIFICATION FairSpec
PROPERTIES FailsOverRight HiccupTolerated HealthFollows
CHECK_DEADLOCK FALSE
