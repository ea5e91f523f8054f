CONSTANTS
  Task = {t1}
  Agent = {a1}
  NoAgent = NoAgent
  NoTurn = NoTurn
  MaxRetries = 1
  ChannelCap = 2
  Targets = 1
  MaxRuns = 1
  MaxExtras = 1
SPECIFICATION RoutingSafety
CHECK_DEADLOCK FALSE
PROPERTIES
  SubmittedIsNoticed
