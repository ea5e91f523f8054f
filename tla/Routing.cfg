CONSTANTS
  Task = {t1}
  Agent = {a1}
  NoAgent = NoAgent
  NoTurn = NoTurn
  MaxRetries = 1
  ChannelCap = 1
  Targets = 1
  MaxRuns = 2
  MaxExtras = 1
SPECIFICATION RoutingSpec
CHECK_DEADLOCK FALSE
INVARIANTS
  RoutingTypeOK
PROPERTIES
  NoticeIsCarried
  ReviewStaysOnDisk
  BoardSpec
  OldestReachesLead
