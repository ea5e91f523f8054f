CONSTANTS
  spec = spec
  other = other
  None = None
  Turn = {u1, u2}
  Session <- TwoSessions
  Specialist <- SpecOnly
  RelaySession <- RelayToOther
  Task = {t1}
  Fingerprint = {f1, f2}
  Workers = 1
  MaxResets = 1
SPECIFICATION TurnsSpec
CHECK_DEADLOCK FALSE
INVARIANTS
  SessionTypeOK
  ResumeMatches
  RunningMeansTurn
  NoneWaitInACircle
PROPERTIES
  ForgottenUnlessUnderWay
  TurnsEnd
