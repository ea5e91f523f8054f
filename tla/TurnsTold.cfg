CONSTANTS
  spec = spec
  other = other
  None = None
  Turn = {u1, u2}
  Session <- TwoSessions
  Specialist <- SpecOnly
  RelaySession <- RelayToOther
  Task = {t1, t2}
  Fingerprint = {f1}
  Workers = 2
  MaxResets = 0
SPECIFICATION TurnsSafety
INVARIANTS
  TurnIsTold
