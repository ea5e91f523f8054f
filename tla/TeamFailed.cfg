CONSTANTS
  t1 = t1
  t2 = t2
  Task = {t1}
  Agent = {a1}
  NoAgent = NoAgent
  MaxRetries = 1
  Caller = {c1}
  HB = {h1}
  Slot = {s1}
  NoHB = NoHB
  NoDispatch = NoDispatch
  DepChoices <- NoDeps
  MaxParallel = 1
SPECIFICATION TeamSafetySpec
PROPERTY FailsOnlyFromClaim
