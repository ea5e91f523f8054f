CONSTANTS
  Id = {i1, i2}
  Waiter = {w1, w2}
  Resolver = {r1, r2}
  None = None
SPECIFICATION Spec
CHECK_DEADLOCK FALSE
INVARIANTS
  ApprovalTypeOK
  OneSender
  AllowedByUser
  WaiterIsReachable
PROPERTY RequestIsAnswered
