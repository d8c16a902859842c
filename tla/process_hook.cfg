SPECIFICATION Spec
CONSTANTS
  u1 = u1
  u2 = u2
  Users = {u1}
  Hook = Hook
  None = None
  MaxChildren = 2
  MaxLines = 1
CHECK_DEADLOCK FALSE
INVARIANT NoServerOutlivesTheJvm
