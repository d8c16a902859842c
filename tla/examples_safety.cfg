SPECIFICATION Spec
CONSTANTS
  u1 = u1
  u2 = u2
  s1 = s1
  Users = {u1, u2}
  StateNames = {s1}
  TriggerAndTest = TriggerAndTest
  None = None
  MaxExamples = 2
CHECK_DEADLOCK FALSE
SYMMETRY UserSymmetry
INVARIANTS
  TypeOK
  HandlersAreTheExamplesOwn
  MissesNeedDisturbance
  ReturnsAreSuccesses
