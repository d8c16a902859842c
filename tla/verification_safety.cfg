SPECIFICATION Spec
CONSTANTS
  n1 = n1
  n2 = n2
  Tests <- TwoRuns
  Run = Run
  Kinds = {"assertion"}
  MaxRuns = 2
CHECK_DEADLOCK FALSE
INVARIANTS
  TypeOK
  SomeFailureStays
  NoFalseAlarms
  TestsMeetTheirConfig
PROPERTY NoRecordedFailureIsDropped
