SPECIFICATION Spec
CONSTANTS
  n1 = n1
  n2 = n2
  Tests <- OneTest
  Run = Run
  Kinds = {"configuration"}
  MaxRuns = 1
CHECK_DEADLOCK FALSE
INVARIANT ConfigurationErrorsFailTheRun
