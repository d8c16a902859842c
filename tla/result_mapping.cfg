SPECIFICATION Spec
INVARIANTS
  TypeOK
  FailuresAreBlamedAsDocumented
  ReturnsAreRecorded
CHECK_DEADLOCK FALSE
