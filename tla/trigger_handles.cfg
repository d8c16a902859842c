SPECIFICATION Spec
CONSTANTS
  a = a
  b = b
  c = c
  contractCase = contractCase
  triggerAndTest0 = triggerAndTest0
  Groups <- SomeGroups
  Reserved <- ReservedHandle
  Example = Example
  None = None
  Missing = Missing
  MaxGroups = 2
CHECK_DEADLOCK FALSE
INVARIANTS
  TypeOK
  FoundAsGrouped
  NoFunctionIsLost
  AnnouncedHandlesAreFound
