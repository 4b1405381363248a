SPECIFICATION Spec
CONSTANTS
  Requests = {r1, r2, r3}
  Threads = 2
  Connections = 1
INVARIANTS
  TypeOK
  IdleHoldsNothing
  HeldOnlyToAnswer
PROPERTIES
  EveryRequestEnds
