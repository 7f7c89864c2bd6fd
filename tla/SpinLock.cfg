SPECIFICATION Spec
CONSTANTS
  CPUs = {c1, c2, c3}
  Rounds = 2
INVARIANTS
  TypeOK
  MutualExclusion
  CounterExact
PROPERTIES
  ImplementsMutex
  TestEnds
CHECK_DEADLOCK FALSE
