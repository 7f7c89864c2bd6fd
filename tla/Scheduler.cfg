SPECIFICATION Spec
CONSTANTS
  NTasks = 4
  RR_SLICE_TICKS = 3
  MaxDepth = 1
INVARIANTS
  TypeOK
  QueueSpellsRotation
  OneRuns
  FramesOwned
PROPERTIES
  EveryTaskRuns
  ImplementsRoundRobin
CHECK_DEADLOCK TRUE
