SPECIFICATION Spec
CONSTANTS
  Callers = {c1}
  MaxParallel = 1
  MaxRequests = 2
  NSlots = 6
  QueueNum = 6
PROPERTY DoneIsNoticed
CHECK_DEADLOCK FALSE
