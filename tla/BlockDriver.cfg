SPECIFICATION Spec
CONSTANTS
  Callers = {c1, c2}
  MaxParallel = 1
  MaxRequests = 8
  NSlots = 6
  QueueNum = 6
INVARIANTS
  TypeOK
  SlotsAccounted
  PublishedIsRead
PROPERTIES
  EveryCallReturns
  ImplementsBlockService
CHECK_DEADLOCK FALSE
