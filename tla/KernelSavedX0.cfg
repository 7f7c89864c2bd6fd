SPECIFICATION KSpec
CONSTANTS
  NTasks = 2
  RR_SLICE_TICKS = 2
  MaxDepth = 1
  Syscalls = {5, 64}
INVARIANT SavedX0Intact
CHECK_DEADLOCK TRUE
