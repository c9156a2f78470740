CONSTANTS
  CoreCount = 3
  Procs = {0, 1}
  BufferSize = 2
  MaxRetries = 0
  Wrap = 32
  MaxMessages = 2
  MaxTimers = 1
  Spurious = TRUE
SPECIFICATION Spec
CHECK_DEADLOCK FALSE
INVARIANT EnoughAwake
