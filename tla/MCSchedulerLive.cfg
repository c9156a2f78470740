CONSTANTS
  CoreCount = 2
  Procs = {0, 1}
  BufferSize = 2
  MaxRetries = 0
  Wrap = 32
  MaxMessages = 2
  MaxTimers = 1
  Spurious = FALSE
SPECIFICATION FairSpec
CHECK_DEADLOCK FALSE
PROPERTIES Delivered ShutdownReturns
