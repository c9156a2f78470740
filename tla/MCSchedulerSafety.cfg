CONSTANTS
  CoreCount = 2
  Procs = {0, 1}
  BufferSize = 2
  MaxRetries = 0
  Wrap = 32
  MaxMessages = 3
  MaxTimers = 2
  Spurious = TRUE
SPECIFICATION Spec
CHECK_DEADLOCK FALSE
INVARIANTS TypeOK CountExact Exclusive OncePlaced Fifo Drained NoLostWakeup
PROPERTY RefinesActors
