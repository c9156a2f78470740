SPECIFICATION Spec
CONSTANTS
  a = a
  b = b
  Procs = {a, b}
  Unlocked = {a}
  Spawned = {}
  RegisterIn = {"starting", "body", "when_body", "whenever_body"}
  MaxGuards = 2
  BufferSize = 2
  MaxRequests = 2
  MaxBlocks = 2
INVARIANTS
  TypeOK
  ReadyHasValue
PROPERTIES
  ScanComplete
  RefinesFutures
CHECK_DEADLOCK FALSE
