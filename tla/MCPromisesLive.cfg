SPECIFICATION Spec
CONSTANTS
  a = a
  b = b
  Procs = {a, b}
  Unlocked = {a}
  Spawned = {}
  RegisterIn = {"body"}
  MaxGuards = 2
  BufferSize = 2
  MaxRequests = 2
  MaxBlocks = 1
INVARIANT NotStranded
PROPERTIES
  BlocksRun
  Answered
CHECK_DEADLOCK FALSE
