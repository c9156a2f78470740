SPECIFICATION Spec
CONSTANTS
  a = a
  b = b
  Procs = {a, b}
  Unlocked = {}
  Spawned = {a}
  RegisterIn = {"body"}
  MaxGuards = 2
  BufferSize = 2
  MaxRequests = 2
  MaxBlocks = 1
PROPERTY RunsWhenReady
CHECK_DEADLOCK FALSE
