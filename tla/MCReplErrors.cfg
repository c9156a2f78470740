CONSTANTS
  LabelValues = 256
  Cores = 2
  Sessions <- MCErring
SPECIFICATION Spec
INVARIANT Answers
CHECK_DEADLOCK FALSE
