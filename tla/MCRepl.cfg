CONSTANTS
  LabelValues = 256
  Cores = 2
  Sessions <- MCSessions
SPECIFICATION Spec
INVARIANTS TypeOK Answers NoFault
PROPERTIES VariablesKept PromptReturns
CHECK_DEADLOCK FALSE
