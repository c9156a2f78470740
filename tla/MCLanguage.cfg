CONSTANTS
  LabelValues = 256
  Cores = 2
  Programs <- MCPrograms
SPECIFICATION Spec
INVARIANTS TypeOK AgreesWithSource Accepted NoFault InStep ConstantsKept
PROPERTY Finishes
CHECK_DEADLOCK FALSE
