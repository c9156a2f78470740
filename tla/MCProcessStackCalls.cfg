SPECIFICATION Spec
CONSTANTS
  Values <- TwoValues
  This = This
  Temps = 0
  Params = 0
  MemberBlocks = FALSE
  MaxDepth = 3
  MaxBlocks = 1
INVARIANTS
  TypeOK
  VariablesKept
  MembersKept
  Balanced
  Fits
PROPERTIES
  ThisKept
