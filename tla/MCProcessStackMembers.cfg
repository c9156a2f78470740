SPECIFICATION Spec
CONSTANTS
  Values <- TwoValues
  This = This
  Temps = 0
  Params = 0
  MemberBlocks = TRUE
  MaxDepth = 2
  MaxBlocks = 1
INVARIANTS
  MembersKept
