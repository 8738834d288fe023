SPECIFICATION Spec
CONSTANTS
  Half = 8
  MX_EXP = 3
  Far = 2
  RoundFar = 3
  MaxOps = 2
  MaxRows = 2
  Operands <- NumOperands
  Indexes <- IndexCases
  ValueSets <- MCValueSets
INVARIANTS
  KeysSortLikeRows
  FieldsFound
  GroupsAreClasses
  
  
  
CHECK_DEADLOCK FALSE
