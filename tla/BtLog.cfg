SPECIFICATION Spec
CONSTANTS
  c1 = c1
  c2 = c2
  c3 = c3
  Conn = {c1, c2, c3}
  NPage = 3
  NFrame = 12
  NWRAPLOG = 2
  None = None
  Cases <- MCCases
SYMMETRY Sym
CONSTRAINT NoLapse
INVARIANTS
  Isolation
  
  Recoverable
  WriteAhead
CHECK_DEADLOCK FALSE
