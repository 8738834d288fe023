CONSTANTS
  MaxLevel = 5
  MaxPg = 9
  Cases <- MCCases
  nPgPerBlk = 2
  nMax = 1
  nPageLimit = 2
  NoSnap = NoSnap
SPECIFICATION Spec
CHECK_DEADLOCK FALSE
INVARIANTS PagesAccounted
 
