CONSTANTS
  Cases <- AllCases
  NCell = 10
  MIN_LOGWRAP = 2
  SectorSize = 2
  ReadSize = 6
  None = None
SPECIFICATION Spec
INVARIANTS  CommittedRecovered
CONSTRAINT NoLapse
