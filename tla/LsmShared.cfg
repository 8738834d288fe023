CONSTANTS
  r1 = r1
  r2 = r2
  w = w
  k = k
  NoConn = NoConn
  None = None
  Readers = {r1, r2}
  Workers = {w}
  Checkpointers = {k}
  Fleets <- AllFleets
  NREADER = 2
SPECIFICATION Spec
INVARIANTS  SameIdSameSnapshot BlocksAccounted 
PROPERTIES CheckpointSurvives
CONSTRAINT NoLapse
SYMMETRY Symmetry
