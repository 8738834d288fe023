SPECIFICATION Spec
CONSTANTS
  c0 = c0
  c1 = c1
  c2 = c2
  Content = {c0, c1, c2}
  InitContent = c0
  Viol <- MCViol
  NDb = 1
  Kind <- AllLsm
  Vdbes = {v1, v2, v3}
  Names = {a}
  NoName = NoName
  NoSnap = NoSnap
  MaxSavepoint = 2
  MaxLevel = 5
  CommitFails = TRUE
  NestedTxn = FALSE
SYMMETRY VdbeSymmetry
INVARIANTS
  SavepointsRestorable
  CounterMatchesContent
  CommittedContentSatisfiesFk
  StatementHasTransaction
  LevelsAccounted
  NothingLeftOpen
PROPERTIES
  RollbackToRestores
  AbortUndoesStatement
  InvisibleUntilReleased
