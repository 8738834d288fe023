CONSTANTS
  Keys <- MCKeys
  Vals = {v, w}
  NoVal = NoVal
  NoSnap = NoSnap
  MaxLevel = 3
  Cursors = {c}
  Nodes <- MCNodes
  Datas <- MCDatas2
  MaxChng = 2
  Modes = {TRUE, FALSE}
SPECIFICATION Spec
CHECK_DEADLOCK FALSE
SYMMETRY ValSymmetry
INVARIANTS Bookkeeping
PROPERTIES RollbackIsSafe ImplementsContract StepsWorkAfterDelete
