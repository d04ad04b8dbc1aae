\* Undo and redo of two users, three operations and six undos and redos deep.
CONSTANTS
  NULL = NULL
  p1 = p1
  p2 = p2
  p3 = p3
  Pos = {p1, p2, p3}
  MaxNode = 2
  MaxLine = 1
  MaxCard = 4
  MaxEquip = 1
  MaxOps = 3
  MaxClock = 9
  Actor = {u1, u2}
  Ops = {"CHANGE_NODE_TYPE", "UNDO", "REDO"}
  InitialDb <- TwoNodes
  HistoryLimit = 2
SPECIFICATION HistorySpec
INVARIANTS RowHistory OneTypePerNode
PROPERTIES UndoIsAStack RollbackExact
SYMMETRY Users
CHECK_DEADLOCK FALSE
