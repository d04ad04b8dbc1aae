\* One user: any two operations, undone and redone.
CONSTANTS
  NULL = NULL
  p1 = p1
  p2 = p2
  p3 = p3
  Pos = {p1, p2, p3}
  MaxNode = 4
  MaxLine = 4
  MaxCard = 5
  MaxEquip = 1
  MaxOps = 2
  MaxClock = 6
  Actor = {u1}
  Ops = {"MOVE", "DELETE_NODE", "CREATE_NODE", "CREATE_LINE", "DELETE_LINE", "SPLIT", "MERGE", "REVERSE", "GEOMETRY", "DISSOLVE_NODE", "CHANGE_NODE_TYPE", "SET_NODE_FLAG", "UNDO", "REDO"}
  InitialDb <- Chain
SPECIFICATION Spec
INVARIANTS TypeOK EndsActive LinesFollowNodes LengthsFollowLines RegulatorsAtEnds OneFlagPerNode
PROPERTY JournalCovers
CHECK_DEADLOCK FALSE
