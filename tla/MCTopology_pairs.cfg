\* Pairs of a supply and a return pipe.
CONSTANTS
  NULL = NULL
  p1 = p1
  p2 = p2
  p3 = p3
  Pos = {p1, p2, p3}
  MaxNode = 4
  MaxLine = 6
  MaxCard = 1
  MaxEquip = 1
  MaxOps = 3
  MaxClock = 4
  Actor = {u1}
  Ops = {"MOVE", "DELETE_LINE", "SPLIT", "REVERSE", "DISSOLVE_NODE", "UNDO", "REDO"}
  InitialDb <- TwoPipes
SPECIFICATION Spec
INVARIANTS EndsActive LinesFollowNodes
CHECK_DEADLOCK FALSE
