\* The operations that lock nodes.
CONSTANTS
  NULL = NULL
  p1 = p1
  p2 = p2
  p3 = p3
  Pos = {p1, p2, p3}
  MaxNode = 5
  MaxLine = 6
  MaxCard = 0
  MaxEquip = 0
  MaxOps = 0
  MaxClock = 2
  Session = {s1, s2}
  Ops = {"CREATE_LINE", "MOVE", "DELETE_NODE", "DELETE_LINE", "GEOMETRY", "MERGE"}
  InitialDb <- Loop
SPECIFICATION Spec
PROPERTY Serial
SYMMETRY Tabs
CHECK_DEADLOCK FALSE
