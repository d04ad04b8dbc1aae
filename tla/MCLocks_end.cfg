\* Every transaction ends: operations on nodes, and undo.
CONSTANTS
  NULL = NULL
  p1 = p1
  p2 = p2
  p3 = p3
  Pos = {p1, p2, p3}
  MaxNode = 6
  MaxLine = 5
  MaxCard = 0
  MaxEquip = 0
  MaxOps = 0
  MaxClock = 3
  Session = {s1, s2}
  Ops = {"MERGE", "DISSOLVE_NODE", "UNDO"}
  InitialDb <- Row
SPECIFICATION FairSpec
PROPERTY TransactionsEnd
CHECK_DEADLOCK FALSE
