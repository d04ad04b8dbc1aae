\* A ring of four nodes, two requests at a time, one edit.
CONSTANTS
  None = None
  n1 = n1
  n2 = n2
  n3 = n3
  n4 = n4
  l1 = l1
  l2 = l2
  l3 = l3
  l4 = l4
  Node = {n1, n2, n3, n4}
  Line = {l1, l2, l3, l4}
  Ends <- Ring
  Networks <- Ringed
  Request = {r1, r2}
  TTL = 1
  MaxTime = 1
  Touched = {l4}
  MaxEdits = 1
SPECIFICATION Spec
INVARIANTS ZoneExact ZoneDry LostExact NetworkFresh DropReaches
SYMMETRY Alike
