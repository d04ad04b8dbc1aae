\* Two processes, two administrators.
CONSTANTS
  Account = {a1, a2}
  Process = {w1, w2}
  Request = {r1, r2}
  Ops = {"visit", "block", "delete"}
  Admins = {a1, a2}
  TTL = 2
  Master = FALSE
  MaxTime = 2
  MaxEdits = 1
  MaxRequests = 2
SPECIFICATION Spec
SYMMETRY Alike
CHECK_DEADLOCK FALSE
INVARIANT AdminAlwaysRemains
