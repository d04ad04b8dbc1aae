\* Two logins, three requests at once; a window of two minutes.
CONSTANTS
  None = None
  address = address
  l1 = l1
  l2 = l2
  r1 = r1
  r2 = r2
  r3 = r3
  Login = {l1, l2}
  Address = address
  Req = {r1, r2, r3}
  Limit <- Limits
  Window = 4
  Minute = 2
  MaxKeys = 2
  MaxTime = 8
SPECIFICATION Spec
INVARIANTS CountsTrue OvershootBounded AdviceSuffices
SYMMETRY Alike
CHECK_DEADLOCK FALSE
