\* Three requests, two rows of two columns.
CONSTANTS
  NRows = 2
  Field = {"diameter", "site"}
  Value = {0, 1}
  First = 0
  Tx = {t1, t2, t3}
  Change <- MCChange
  Keep = Keep
  None = None
SPECIFICATION Spec
INVARIANT TypeOK
INVARIANT SavesSeen
INVARIANT JournalImages
INVARIANT AuditTrue
INVARIANT CirclesNeedPlans
CONSTRAINT OneChange
SYMMETRY Alike
CHECK_DEADLOCK FALSE
