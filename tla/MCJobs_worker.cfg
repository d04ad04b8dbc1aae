\* A list of two fragments and a file on one worker that is delivered twice.
CONSTANTS
  None = None
  c1 = c1
  x1 = x1
  f1 = f1
  f2 = f2
  CalcTask = {c1}
  FileTask = {x1}
  File = {f1, f2}
  Elsewhere = {f2}
  List <- Lists
  MaxDelivered <- Deliveries
  MaxCalc = 2
  MaxLost = 1
SPECIFICATION Spec
INVARIANTS LinkedToItsRun SuccessIsWhole NoOrphans NoOlderFile SuccessHasFile
PROPERTY TasksBecomeReady
CHECK_DEADLOCK FALSE
