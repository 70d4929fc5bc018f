SPECIFICATION LiveSpec
CONSTANTS
  c1 = c1
  c2 = c2
  None = None
  Capture = {c1}
  Audio = {c1}
  MaxAttempts = 2
  MaxQueued = 1
  MaxCrashes = 2
INVARIANTS
  OneTurnPerCapture
  RowHasEvidence
  ThreadBeforeTurn
  HeldEarlyNeverRan
PROPERTIES
  CapturesSettle
CHECK_DEADLOCK FALSE
