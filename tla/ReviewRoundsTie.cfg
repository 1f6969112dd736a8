SPECIFICATION Spec
CONSTANTS
  Recorders = {w1}
  Images = {i1}
  a = a
  b = b
  Readings <- TwoReadings
  MaxReviews = 4
  MaxReconciles = 2
INVARIANT DisagreeAllowsTiebreak
CHECK_DEADLOCK FALSE
