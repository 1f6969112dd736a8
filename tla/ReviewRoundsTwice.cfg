SPECIFICATION Spec
CONSTANTS
  Recorders = {w1, w2}
  Images = {i1}
  a = a
  b = b
  Readings <- TwoReadings
  MaxReviews = 3
  MaxReconciles = 2
INVARIANT RoundsHappenOnce
CHECK_DEADLOCK FALSE
