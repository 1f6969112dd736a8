SPECIFICATION Spec
CONSTANTS
  Recorders = {w1}
  Images = {i1}
  a = a
  b = b
  Readings <- ThreeReadings
  MaxReviews = 5
  MaxReconciles = 3
INVARIANTS RoundsHappenOnce MajorityIsTheTiebreaks
PROPERTIES VerdictsAreFinal
CHECK_DEADLOCK FALSE
