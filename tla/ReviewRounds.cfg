SPECIFICATION Spec
CONSTANTS
  Recorders = {w1, w2}
  Images = {i1, i2}
  a = a
  b = b
  Readings <- TwoReadings
  MaxReviews = 4
  MaxReconciles = 2
SYMMETRY Alike
INVARIANTS TypeOK TiebreakNeedsSplit SecondRoundNeedsSplit DemandsCanBeMet
CHECK_DEADLOCK FALSE
