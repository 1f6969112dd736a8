SPECIFICATION FairSpec
CONSTANTS
  Artifacts = {a1, a2}
  Bytes = {x, y}
  Absent = Absent
  MaxDenials = 1
  MaxImpressions = 2
  MaxPrompts = 2
  MaxTorn = 1
INVARIANTS TypeOK RefusalsBounded
PROPERTIES VerdictIsTrue PassCoversScanned EveryTurnEnds
CHECK_DEADLOCK FALSE
