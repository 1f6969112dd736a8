SPECIFICATION FairSpec
CONSTANTS
  Artifacts = {a1}
  Bytes = {x, y}
  Absent = Absent
  MaxDenials = 1
  MaxImpressions = 2
  MaxPrompts = 2
  MaxTorn = 1
PROPERTY PassMeansNothingOwed
CHECK_DEADLOCK FALSE
