SPECIFICATION Spec
CONSTANTS
  None = None
  Float <- Exact
  Torn = Torn
  Procs = {p1, p2}
  Drafts <- Four
  Text <- TextOf
  Requests <- Asked
  DependsOn <- Order
  Target <- For
  Payloads <- Given
  Logos <- OneLogo
  SimReports <- Solved
  Envelopes <- Exported
  Budgets <- Bounds
INVARIANTS PassingBundleIsOneContract EnvelopePassMeansProjected
INVARIANTS SimPassIsCurrent DoneIsEarned AnsweredWasSeen
CHECK_DEADLOCK FALSE
SYMMETRY Symmetric
