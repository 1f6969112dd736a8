SPECIFICATION Spec
CONSTANTS
  None = None
  Float <- EightBits
  Torn = Torn
  Drafts <- AllDrafts
  Refs <- Files
  Sources <- Holdings
  Holds <- First
  Intakes <- Sidecars
  Evidence <- Sidecar
  MaxImports = 3
  MaxExports = 1
INVARIANTS GroupsAreReachability PassingGroupsCarryOneNet TablesAgree
INVARIANTS KeepoutIsGeometric FailuresPersist CopiesAreTraceable
PROPERTIES ImportsKeepGround
CHECK_DEADLOCK FALSE
