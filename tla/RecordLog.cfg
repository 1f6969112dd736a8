SPECIFICATION FairSpec
CONSTANTS
  Writers = {w1, w2}
  NoWriter = NoWriter
  Clean = {b}
  Split = {s}
  Invalid = {x}
  NoBody = NoBody
  MaxHashes = 2
  MaxClock = 1
  MaxFaults = 2
  MaxAsides = 1
INVARIANTS TypeOK ChainIntact OnlyLostTailIsSilent
PROPERTIES AppendOnly BrokenIsFrozen LegacyKept LockIsReleased
CHECK_DEADLOCK FALSE
