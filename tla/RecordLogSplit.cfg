SPECIFICATION Spec
CONSTANTS
  Writers = {w1}
  NoWriter = NoWriter
  Clean = {b}
  Split = {s}
  Invalid = {x}
  NoBody = NoBody
  MaxHashes = 1
  MaxClock = 0
  MaxFaults = 0
  MaxAsides = 0
INVARIANT AcceptedRecordsVerify
CHECK_DEADLOCK FALSE
