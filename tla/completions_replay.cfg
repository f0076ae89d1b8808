\* A record read by a scan before its recipients acknowledged, launched after their operation ended.
SPECIFICATION MCFairSpec
CONSTANTS
  handler = handler
  callback = callback
  asking = asking
  success = success
  failure = failure
  Turns <- MCTurns
  Handlers <- MCHandlers
  Callbacks <- MCCallbacks
  Wanted <- MCWanted
  Order <- MCOrder
  Results = {success}
  NoRecord = NoRecord
  NoOperation = NoOperation
  NoScan = NoScan
  NoResult = NoResult
  SlowScans = TRUE
  Faults = {}
  MaxFaults = 0
  MaxCrashes = 0
  MaxHosted = 0
PROPERTY NotReplayed
CHECK_DEADLOCK FALSE
