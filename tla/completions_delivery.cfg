\* One Turn with a handler and a callback: what the retry is meant for, or any fault, a suspend and a restart.
SPECIFICATION MCFairSpec
CONSTANTS
  handler = handler
  callback = callback
  asking = asking
  success = success
  failure = failure
  Turns <- MCTurns
  Handlers <- MCHandlers
  Callbacks <- MCCallbacks
  Wanted <- MCWanted
  Order <- MCOrder
  Results = {success, failure}
  NoRecord = NoRecord
  NoOperation = NoOperation
  NoScan = NoScan
  NoResult = NoResult
  SlowScans = TRUE
  Faults = {"late_prepare", "notify", "commit", "save", "read", "handler", "timeout"}
  MaxFaults = 2
  MaxCrashes = 1
  MaxHosted = 1
INVARIANTS TypeOK NoConcurrentCall DeliveredIsDone
PROPERTIES KeepsPromise DeliveredWhenCalm
CHECK_DEADLOCK FALSE
