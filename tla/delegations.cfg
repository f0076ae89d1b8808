\* One work, every fault of its operation, a stop, a suspend and a restart.
SPECIFICATION FairSpec
CONSTANTS
  w1 = w1
  w2 = w2
  Works <- MCOneWork
  Faults = {"prepare", "operation", "absorb", "record"}
  MaxFaults = 1
  MaxEvents = 1
  NoRecord = NoRecord
  NoResult = NoResult
  NoScan = NoScan
INVARIANTS
  TypeOK
  TurnEndsSettled
  DeliveryIsTrue
PROPERTIES
  CancelledNeverEnters
  KeepsPromise
  EventuallySettled
CHECK_DEADLOCK FALSE
