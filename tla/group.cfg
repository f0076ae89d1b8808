\* Two prompts; two members and a write that fails, or one member and a restart.
SPECIFICATION MCFairSpec
CONSTANTS
  p1 = p1
  p2 = p2
  Prompts = {p1, p2}
  Replies = {1, 2, 3, 4, 5, 6}
  Members = {1, 2}
  MaxRounds = 2
  MaxFailures = 1
  MaxCrashes = 1
INVARIANTS
  TypeOK
  NothingLost
  NothingAfterStop
PROPERTIES
  EventuallyHandled
  EventuallyAtRest
CHECK_DEADLOCK FALSE
