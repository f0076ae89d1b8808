\* Three prompts, no stop of the process, no failure.
SPECIFICATION Spec
CONSTANTS
  Prompts = {p1, p2, p3}
  Replies = {1, 2, 3, 4}
  Members = {1}
  MaxRounds = 2
  MaxFailures = 0
  MaxCrashes = 0
PROPERTIES
  RoundKnowsAll
CHECK_DEADLOCK FALSE
