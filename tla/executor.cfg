\* Two steps and a last one, two tools each; two questions, two answers, two stops and a prompt.
SPECIFICATION MCFairSpec
CONSTANTS
  Asks = {1, 2}
  Stops = {1, 2}
  MaxAnswers = 2
  MaxSteps = 2
  MaxRecoveries = 1
  MaxAttempts = 2
  MaxAdvances = 1
  MaxCalls = 2
  MaxPrompts = 1
INVARIANTS
  TypeOK
  AnswersAgree
  BoundedRequests
PROPERTIES
  EndsOrAsks
CHECK_DEADLOCK FALSE
