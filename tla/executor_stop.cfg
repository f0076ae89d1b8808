\* One step with two tools, one question, one stop, no answers.
SPECIFICATION FairSpec
CONSTANTS
  Asks = {1}
  Stops = {1}
  MaxAnswers = 0
  MaxSteps = 1
  MaxRecoveries = 1
  MaxAttempts = 1
  MaxAdvances = 0
  MaxCalls = 2
  MaxPrompts = 0
PROPERTIES
  StopEndsTurn
CHECK_DEADLOCK FALSE
