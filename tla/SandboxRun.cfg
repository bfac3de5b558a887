SPECIFICATION FairSpec
CONSTANTS
  MaxAttempts = 2
  Faults = {"lost", "unanswered", "refused", "opaque", "unsure", "invalid", "startFails", "crash"}
  MaxFaults = 3
  MaxSteps = 12
INVARIANTS AtMostOnce PlainErrorsAreTrue
PROPERTIES FunctionEnds
CHECK_DEADLOCK FALSE
