CONSTANTS
  a = a
  b = b
  c = c
  w = w
  d = d
  e = e
  NoStep = NoStep
  Steps <- MCSteps
  Waits <- MCWaits
  Defers <- TwoDefers
  CallAfter <- RaceCalls
  ReturnAfter <- RaceReturn
  Failing = {b}
  Caught = {}
  MayThrow = TRUE
  PromptUser = TRUE
  Checkpointing = FALSE
  BufferedSteps = 0
  CheckpointTimers = {}
  MaxAttempts = 2
  MaxFaults = 1

SPECIFICATION Spec

INVARIANTS ExactlyOnce
