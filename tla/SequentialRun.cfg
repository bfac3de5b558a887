CONSTANTS
  a = a
  b = b
  c = c
  w = w
  d = d
  e = e
  NoStep = NoStep
  Steps <- MCSteps
  Waits <- MCWaits
  Defers <- MCDefers
  CallAfter <- SequentialCalls
  ReturnAfter <- SequentialReturn
  Failing = {a, b}
  Caught = {}
  MayThrow = FALSE
  PromptUser = FALSE
  Checkpointing = TRUE
  BufferedSteps = 2
  CheckpointTimers = {}
  MaxAttempts = 3
  MaxFaults = 2

SPECIFICATION Spec

INVARIANTS NoLostResults StaleRunsBounded DefersReachServer FullRetryBudget

PROPERTIES KeepsPromise
