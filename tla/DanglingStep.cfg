CONSTANTS
  a = a
  b = b
  c = c
  w = w
  d = d
  e = e
  NoStep = NoStep
  Steps <- TwoSteps
  Waits = {}
  Defers <- MCDefers
  CallAfter <- DanglingCalls
  ReturnAfter <- DanglingReturn
  Failing = {}
  Caught = {}
  MayThrow = FALSE
  PromptUser = TRUE
  Checkpointing = TRUE
  BufferedSteps = 2
  CheckpointTimers = {}
  MaxAttempts = 2
  MaxFaults = 0

SPECIFICATION Spec

INVARIANTS NoLostResults
