CONSTANTS
  a = a
  b = b
  c = c
  w = w
  d = d
  e = e
  NoStep = NoStep
  Steps <- MCSteps
  Waits <- MCWaits
  Defers <- MCDefers
  CallAfter <- ConcurrentCalls
  ReturnAfter <- ConcurrentReturn
  Failing = {b, w}
  Caught = {b, w}
  MayThrow = FALSE
  PromptUser = TRUE
  Checkpointing = TRUE
  BufferedSteps = 2
  CheckpointTimers = {"runtime", "interval"}
  MaxAttempts = 2
  MaxFaults = 1

SPECIFICATION FairSpec

INVARIANTS DeterministicReplay

PROPERTIES RunEnds
