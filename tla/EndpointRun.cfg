SPECIFICATION FairSpec
CONSTANTS
  N = 2
  HighWaterMark = 1
  MaxPushes = 2
  MaxAttempts = 2
  Faults = {"refused", "lost", "redirect", "leave"}
  MaxFaults = 2
INVARIANTS EndLeadsOn ServerRunsAlone SuccessIsFinal
PROPERTIES SuccessIsRecorded ClientAnswered
CHECK_DEADLOCK FALSE
