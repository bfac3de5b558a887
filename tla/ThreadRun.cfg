SPECIFICATION FairSpec
CONSTANTS
  Requests = {r1}
  MaxDeliveries = 2
  MaxCrashes = 1
  MaxCloses = 2
  Faults = {"crash", "drop", "fatal", "leaseLost"}
  MaxFaults = 3
INVARIANTS NoThreadAfterClose ClosedAfterAnswers
PROPERTIES CloseReturns StaysAvailable
CHECK_DEADLOCK FALSE
