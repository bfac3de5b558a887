SPECIFICATION FairSpec
CONSTANTS
  Reconnect = TRUE
  HistoryLimit = 1
  Channels = {1, 2}
  MaxRuns = 2
  MaxSubs = 4
  MaxMessages = 2
  Faults = {"token", "refused", "ended"}
  MaxFaults = 1
INVARIANTS OnlyThisChannel Owned
PROPERTIES UnmountCloses StaysOpen
CHECK_DEADLOCK FALSE
