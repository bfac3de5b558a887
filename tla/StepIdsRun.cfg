CONSTANTS
  x = x
  y = y
  p = p
  s1 = s1
  s2 = s2
  w = w
  c = c
  d = d
  idX = idX
  idP = idP
  idS = idS
  idW = idW
  NoCall = NoCall
  Program <- MCProgram
  CallAfter <- MCCallAfter
  Id <- MCId
  Renamed <- MCRenamed
  Prepended <- MCPrepended
  Waits = {w}
  Modes = {TRUE, FALSE}
  MaxFaults = 1

SPECIFICATION FairSpec

\* A run that has ended stops.
CHECK_DEADLOCK FALSE

INVARIANTS OwnResult OneIdPerCall PrependedFirst

PROPERTIES RunCompletes
