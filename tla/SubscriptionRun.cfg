SPECIFICATION FairSpec
CONSTANTS
  c = c
  r = r
  Readers = {c, r}
  Initial = {c}
  Callback = {c}
  MaxSent = 3
INVARIANTS InOrder
PROPERTIES ClosedIsQuiet ReadersEnd
CHECK_DEADLOCK FALSE
