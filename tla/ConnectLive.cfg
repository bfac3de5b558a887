SPECIFICATION FairSpec

CONSTANTS
    r1 = r1
    g1 = g1
    None = None
    Requests = {r1}
    Groups = {g1}
    Faults = {"start", "error", "handshake", "timeout", "break", "close", "closing", "lease", "flush"}
    MaxFaults = 2
    ValidKey = "fallback"
    MaxDeliveries = 1
    MaxLease = 2
    MaxAttempts = 3

PROPERTIES
    ShutdownCompletes
    FlushDelivers
    Reconnects

\* A worker that is closed has nothing more to do.
CHECK_DEADLOCK FALSE
