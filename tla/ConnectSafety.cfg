SPECIFICATION Spec

CONSTANTS
    r1 = r1
    g1 = g1
    None = None
    Requests = {r1}
    Groups = {g1}
    Faults = {"start", "error", "handshake", "timeout", "break", "close", "closing", "heartbeat", "lease", "flush", "throw"}
    MaxFaults = 2
    ValidKey = "primary"
    MaxDeliveries = 2
    MaxLease = 3
    MaxAttempts = 2

INVARIANTS NoLostWake NoGhostLease ShutdownWaits SocketsOwned ResponsesHeld
PROPERTIES UsesBuffer

\* A worker that is closed has nothing more to do.
CHECK_DEADLOCK FALSE
