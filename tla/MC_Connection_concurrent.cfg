CONSTANTS
    AutoReconnect = TRUE
    MaxAttempts = 2
    MaxSockets = 3
    MaxCmds = 2
    MaxNotifs = 2
    MaxDrops = 1
    MaxPings = 0
    None = None
SPECIFICATION Spec
INVARIANT NoConcurrentRecv
CHECK_DEADLOCK FALSE
