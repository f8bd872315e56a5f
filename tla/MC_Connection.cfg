CONSTANTS
    AutoReconnect = TRUE
    MaxAttempts = 2
    MaxSockets = 3
    MaxCmds = 2
    MaxNotifs = 2
    MaxDrops = 1
    MaxPings = 1
    None = None
SPECIFICATION Spec
INVARIANT TypeOK
INVARIANT ResultMatchesCommand
INVARIANT NoNotificationBelowLastSeqLost
CHECK_DEADLOCK FALSE
