SPECIFICATION Spec
CONSTANTS
    MaxConns = 1
    FirstId = 14
    MaxSubs = 2
    LivenessMod = 256
    MaxChannel = 2
CHECK_DEADLOCK FALSE
INVARIANT EveryDataIsOurs
