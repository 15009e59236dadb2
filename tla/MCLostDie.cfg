SPECIFICATION FairSpec
CONSTANTS
    MaxConns = 1
    FirstId = 0
    MaxSubs = 1
    LivenessMod = 256
    MaxChannel = 1
CHECK_DEADLOCK FALSE
PROPERTY DieReachesReceiver
