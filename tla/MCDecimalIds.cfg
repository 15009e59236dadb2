SPECIFICATION Spec
CONSTANTS
    MaxConns = 2
    FirstId = 9
    MaxSubs = 1
    LivenessMod = 256
    MaxChannel = 1
CHECK_DEADLOCK FALSE
INVARIANT ResumedUnderItsId
