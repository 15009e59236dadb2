SPECIFICATION Spec
CONSTANTS
    MaxConns = 2
    FirstId = 0
    MaxSubs = 2
    LivenessMod = 256
    MaxChannel = 1
CHECK_DEADLOCK FALSE
INVARIANTS TypeOK DieOnlyWhenMissed CompletedNeverResent NoSilentRemoval

VIEW LiveView
