SPECIFICATION Spec
CONSTANTS
    MaxConns = 3
    FirstId = 0
    MaxSubs = 1
    LivenessMod = 2
    MaxChannel = 1
CHECK_DEADLOCK FALSE
CONSTRAINT OnePing
INVARIANTS OneLiveReceiver NoLostStart

VIEW LiveView
