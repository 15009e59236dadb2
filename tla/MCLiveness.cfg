SPECIFICATION FairSpec
CONSTANTS
    MaxConns = 2
    FirstId = 0
    MaxSubs = 1
    LivenessMod = 256
    MaxChannel = 1
CHECK_DEADLOCK FALSE
PROPERTIES AbandonedSenderLetsGo ResumedAfterReconnect BlockedOnlyByLiveSender

ACTION_CONSTRAINT QuietServer
