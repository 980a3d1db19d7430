CONSTANTS
    s1 = s1
    s2 = s2
    s3 = s3
    Slots <- MCSlots
    NoSocket = NoSocket
    MaxLogouts = 2
    MaxIntervals = 2
    MaxFades = 2
    DisconnectMayThrow = FALSE
SPECIFICATION FairSpec
INVARIANT TypeOK
INVARIANT ReconnectArmed
INVARIANT TimerSingleton
PROPERTY EventuallySubscribed
PROPERTY ImplementsStatus
