CONSTANTS
    s1 = s1
    s2 = s2
    s3 = s3
    Slots <- MCSlots
    NoSocket = NoSocket
    MaxLogouts = 2
    MaxIntervals = 2
    MaxFades = 2
    DisconnectMayThrow = TRUE
SPECIFICATION Spec
SYMMETRY MCSymmetry
INVARIANT ReconnectArmed
