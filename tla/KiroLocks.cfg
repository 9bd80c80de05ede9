CONSTANTS
    c1 = c1
    c2 = c2
    Conversation <- TwoConvs
    MaxClock = 3
CHECK_DEADLOCK FALSE
SPECIFICATION LocksSpec
SYMMETRY Symmetry
INVARIANT NoStaleLockLeft
INVARIANT OneWriter
