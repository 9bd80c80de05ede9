CONSTANTS
    minRefusalHold = 3
    Delays <- WithinAndBeyond
    MaxTime = 10
CHECK_DEADLOCK FALSE
SPECIFICATION LimitSpec
INVARIANT OneWarningPerRefusal
