CONSTANTS
    p1 = p1
    p2 = p2
    t1 = t1
    Page <- TwoPages
    Saved <- OneTab
    Unready <- OneReason
    Burst = 1
CHECK_DEADLOCK FALSE
SPECIFICATION FairSpec
INVARIANT NothingStartsEarly
INVARIANT WholeSetSeen
INVARIANT PollsAreFree
INVARIANT NoFalseAlarm
PROPERTY CreateGetsThrough
