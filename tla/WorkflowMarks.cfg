CONSTANTS
    t1 = t1
    t2 = t2
    r1 = r1
    r2 = r2
    conversation = conversation
    step = step
    None = None
    Tab <- OneTab
    Run <- OneRun
    Session <- Sessions
    Launching <- Launch
    Recorded <- FullCycle
    MaxClock = 2
    MaxFailures = 1
CHECK_DEADLOCK FALSE
SPECIFICATION FairSpec
INVARIANT CacheSound
INVARIANT AbandonedStaysDark
INVARIANT LastWholeVerdict
PROPERTY MarkAppears
PROPERTY DeadGoesDark
