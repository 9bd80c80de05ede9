CONSTANTS
    e1 = e1
    e2 = e2
    t1 = t1
    t2 = t2
    Engine <- TwoEngines
    None = None
    Partial = Partial
    Validated <- OnlyFirst
    Tab <- TwoTabs
    MaxKills = 1
    MaxFaults = 1
SPECIFICATION LiveSpec
INVARIANT YesIsTrue
INVARIANT NoIsTrue
PROPERTY TunedInTheEnd
