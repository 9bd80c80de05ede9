CONSTANTS
    t1 = t1
    t2 = t2
    Tab <- TwoTabs
    NoFile = NoFile
    RestoreErrors = FALSE
SPECIFICATION FairSpec
INVARIANT OwedTabsAreSaved
PROPERTY StuckFileIsKept
PROPERTY LedgerSpec
PROPERTY RestoreGateSpec
PROPERTY RestoreEnds
PROPERTY StableSetIsSaved
