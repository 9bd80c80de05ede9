CONSTANTS
    t1 = t1
    t2 = t2
    Tab <- TwoTabs
    NoFile = NoFile
    RestoreErrors = TRUE
SPECIFICATION Spec
INVARIANT OwedTabsAreSaved
