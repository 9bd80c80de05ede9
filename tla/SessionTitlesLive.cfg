CONSTANTS
    a = a
    b = b
    c1 = c1
    c2 = c2
    s1 = s1
    None = None
    TabId <- TwoTabs
    Conv <- OneConv
    Step <- NoSteps
    Launcher <- LauncherOf
    FileErrors = FALSE
SPECIFICATION FairSpec
INVARIANT AliasMemoHonest
PROPERTY DepartedReclaimed
PROPERTY AliasTakenOver
