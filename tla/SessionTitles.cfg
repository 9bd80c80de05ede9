CONSTANTS
    a = a
    b = b
    c1 = c1
    c2 = c2
    s1 = s1
    None = None
    TabId <- OneTab
    Conv <- TwoConvs
    Step <- OneStep
    Launcher <- LauncherOf
    FileErrors = TRUE
SPECIFICATION Spec
INVARIANT LiveHandleKept
INVARIANT ResumesOwnSession
INVARIANT TitleMatchesPairing
