CONSTANTS
    c1 = c1
    c2 = c2
    s1 = s1
    m1 = m1
    Conv <- TwoConvs
    Step <- OneStep
    Malformed <- OneBadId
    Launcher <- LauncherOf
    None = None
    Address = Address
    MaxTabs = 3
SPECIFICATION Spec
INVARIANT OneTabPerConversation
INVARIANT BookmarkKept
INVARIANT ConversationsKept
INVARIANT NoStaleAddress
