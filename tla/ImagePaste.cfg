CONSTANTS
    p1 = p1
    p2 = p2
    n1 = n1
    n2 = n2
    s1 = s1
    s2 = s2
    Paste <- TwoPastes
    Pane <- TwoPanes
    Session <- TwoSessions
    Keys <- SecondPaste
    Images <- ImagesOf
    MaxFiles = 2
    MaxSecond = 1
CHECK_DEADLOCK FALSE
SPECIFICATION FairSpec
INVARIANT TypedWhereItWasAimed
INVARIANT PathsHoldTheirImages
PROPERTY PasteEnds
