SPECIFICATION FairSpec
CONSTANTS
    a = a
    b = b
    c = c
    Names = {a, b, c}
    TypedNames <- OwnNames
    TypedIds = {1}
    OtherNames = {c}
    IdModulus = 8
    CmdCap = 2
    EventCap = 2
    MaxConns = 2
    MaxClicks = 2
    MaxOthers = 1
    MaxPosts = 1
    Breaks = TRUE
INVARIANTS StatusHonest
PROPERTIES NotRevived OldConnectionsEnd
CHECK_DEADLOCK FALSE
