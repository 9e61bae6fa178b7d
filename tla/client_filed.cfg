SPECIFICATION Spec
CONSTANTS
    a = a
    b = b
    c = c
    Names = {a, b, c}
    TypedNames <- OwnNames
    TypedIds = {}
    OtherNames = {c}
    IdModulus = 8
    CmdCap = 2
    EventCap = 2
    MaxConns = 1
    MaxClicks = 2
    MaxOthers = 1
    MaxPosts = 1
    Breaks = FALSE
INVARIANTS MessagesFiled
CHECK_DEADLOCK FALSE
