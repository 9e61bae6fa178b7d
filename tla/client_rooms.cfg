SPECIFICATION Spec
CONSTANTS
    a = a
    b = b
    c = c
    Names = {a, b, c}
    TypedNames <- OwnNames
    TypedIds = {1, 7}
    OtherNames = {c}
    IdModulus = 8
    CmdCap = 2
    EventCap = 2
    MaxConns = 1
    MaxClicks = 4
    MaxOthers = 2
    MaxPosts = 2
    Breaks = FALSE
INVARIANTS TypeOK ShownInOrder Reconciled NothingOrphaned
CHECK_DEADLOCK FALSE
