SPECIFICATION FairSpec
CONSTANTS
    Messages = {m1, m2}
    MaxWrites = 2
    Threads = 2
    ChecksOpen = TRUE
PROPERTIES MessagesPassedOn
CHECK_DEADLOCK FALSE
