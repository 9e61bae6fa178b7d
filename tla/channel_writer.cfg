SPECIFICATION FairSpec
CONSTANTS
    Messages = {m1, m2}
    MaxWrites = 4
    Threads = 1
    ChecksOpen = FALSE
INVARIANTS TypeOK Fifo NoLostWakeup
PROPERTIES MessagesPassedOn ImplementsFairPipe
CHECK_DEADLOCK FALSE
