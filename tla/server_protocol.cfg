SPECIFICATION Spec
CONSTANTS
    s1 = s1
    s2 = s2
    s3 = s3
    n1 = n1
    Absent = Absent
    Malformed = Malformed
    NoSession = NoSession
    Sessions = {s1, s2}
    Names = {n1}
    Requests <- AnyLine
    MaxLines <- TwoLines
    Takers = {}
    Leavers = {s1, s2}
    Threads = 2
    MaxRooms = 2
    MaxChans = 4
    IdModulus = 8
INVARIANTS OnlySubscribersBroadcast SubscribedOnce NothingLeftOpen
