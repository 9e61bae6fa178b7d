SPECIFICATION FairSpec
CONSTANTS
    s1 = s1
    s2 = s2
    s3 = s3
    n1 = n1
    Absent = Absent
    Malformed = Malformed
    NoSession = NoSession
    Sessions = {s1, s2}
    Names = {n1}
    Requests <- Talk
    MaxLines <- ThreeAndOne
    Takers = {s2}
    Leavers = {s1, s2}
    Threads = 1
    MaxRooms = 1
    MaxChans = 3
    IdModulus = 8
INVARIANTS ConfirmedFirst
PROPERTIES BroadcastsForwarded SessionsUnwind
