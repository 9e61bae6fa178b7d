SPECIFICATION Spec
CONSTANTS
    s1 = s1
    s2 = s2
    s3 = s3
    n1 = n1
    Absent = Absent
    Malformed = Malformed
    NoSession = NoSession
    Sessions = {s1, s2}
    Names = {n1}
    Requests <- Goodbye
    MaxLines <- ThreeAndOne
    Takers = {s1, s2}
    Leavers = {}
    Threads = 1
    MaxRooms = 1
    MaxChans = 2
    IdModulus = 8
INVARIANTS NoSendAfterReturn
CHECK_DEADLOCK FALSE
