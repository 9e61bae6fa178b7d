SPECIFICATION Spec
CONSTANTS
    s1 = s1
    s2 = s2
    s3 = s3
    n1 = n1
    Absent = Absent
    Malformed = Malformed
    NoSession = NoSession
    Sessions = {s1, s2, s3}
    Names = {n1}
    Requests <- OneRoom
    MaxLines <- OneAndTwo
    Takers = {}
    Leavers = {}
    Threads = 2
    MaxRooms = 1
    MaxChans = 3
    IdModulus = 8
INVARIANTS TypeOK DeliveredInOrder DeliveredToAll WireOrder
PROPERTIES ImplementsMulticast
CHECK_DEADLOCK FALSE
SYMMETRY Twins
