SPECIFICATION FairSpec
CONSTANTS
    RoomIds = {1}
    NoRoom = 0
    MaxRooms = 1
    MaxToasts = 2
PROPERTIES ToastsVanish
CHECK_DEADLOCK FALSE
