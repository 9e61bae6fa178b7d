SPECIFICATION FairSpec
CONSTANTS
    RoomIds = {1, 2}
    NoRoom = 0
    MaxRooms = 2
    MaxToasts = 5
INVARIANTS TypeOK ToastsKeyed
PROPERTIES ToastsOfMountedVanish
CHECK_DEADLOCK FALSE
