CONSTANTS
    Null = Null
    Rooms = {r1}
    BookingIds = {b1}
    TaskIds = {t1, t2}
    Requests = {q1, q2}
    Housekeepers <- OneHousekeeper
    Times <- Hours1
    Departures <- AtNoon
    ExtraHours <- OneHour
    MaxBilled = 3
    RoomBuffers <- NoRoomBuffer
    BranchBuffers <- BranchZero
    Ops <- ManualDeskOps
    Exclusive <- AllOverlap
    MayFail = FALSE
SPECIFICATION FairSpec
PROPERTIES
    DepartureReachesHousekeeping
CHECK_DEADLOCK FALSE
