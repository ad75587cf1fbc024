CONSTANTS
    Null = Null
    Rooms = {r1}
    BookingIds = {b1, b2, b3}
    TaskIds = {t1, t2, t3}
    Requests = {q1, q2}
    Housekeepers <- OneHousekeeper
    Times <- Hours1
    Departures <- AtNoon
    ExtraHours <- OneHour
    MaxBilled = 3
    RoomBuffers <- NoRoomBuffer
    BranchBuffers <- BranchZero
    Ops <- TurnoverOps
    Exclusive <- StatusInTurn
    MayFail = FALSE
SPECIFICATION Spec
SYMMETRY Symmetry
INVARIANTS
    OccupiedIsEarned
    SetAsideMeansOpenTask
    OneCleaningPerDeparture
PROPERTIES
    DepartureOrdersCleaning
CHECK_DEADLOCK FALSE
