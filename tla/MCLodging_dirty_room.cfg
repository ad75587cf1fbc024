CONSTANTS
    Null = Null
    Rooms = {r1}
    BookingIds = {b1, b2}
    TaskIds = {t1, t2}
    Requests = {q1}
    Housekeepers <- OneHousekeeper
    Times <- Hours2
    Departures <- AtNoon
    ExtraHours <- OneHour
    MaxBilled = 3
    RoomBuffers <- NoRoomBuffer
    BranchBuffers <- BranchZero
    Ops <- CheckoutOps
    Exclusive <- NoRequestsOverlap
    MayFail = FALSE
SPECIFICATION Spec
INVARIANTS
    AvailableMeansClean
CHECK_DEADLOCK FALSE
