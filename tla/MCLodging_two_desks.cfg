CONSTANTS
    Null = Null
    Rooms = {r1}
    BookingIds = {b1, b2}
    TaskIds = {t1}
    Requests = {q1, q2}
    Housekeepers <- OneHousekeeper
    Times <- Hours2
    Departures <- AtNoon
    ExtraHours <- OneHour
    MaxBilled = 3
    RoomBuffers <- NoRoomBuffer
    BranchBuffers <- BranchZero
    Ops <- CreateOnly
    Exclusive <- AllOverlap
    MayFail = FALSE
SPECIFICATION Spec
INVARIANTS
    NoDoubleBooking
CHECK_DEADLOCK FALSE
