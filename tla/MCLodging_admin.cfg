CONSTANTS
    Null = Null
    Rooms = {r1}
    BookingIds = {b1, b2, b3}
    TaskIds = {t1}
    Requests = {q1}
    Housekeepers <- OneHousekeeper
    Times <- Hours2
    Departures <- AtNoon
    ExtraHours <- OneHour
    MaxBilled = 3
    RoomBuffers <- SomeRoomBuffer
    BranchBuffers <- BranchSome
    Ops <- SystemOps
    Exclusive <- NoRequestsOverlap
    MayFail = FALSE
SPECIFICATION Spec
SYMMETRY Symmetry
INVARIANTS
    NoDoubleBooking
    OccupiedMeansGuest
    ArchivedRoomsAreEmpty
    TrailIsTrue
CHECK_DEADLOCK FALSE
