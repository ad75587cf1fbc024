CONSTANTS
    Null = Null
    Rooms = {r1}
    BookingIds = {b1, b2}
    TaskIds = {t1, t2}
    Requests = {q1, q2}
    Housekeepers <- OneHousekeeper
    Times <- Hours3
    Departures <- AtNoon
    ExtraHours <- OneHour
    MaxBilled = 3
    RoomBuffers <- SomeRoomBuffer
    BranchBuffers <- BranchZero
    Ops <- DeskCrowd
    Exclusive <- CalendarInTurn
    MayFail = TRUE
SPECIFICATION Spec
SYMMETRY Symmetry
INVARIANTS
    TypeOK
    TurnaroundKept
    ExtensionsAddUp
    CalendarInv
PROPERTIES
    EndedStaysEnded
    CalendarRefined
CHECK_DEADLOCK FALSE
