CONSTANTS
    Null = Null
    Rooms = {r1, r2, r3}
    BookingIds = {b1, b2, b3}
    TaskIds = {t1, t2, t3}
    Requests = {q1, q2}
    Housekeepers <- TwoHousekeepers
    Times <- Hours1
    Departures <- AtNoon
    ExtraHours <- OneHour
    MaxBilled = 3
    RoomBuffers <- NoRoomBuffer
    BranchBuffers <- BranchZero
    Ops <- DepartureOps
    Exclusive <- StatusInTurn
    MayFail = TRUE
SPECIFICATION FullHouseSpec
SYMMETRY Symmetry
INVARIANTS
    LoadsBalanced
CHECK_DEADLOCK FALSE
