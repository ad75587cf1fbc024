------------------------------ MODULE MCLodging -------------------------------
(***************************************************************************)
(* Instances of Lodging for TLC.  Each .cfg picks the endpoints its clients *)
(* call, how requests for one room may overlap, and the size of the tables. *)
(***************************************************************************)
EXTENDS Lodging, TLC

\* Which of them overlap: all, all but those of the calendar, none, all but the changes
\* of status of the bookings of one room.
AllOverlap        == {}
CalendarInTurn    == CalendarOps
NoRequestsOverlap == Operations
StatusInTurn      == {"status"}

\* Which endpoints are called.
CreateOnly   == {"create"}
DeskCrowd    == CalendarOps \cup {"archive"}
DepartureOps == {"status", "clean"}
CheckoutOps  == {"create", "status"}
TurnoverOps  == {"create", "status", "clean"}
TaskOps      == {"task", "clean"}
SystemOps    == Operations \ {"manual"}
ManualDeskOps == CheckoutOps \cup {"manual"}

Hours1 == 0..1
Hours2 == 0..2
Hours3 == 0..3
AtNoon == {1}
OneHour  == {1}

NoRoomBuffer   == {Null}
SomeRoomBuffer == {Null, 1}
BranchZero     == {0}
BranchSome     == {0, 1}

OneHousekeeper  == {1}
TwoHousekeepers == {1, 2}

(***************************************************************************)
(* A branch in which every booking is of a guest who has arrived, each in   *)
(* a room of their own: the state after so many creates and check-ins.      *)
(***************************************************************************)
FullHouseInit ==
    /\ booking \in [BookingIds -> [status: {"CHECKED_IN"}, room: Rooms, checkIn: {0},
                                   checkOut: {1}, actualCheckOut: {Null}]]
    /\ \A b, c \in BookingIds : booking[b].room = booking[c].room => b = c
    /\ billedHours = [b \in BookingIds |-> 0]
    /\ room = [r \in Rooms |->
                  [status |-> IF r \in CheckedInRooms THEN "OCCUPIED" ELSE "AVAILABLE",
                   deleted |-> FALSE, buffer |-> Null]]
    /\ branchBuffer \in BranchBuffers
    /\ task = [t \in TaskIds |-> NoRow]
    /\ roomTrail = [r \in Rooms |-> room[r].status]
    /\ bookingTrail = [b \in BookingIds |-> "CHECKED_IN"]
    /\ req = [q \in Requests |-> Idle]

FullHouseSpec == FullHouseInit /\ [][Next]_vars

\* Slots, rows and rooms are interchangeable: ids are only compared for equality.
Symmetry ==
    Permutations(Requests) \cup Permutations(BookingIds) \cup Permutations(TaskIds)
        \cup Permutations(Rooms)
==============================================================================
