------------------------------- MODULE Lodging --------------------------------
(***************************************************************************)
(* One branch: its reservation desk, housekeeping desk and room            *)
(* administration working on the same tables.                              *)
(***************************************************************************)
EXTENDS Bookings, Housekeeping, RoomDesk

Start(q) == BookingStart(q) \/ HousekeepingStart(q) \/ RoomDeskStart(q)

\* The next awaited call of a request that is being served.
Step(q) == BookingStep(q) \/ HousekeepingStep(q) \/ RoomDeskStep(q)

Next ==
    \/ \E q \in Requests : Start(q) \/ Step(q) \/ Fail(q)
    \/ \E t \in TaskIds, h \in Housekeepers : Assign(t, h)
    \/ \E r \in Rooms, hours \in RoomBuffers : SetRoomBuffer(r, hours)
    \/ \E hours \in BranchBuffers : SetBranchBuffer(hours)

Spec == Init /\ [][Next]_vars

(***************************************************************************)
(* The event loop of Node resolves every awaited call in the end, so a     *)
(* request that has been accepted goes on.  Nothing obliges a client to    *)
(* send one.                                                               *)
(***************************************************************************)
Fairness == \A q \in Requests : WF_vars(Step(q))

FairSpec == Spec /\ Fairness

-----------------------------------------------------------------------------
TypeOK ==
    /\ booking \in [BookingIds -> BookingRow \cup {NoRow}]
    /\ billedHours \in [BookingIds -> Nat]
    /\ room \in [Rooms -> RoomRow]
    /\ branchBuffer \in BranchBuffers
    /\ task \in [TaskIds -> TaskRow \cup {NoRow}]
    /\ roomTrail \in [Rooms -> RoomStatus]
    /\ bookingTrail \in [BookingIds -> BookingStatus \cup {"NONE"}]
    /\ req \in [Requests -> {Idle} \cup BookingRequest \cup HousekeepingRequest
                                   \cup RoomDeskRequest]

(***************************************************************************)
(* Inductive strengthening of TypeOK: a request only works on rows that    *)
(* exist.                                                                  *)
(***************************************************************************)
RowsExist ==
    \A q \in Requests :
        /\ Served(q) /\ req[q].op = "status" => booking[req[q].booking] # NoRow
        /\ At(q, "clean", "write") => task[req[q].task] # NoRow

\* No request is being served for room r.
Quiet(r) == \A q \in Requests : Served(q) => req[q].room # r

-----------------------------------------------------------------------------
(***************************************************************************)
(* Calendar.                                                               *)
(***************************************************************************)

(***************************************************************************)
(* Two active stays of one room have no instant in common: what the        *)
(* conflict check of create and of the extensions is for.                  *)
(***************************************************************************)
NoDoubleBooking ==
    \A r \in Rooms : \A b, c \in ActiveIn(r) :
        b # c => Apart(booking[b].checkIn, EffectiveCheckOut(booking[b]),
                       booking[c].checkIn, EffectiveCheckOut(booking[c]))

(***************************************************************************)
(* While no buffer is reconfigured, the hours that the room or the branch  *)
(* sets aside for cleaning lie between any two active stays of a room,     *)
(* after extensions as well.                                               *)
(***************************************************************************)
TurnaroundKept ==
    \A r \in Rooms : \A b, c \in ActiveIn(r) :
        LET buffer == BufferHours(room[r].buffer, branchBuffer)
        IN  b # c => Apart(booking[b].checkIn, OccupiedUntil(booking[b], buffer),
                           booking[c].checkIn, OccupiedUntil(booking[c], buffer))

(***************************************************************************)
(* The guest is billed for the hours the stay was prolonged by: while the  *)
(* guest is in the room the check-out has moved by exactly the sum of the  *)
(* recorded extensions.                                                    *)
(***************************************************************************)
ExtensionsAddUp ==
    \A b \in BookingIds :
        booking[b].status = "CHECKED_IN" =>
            EffectiveCheckOut(booking[b]) = booking[b].checkOut + billedHours[b]

(***************************************************************************)
(* allowedTransitions leaves no way out of CHECKED_OUT, CANCELLED and      *)
(* NO_SHOW: a booking that has ended stays as it ended, its hours and its  *)
(* bill with it.                                                           *)
(***************************************************************************)
EndedStaysEnded ==
    [][\A b \in BookingIds :
          booking[b].status \in Terminal =>
              booking'[b] = booking[b] /\ billedHours'[b] = billedHours[b]]_vars

(***************************************************************************)
(* A room is archived only without active bookings, and gets none later.   *)
(***************************************************************************)
ArchivedRoomsAreEmpty == \A r \in Rooms : room[r].deleted => ActiveIn(r) = {}

(***************************************************************************)
(* Inductive strengthening of NoDoubleBooking and ExtensionsAddUp: what    *)
(* the requests that write the calendar have read is still true when they  *)
(* write, provided they do not overlap in one room.                        *)
(***************************************************************************)
InTurn ==
    \A p, q \in Requests :
        p # q /\ Served(p) /\ Served(q)
              /\ req[p].op \in CalendarOps /\ req[q].op \in CalendarOps
            => req[p].room # req[q].room

\* Stay b has a length, its check-out is accounted for, and it is not PENDING: create
\* enters every booking as CONFIRMED.
RowSound(b) ==
    /\ booking[b].status # "PENDING"
    /\ booking[b] = NoRow => billedHours[b] = 0
    /\ booking[b].status \in ActiveBooking =>
          booking[b].checkIn < EffectiveCheckOut(booking[b])
    /\ booking[b].status = "CONFIRMED" =>
          /\ booking[b].checkIn < booking[b].checkOut
          /\ booking[b].actualCheckOut = Null
          /\ billedHours[b] = 0

\* No active stay of r but except's meets [from, until).
VacantIn(r, except, from, until) ==
    \A c \in ActiveIn(r) \ {except} :
        Apart(from, until, booking[c].checkIn, EffectiveCheckOut(booking[c]))

\* What request q has read and will write by is still true.
CreateFresh(q) ==
    /\ At(q, "create", "check") \/ At(q, "create", "insert") =>
          req[q].checkIn < req[q].checkOut /\ req[q].buffer >= 0
    /\ At(q, "create", "insert") =>
          VacantIn(req[q].room, Null, req[q].checkIn, req[q].checkOut)

StatusFresh(q) ==
    At(q, "status", "write") =>
        LET row == booking[req[q].booking]
        IN  /\ row # NoRow
            /\ row.room = req[q].room
            /\ req[q].to \in AllowedTransitions[row.status]

ExtendFresh(q) ==
    Served(q) /\ req[q].op = "extend" =>
        LET row == booking[req[q].booking]
        IN  /\ row # NoRow
            /\ row.room = req[q].room
            /\ row.status = "CHECKED_IN"
            /\ EffectiveCheckOut(row) = req[q].effectiveCheckOut
            /\ req[q].newCheckOut = req[q].effectiveCheckOut + req[q].hours
            /\ req[q].buffer >= 0
            /\ req[q].pc = "write" =>
                  VacantIn(req[q].room, req[q].booking, row.checkIn, req[q].newCheckOut)

CalendarInv ==
    /\ InTurn
    /\ \A b \in BookingIds : RowSound(b)
    /\ \A q \in Requests : CreateFresh(q) /\ StatusFresh(q) /\ ExtendFresh(q)
    /\ NoDoubleBooking
    /\ ExtensionsAddUp

\* The calendar promised by RoomCalendar, as the tables show it.
Stays ==
    [b \in BookingIds |->
        IF booking[b].status \in ActiveBooking
        THEN [room  |-> booking[b].room, from |-> booking[b].checkIn,
              until |-> EffectiveCheckOut(booking[b])]
        ELSE NoRow]

Calendar == INSTANCE RoomCalendar WITH
    StayIds <- BookingIds,
    NoStay  <- NoRow,
    stays   <- Stays,
    past    <- {b \in BookingIds : booking[b].status \in Terminal}

(***************************************************************************)
(* Every write of the services to bookings is a step of RoomCalendar: a    *)
(* reservation or an extension of a vacant interval, or a departure.       *)
(***************************************************************************)
CalendarRefined == Calendar!Spec

-----------------------------------------------------------------------------
(***************************************************************************)
(* Turnover of a room.                                                     *)
(***************************************************************************)

(***************************************************************************)
(* When nobody sets a room status by hand, a room with no request in       *)
(* flight is OCCUPIED exactly while a guest is checked in to it.           *)
(***************************************************************************)
OccupiedMeansGuest ==
    \A r \in Rooms :
        Quiet(r) => (room[r].status = "OCCUPIED" <=> r \in CheckedInRooms)

(***************************************************************************)
(* OCCUPIED is set by the system alone: even among manual changes, an      *)
(* OCCUPIED room with no request in flight has a guest.                    *)
(***************************************************************************)
OccupiedIsEarned ==
    \A r \in Rooms :
        Quiet(r) /\ room[r].status = "OCCUPIED" => r \in CheckedInRooms

OpenCleaningIn(r) ==
    {t \in TaskIds : /\ task[t] # NoRow
                     /\ task[t].room = r
                     /\ task[t].type = "CHECKOUT_CLEAN"
                     /\ task[t].status \in OpenTask}

(***************************************************************************)
(* Every check-out that is answered leaves an open cleaning task for the   *)
(* departed guest.                                                         *)
(***************************************************************************)
DepartureOrdersCleaning ==
    [][\A q \in Requests :
          /\ Served(q)
          /\ req[q].op = "status"
          /\ req[q].to = "CHECKED_OUT"
          /\ req'[q] = Idle
          => \E t \in TaskIds :
                /\ task'[t] # NoRow
                /\ task'[t].booking = req[q].booking
                /\ task'[t].type = "CHECKOUT_CLEAN"
                /\ task'[t].status \in OpenTask]_vars

(***************************************************************************)
(* A room offered as AVAILABLE is clean: no check-out cleaning is open.    *)
(***************************************************************************)
AvailableMeansClean ==
    \A r \in Rooms :
        Quiet(r) /\ room[r].status = "AVAILABLE" => OpenCleaningIn(r) = {}

(***************************************************************************)
(* A room set aside by the system waits for something: some task of the    *)
(* room is open, and finishing it is the way back to AVAILABLE that needs  *)
(* no manual change.                                                       *)
(***************************************************************************)
SetAsideMeansOpenTask ==
    \A r \in Rooms :
        Quiet(r) /\ room[r].status = "MAINTENANCE" =>
            \E t \in TaskIds : /\ task[t] # NoRow
                               /\ task[t].room = r
                               /\ task[t].status \in OpenTask

CleaningOf(b) ==
    {t \in TaskIds : /\ task[t] # NoRow
                     /\ task[t].booking = b
                     /\ task[t].type = "CHECKOUT_CLEAN"}

(***************************************************************************)
(* ensureCheckoutCleaningTask: once the requests of the room are answered  *)
(* there is exactly one cleaning task for each departed guest and none for *)
(* anybody else.                                                           *)
(***************************************************************************)
OneCleaningPerDeparture ==
    \A b \in BookingIds :
        booking[b] # NoRow /\ Quiet(booking[b].room) =>
            Cardinality(CleaningOf(b)) =
                IF booking[b].status = "CHECKED_OUT" THEN 1 ELSE 0

\* Every task that was ever given to housekeeper h, finished ones included.
Given(h) == {t \in TaskIds : task[t] # NoRow /\ task[t].assignee = h}

(***************************************************************************)
(* findBestHousekeeper spreads the check-out cleanings.  Departures served *)
(* at once may all pick the same housekeeper, who is the least loaded until *)
(* the first task is inserted; a slower update may even open a finished    *)
(* task again behind the back of the pick.  Each of these needs a request  *)
(* in flight: while nobody assigns tasks by hand, nobody has more open     *)
(* tasks than any colleague was ever given, plus one for each request      *)
(* there can be.                                                           *)
(***************************************************************************)
LoadsBalanced ==
    \A g, h \in Housekeepers :
        OpenLoad(g) <= Cardinality(Given(h)) + Cardinality(Requests)

(***************************************************************************)
(* Inductive strengthening of it: a task that is picked and not yet        *)
(* inserted counts too, and so does a finished one that some request is    *)
(* about to open again.                                                    *)
(***************************************************************************)
Picked(h) == {q \in Requests : At(q, "status", "order") /\ req[q].assignee = h}

Due(h) ==
    {t \in Given(h) : \/ task[t].status \in OpenTask
                      \/ \E q \in Requests : At(q, "clean", "write") /\ req[q].task = t}

LoadsSpread ==
    \A g, h \in Housekeepers :
        Cardinality(Due(g)) + Cardinality(Picked(g))
            <= Cardinality(Given(h)) + Cardinality(Requests)

DispatchInv ==
    /\ \A q \in Requests : Served(q) => req[q].op \in Ops
    /\ LoadsSpread

(***************************************************************************)
(* The audit log tells the truth: with no request in flight its last entry *)
(* for a room that is not archived, and for a booking, is the status the   *)
(* table has.                                                              *)
(***************************************************************************)
TrailIsTrue ==
    /\ \A r \in Rooms :
          Quiet(r) /\ ~room[r].deleted => roomTrail[r] = room[r].status
    /\ \A b \in BookingIds :
          booking[b] # NoRow /\ Quiet(booking[b].room) =>
              bookingTrail[b] = booking[b].status

(***************************************************************************)
(* A guest's departure always reaches the housekeepers, whatever else is   *)
(* going on in the branch.                                                 *)
(***************************************************************************)
DepartureReachesHousekeeping ==
    \A b \in BookingIds :
        booking[b].status = "CHECKED_OUT" ~> CleaningOf(b) # {}
==============================================================================
