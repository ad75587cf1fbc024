------------------------------- MODULE Bookings -------------------------------
(***************************************************************************)
(* bookings.service.ts (create, updateStatus with the cleaning task it     *)
(* orders) and booking-extensions.service.ts (create).                     *)
(***************************************************************************)
EXTENDS LodgingDb

\* The endpoints that write the reservation calendar.
CalendarOps == {"create", "status", "extend"}

\* A faulty query that forgets the guests who have arrived.
ConfirmedCandidates(r, askedOut, buffer) ==
    {b \in ActiveIn(r) : /\ booking[b].status = "CONFIRMED"
                         /\ booking[b].checkIn < OccupiedUntil(Asked(askedOut), buffer)}

\* SELECT ... WHERE roomId = r AND status IN (CONFIRMED, CHECKED_IN) AND checkIn < ...
ConflictCandidates(r, askedOut, buffer) ==
    {b \in ActiveIn(r) : booking[b].checkIn < OccupiedUntil(Asked(askedOut), buffer)}

Conflicts(r, except, askedIn, askedOut, buffer) ==
    \E b \in ConflictCandidates(r, askedOut, buffer) \ {except} :
        HasOccupancyConflict(booking[b], askedIn, askedOut, buffer)

-----------------------------------------------------------------------------
(***************************************************************************)
(* create.  The rate, the guest profile, the pricing rules and the booking *)
(* code are read too; they do not touch the calendar and are left out.     *)
(***************************************************************************)
CreateRead(q) ==
    \E r \in Rooms, checkIn, checkOut \in Times :
        /\ Admit(q, "create", r)
        /\ RoomForBooking
        /\ ~room[r].deleted
        /\ checkIn < checkOut
        /\ req' = [req EXCEPT ![q] =
                     [op |-> "create", pc |-> "check", room |-> r,
                      checkIn |-> checkIn, checkOut |-> checkOut,
                      buffer |-> BufferHours(room[r].buffer, branchBuffer)]]
        /\ UNCHANGED <<calendarVars, room, branchBuffer, task, trailVars>>

CreateCheck(q) ==
    /\ At(q, "create", "check")
    /\ IF Conflicts(req[q].room, Null, req[q].checkIn, req[q].checkOut, req[q].buffer)
       THEN Answer(q)
       ELSE Goto(q, "insert")
    /\ UNCHANGED <<calendarVars, room, branchBuffer, task, trailVars>>

CreateInsert(q) ==
    /\ At(q, "create", "insert")
    /\ \E b \in BookingIds :
         /\ booking[b] = NoRow
         /\ booking' = [booking EXCEPT ![b] =
                          [status |-> "CONFIRMED", room |-> req[q].room,
                           checkIn |-> req[q].checkIn, checkOut |-> req[q].checkOut,
                           actualCheckOut |-> Null]]
         /\ req' = [req EXCEPT ![q] = [op |-> "create", pc |-> "log",
                                       room |-> req[q].room, booking |-> b]]
    /\ UNCHANGED <<billedHours, room, branchBuffer, task, trailVars>>

CreateLog(q) ==
    /\ At(q, "create", "log")
    /\ bookingTrail' = [bookingTrail EXCEPT ![req[q].booking] = "CONFIRMED"]
    /\ Answer(q)
    /\ UNCHANGED <<calendarVars, room, branchBuffer, task, roomTrail>>

-----------------------------------------------------------------------------
(***************************************************************************)
(* updateStatus.                                                           *)
(***************************************************************************)
\* A faulty table that lets a guest arrive after a no-show.
LateArrivalTransitions ==
    [PENDING     |-> {"CONFIRMED", "CANCELLED", "NO_SHOW"},
     CONFIRMED   |-> {"CHECKED_IN", "CANCELLED", "NO_SHOW"},
     CHECKED_IN  |-> {"CHECKED_OUT"},
     CHECKED_OUT |-> {},
     CANCELLED   |-> {},
     NO_SHOW     |-> {"CHECKED_IN"}]

AllowedTransitions ==
    [PENDING     |-> {"CONFIRMED", "CANCELLED", "NO_SHOW"},
     CONFIRMED   |-> {"CHECKED_IN", "CANCELLED", "NO_SHOW"},
     CHECKED_IN  |-> {"CHECKED_OUT"},
     CHECKED_OUT |-> {},
     CANCELLED   |-> {},
     NO_SHOW     |-> {}]

\* Receptionists cannot cancel bookings.
MayAskFor(role, to) == ~(role = "RECEPTIONIST" /\ to = "CANCELLED")

\* The status updateStatus gives the room when a booking moves to the status to.
RoomStatusAfter(to) ==
    CASE to = "CHECKED_IN"  -> "OCCUPIED"
      [] to = "CHECKED_OUT" -> "MAINTENANCE"
      [] OTHER              -> "AVAILABLE"

StatusRead(q) ==
    \E b \in BookingIds, to \in BookingStatus, role \in {"BRANCH_MANAGER", "RECEPTIONIST"} :
        /\ booking[b] # NoRow
        /\ Admit(q, "status", booking[b].room)
        /\ to = "CHECKED_OUT" => RoomForTask
        /\ ~room[booking[b].room].deleted
        /\ MayAskFor(role, to)
        /\ to \in AllowedTransitions[booking[b].status]
        /\ req' = [req EXCEPT ![q] =
                     [op |-> "status", pc |-> "write", room |-> booking[b].room,
                      booking |-> b, from |-> booking[b].status, to |-> to,
                      seen |-> room[booking[b].room].status, assignee |-> Null]]
        /\ UNCHANGED <<calendarVars, room, branchBuffer, task, trailVars>>

\* A faulty update that stamps the check-out on every change of status.
StatusWriteStamping(q) ==
    /\ At(q, "status", "write")
    /\ \E now \in Departures :
         booking' = [booking EXCEPT ![req[q].booking].status = req[q].to,
                                    ![req[q].booking].actualCheckOut = now]
    /\ Goto(q, "log")
    /\ UNCHANGED <<billedHours, room, branchBuffer, task, trailVars>>

(***************************************************************************)
(* UPDATE bookings ... WHERE id: the status read before is not a condition. *)
(* actualCheckOut is the time in the request or the server's clock.        *)
(***************************************************************************)
StatusWrite(q) ==
    /\ At(q, "status", "write")
    /\ \E now \in Departures :
         booking' = [booking EXCEPT
                       ![req[q].booking].status = req[q].to,
                       ![req[q].booking].actualCheckOut =
                           IF req[q].to = "CHECKED_OUT" THEN now ELSE @]
    /\ Goto(q, "log")
    /\ UNCHANGED <<billedHours, room, branchBuffer, task, trailVars>>

\* A faulty check-out that takes an interest only in rooms read as OCCUPIED.
StatusLogOccupiedOnly(q) ==
    /\ At(q, "status", "log")
    /\ bookingTrail' = [bookingTrail EXCEPT ![req[q].booking] = req[q].to]
    /\ CASE req[q].to = "CHECKED_IN" /\ req[q].seen # "OCCUPIED" -> Goto(q, "room")
         [] req[q].to = "CHECKED_OUT" /\ req[q].seen = "OCCUPIED" -> Goto(q, "others")
         [] OTHER -> Answer(q)
    /\ UNCHANGED <<calendarVars, room, branchBuffer, task, roomTrail>>

StatusLog(q) ==
    /\ At(q, "status", "log")
    /\ bookingTrail' = [bookingTrail EXCEPT ![req[q].booking] = req[q].to]
    /\ CASE req[q].to = "CHECKED_IN" /\ req[q].seen # "OCCUPIED" -> Goto(q, "room")
         [] req[q].to \in {"CHECKED_OUT", "CANCELLED"} -> Goto(q, "others")
         [] OTHER -> Answer(q)
    /\ UNCHANGED <<calendarVars, room, branchBuffer, task, roomTrail>>

\* A faulty end of updateStatus that orders a cleaning after every change.
AlwaysOrderCleaning(q) == Goto(q, "find")

\* Where updateStatus goes once the room has its status.
AfterRoom(q) == IF req[q].to = "CHECKED_OUT" THEN Goto(q, "find") ELSE Answer(q)

\* A faulty check-out that ignores the other guests of the room.
StatusOthersIgnored(q) ==
    /\ At(q, "status", "others")
    /\ IF req[q].seen # RoomStatusAfter(req[q].to) THEN Goto(q, "room") ELSE AfterRoom(q)
    /\ UNCHANGED <<calendarVars, room, branchBuffer, task, trailVars>>

\* A faulty early return when the room keeps its status.
StatusOthersReturns(q) ==
    /\ At(q, "status", "others")
    /\ IF /\ \A c \in BookedIn(req[q].room) \ {req[q].booking} :
                booking[c].status # "CHECKED_IN"
          /\ req[q].seen # RoomStatusAfter(req[q].to)
       THEN Goto(q, "room")
       ELSE Answer(q)
    /\ UNCHANGED <<calendarVars, room, branchBuffer, task, trailVars>>

\* A faulty check-out that keeps the room for any other stay still to come.
StatusOthersActive(q) ==
    /\ At(q, "status", "others")
    /\ IF /\ \A c \in BookedIn(req[q].room) \ {req[q].booking} :
                booking[c].status \notin ActiveBooking
          /\ req[q].seen # RoomStatusAfter(req[q].to)
       THEN Goto(q, "room")
       ELSE AfterRoom(q)
    /\ UNCHANGED <<calendarVars, room, branchBuffer, task, trailVars>>

\* Is another guest checked in to the room?
StatusOthers(q) ==
    /\ At(q, "status", "others")
    /\ IF /\ \A c \in BookedIn(req[q].room) \ {req[q].booking} :
                booking[c].status # "CHECKED_IN"
          /\ req[q].seen # RoomStatusAfter(req[q].to)
       THEN Goto(q, "room")
       ELSE AfterRoom(q)
    /\ UNCHANGED <<calendarVars, room, branchBuffer, task, trailVars>>

StatusRoom(q) ==
    /\ At(q, "status", "room")
    /\ SetRoomStatus(req[q].room, RoomStatusAfter(req[q].to))
    /\ Goto(q, "roomLog")
    /\ UNCHANGED <<calendarVars, branchBuffer, task, trailVars>>

StatusRoomLog(q) ==
    /\ At(q, "status", "roomLog")
    /\ LogRoomStatus(req[q].room, req[q].seen, RoomStatusAfter(req[q].to))
    /\ AfterRoom(q)
    /\ UNCHANGED <<calendarVars, room, branchBuffer, task, bookingTrail>>

-----------------------------------------------------------------------------
(***************************************************************************)
(* ensureCheckoutCleaningTask.                                             *)
(***************************************************************************)
\* A faulty query that takes any check-out cleaning of the room for this guest's.
TaskFindInRoom(q) ==
    /\ At(q, "status", "find")
    /\ IF \E t \in TaskIds : /\ task[t] # NoRow
                             /\ task[t].room = req[q].room
                             /\ task[t].type = "CHECKOUT_CLEAN"
       THEN Answer(q)
       ELSE Goto(q, "pick")
    /\ UNCHANGED <<calendarVars, room, branchBuffer, task, trailVars>>

TaskFind(q) ==
    /\ At(q, "status", "find")
    /\ IF \E t \in TaskIds : /\ task[t] # NoRow
                             /\ task[t].booking = req[q].booking
                             /\ task[t].type = "CHECKOUT_CLEAN"
       THEN Answer(q)
       ELSE Goto(q, "pick")
    /\ UNCHANGED <<calendarVars, room, branchBuffer, task, trailVars>>

TaskPick(q) ==
    /\ At(q, "status", "pick")
    /\ req' = [req EXCEPT ![q].assignee = BestHousekeeper, ![q].pc = "order"]
    /\ UNCHANGED <<calendarVars, room, branchBuffer, task, trailVars>>

TaskOrder(q) ==
    /\ At(q, "status", "order")
    /\ \E t \in TaskIds :
         /\ task[t] = NoRow
         /\ task' = [task EXCEPT ![t] =
                       [status |-> "PENDING", room |-> req[q].room,
                        booking |-> req[q].booking, type |-> "CHECKOUT_CLEAN",
                        assignee |-> req[q].assignee]]
    /\ Answer(q)
    /\ UNCHANGED <<calendarVars, room, branchBuffer, trailVars>>

-----------------------------------------------------------------------------
(***************************************************************************)
(* Extensions.  The transaction at the end inserts the extension and moves *)
(* the check-out of the booking together; the values it writes were read   *)
(* before it began.                                                        *)
(***************************************************************************)
ExtendRead(q) ==
    \E b \in BookingIds, hours \in ExtraHours :
        /\ booking[b] # NoRow
        /\ Admit(q, "extend", booking[b].room)
        /\ booking[b].status = "CHECKED_IN"
        /\ ~room[booking[b].room].deleted
        /\ EffectiveCheckOut(booking[b]) + hours \in Times
        /\ billedHours[b] + hours <= MaxBilled
        /\ req' = [req EXCEPT ![q] =
                     [op |-> "extend", pc |-> "check", room |-> booking[b].room,
                      booking |-> b, hours |-> hours,
                      effectiveCheckOut |-> EffectiveCheckOut(booking[b]),
                      newCheckOut |-> EffectiveCheckOut(booking[b]) + hours,
                      buffer |-> BufferHours(room[booking[b].room].buffer, branchBuffer)]]
        /\ UNCHANGED <<calendarVars, room, branchBuffer, task, trailVars>>

ExtendCheck(q) ==
    /\ At(q, "extend", "check")
    /\ IF Conflicts(req[q].room, req[q].booking, req[q].effectiveCheckOut,
                    req[q].newCheckOut, req[q].buffer)
       THEN Answer(q)
       ELSE Goto(q, "write")
    /\ UNCHANGED <<calendarVars, room, branchBuffer, task, trailVars>>

\* A faulty extension that adds to the check-out that was booked.
ExtendWriteFromBooked(q) ==
    /\ At(q, "extend", "write")
    /\ booking' = [booking EXCEPT ![req[q].booking].actualCheckOut =
                                      booking[req[q].booking].checkOut + req[q].hours]
    /\ billedHours' = [billedHours EXCEPT ![req[q].booking] = @ + req[q].hours]
    /\ Answer(q)
    /\ UNCHANGED <<room, branchBuffer, task, trailVars>>

\* A faulty extension without a transaction: the call may die before it is billed.
ExtendWriteTorn(q) ==
    /\ At(q, "extend", "write")
    /\ booking' = [booking EXCEPT ![req[q].booking].actualCheckOut = req[q].newCheckOut]
    /\ \/ billedHours' = [billedHours EXCEPT ![req[q].booking] = @ + req[q].hours]
       \/ MayFail /\ UNCHANGED billedHours
    /\ Answer(q)
    /\ UNCHANGED <<room, branchBuffer, task, trailVars>>

ExtendWrite(q) ==
    /\ At(q, "extend", "write")
    /\ booking' = [booking EXCEPT ![req[q].booking].actualCheckOut = req[q].newCheckOut]
    /\ billedHours' = [billedHours EXCEPT ![req[q].booking] = @ + req[q].hours]
    /\ Answer(q)
    /\ UNCHANGED <<room, branchBuffer, task, trailVars>>

-----------------------------------------------------------------------------
BookingStart(q) == CreateRead(q) \/ StatusRead(q) \/ ExtendRead(q)

BookingStep(q) ==
    \/ CreateCheck(q) \/ CreateInsert(q) \/ CreateLog(q)
    \/ StatusWrite(q) \/ StatusLog(q) \/ StatusOthers(q)
    \/ StatusRoom(q) \/ StatusRoomLog(q)
    \/ TaskFind(q) \/ TaskPick(q) \/ TaskOrder(q)
    \/ ExtendCheck(q) \/ ExtendWrite(q)

(***************************************************************************)
(* What a request of this module holds between two calls.                  *)
(***************************************************************************)
BookingRequest ==
    [op: {"create"}, pc: {"check", "insert"}, room: Rooms,
     checkIn: Times, checkOut: Times, buffer: Int]
    \cup [op: {"create"}, pc: {"log"}, room: Rooms, booking: BookingIds]
    \cup [op: {"status"}, room: Rooms, booking: BookingIds,
          pc: {"write", "log", "others", "room", "roomLog", "find", "pick", "order"},
          from: BookingStatus, to: BookingStatus, seen: RoomStatus,
          assignee: Housekeepers \cup {Null}]
    \cup [op: {"extend"}, pc: {"check", "write"}, room: Rooms, booking: BookingIds,
          hours: ExtraHours, effectiveCheckOut: Times, newCheckOut: Times,
          buffer: Int]
==============================================================================
