------------------------------ MODULE LodgingDb ------------------------------
(***************************************************************************)
(* The tables that the reservation desk, the housekeeping desk and the     *)
(* room administration of one branch share, and the table of HTTP requests *)
(* that are being served.                                                  *)
(*                                                                         *)
(* A service method runs without a transaction and without locks: it is a  *)
(* chain of awaited Prisma calls, each of them atomic in PostgreSQL, and   *)
(* between two of them any other request may run.  req[q] holds where      *)
(* request q stands in its method (pc: the call it awaits next) and the    *)
(* values it has read and still uses.                                      *)
(***************************************************************************)
EXTENDS Occupancy, FiniteSets

CONSTANTS
    Rooms,           \* rooms of the branch
    BookingIds,      \* bound: rows the booking table can hold
    TaskIds,         \* bound: rows the housekeeping table can hold
    Housekeepers,    \* active housekeepers of the branch; their ids are ordered
    Requests,        \* bound: requests in flight at the same time
    Times,           \* hours in which stays begin and end (the horizon)
    Departures,      \* of these, the hours at which guests check out
    ExtraHours,      \* lengths of extension asked for; the DTO demands >= 1
    MaxBilled,       \* bound: hours of extension a stay can collect
    RoomBuffers,     \* values of room.bufferHours, Null when not set
    BranchBuffers,   \* values of branch.bufferHours
    Ops,             \* endpoints the clients of this instance call
    Exclusive,       \* environment: of these, one at a time per room
    MayFail          \* environment: an awaited call may be rejected

ASSUME TimesAssumption ==
    /\ Times \subseteq Int
    /\ Departures \subseteq Times
    /\ ExtraHours \subseteq Nat \ {0}
    /\ MaxBilled \in Nat
ASSUME BufferAssumption ==
    /\ RoomBuffers \subseteq Int \cup {Null}
    /\ BranchBuffers \subseteq Int
ASSUME HousekeeperAssumption == Housekeepers \subseteq Nat
ASSUME IdAssumption == Null \notin BookingIds /\ IsFiniteSet(TaskIds)
ASSUME FlagAssumption == MayFail \in BOOLEAN

VARIABLES
    booking,         \* id -> row of table bookings
    billedHours,     \* id -> sum of extraHours over its rows in booking_extensions
    room,            \* id -> row of table rooms
    branchBuffer,    \* branches.bufferHours
    task,            \* id -> row of table housekeeping_tasks
    roomTrail,       \* audit_logs: id -> last status logged for the room
    bookingTrail,    \* audit_logs: id -> last status logged for the booking
    req              \* the requests being served

vars == <<booking, billedHours, room, branchBuffer, task,
          roomTrail, bookingTrail, req>>

\* Groups of tables for UNCHANGED.
calendarVars == <<booking, billedHours>>
trailVars    == <<roomTrail, bookingTrail>>

-----------------------------------------------------------------------------
BookingStatus == {"PENDING", "CONFIRMED", "CHECKED_IN",
                  "CHECKED_OUT", "CANCELLED", "NO_SHOW"}
RoomStatus    == {"AVAILABLE", "OCCUPIED", "MAINTENANCE", "INACTIVE"}
TaskStatus    == {"PENDING", "IN_PROGRESS", "DONE", "SKIPPED"}

\* The other four task types differ in wording only: no code tells them apart.
TaskType      == {"CHECKOUT_CLEAN", "OTHER"}

NoRow == [status |-> "NONE"]

BookingRow == [status: BookingStatus, room: Rooms, checkIn: Times,
               checkOut: Times, actualCheckOut: Times \cup {Null}]
RoomRow    == [status: RoomStatus, deleted: BOOLEAN, buffer: RoomBuffers]
TaskRow    == [status: TaskStatus, room: Rooms, booking: BookingIds \cup {Null},
               type: TaskType, assignee: Housekeepers \cup {Null}]

OpenTask      == {"PENDING", "IN_PROGRESS"}
ActiveBooking == {"CONFIRMED", "CHECKED_IN"}
Terminal      == {"CHECKED_OUT", "CANCELLED", "NO_SHOW"}

-----------------------------------------------------------------------------
(***************************************************************************)
(* Requests.  Idle is a slot that serves nothing.                          *)
(***************************************************************************)
Operations == {"create", "status", "extend",      \* bookings, extensions
               "task", "clean", "assign",         \* housekeeping
               "manual", "archive", "buffer"}     \* rooms, branches

ASSUME OpsAssumption == Ops \subseteq Operations /\ Exclusive \subseteq Operations

Idle == [op |-> "idle"]

Served(q) == req[q] # Idle

At(q, op, pc) == Served(q) /\ req[q].op = op /\ req[q].pc = pc

\* A client calls endpoint op for room r; q is a free slot.
Admit(q, op, r) ==
    /\ op \in Ops
    /\ ~Served(q)
    /\ op \in Exclusive =>
         \A p \in Requests :
            Served(p) /\ req[p].op \in Exclusive => req[p].room # r

\* Request q goes on to the next awaited call.
Goto(q, pc) == req' = [req EXCEPT ![q].pc = pc]

Answer(q) == req' = [req EXCEPT ![q] = Idle]

\* Every row a request may still insert fits below the bounds of the tables.
RoomForBooking ==
    Cardinality({b \in BookingIds : booking[b] = NoRow})
        > Cardinality({p \in Requests : Served(p) /\ req[p].op = "create"})

InsertsTask(q) ==
    Served(q) /\ (req[q].op = "task" \/ (req[q].op = "status" /\ req[q].to = "CHECKED_OUT"))

RoomForTask ==
    Cardinality({t \in TaskIds : task[t] = NoRow})
        > Cardinality({p \in Requests : InsertsTask(p)})

(***************************************************************************)
(* The database refuses the call, the connection breaks or the process     *)
(* dies: the rest of the method does not run, and nothing undoes its first *)
(* part.                                                                   *)
(***************************************************************************)
Fail(q) ==
    /\ MayFail
    /\ Served(q)
    /\ Answer(q)
    /\ UNCHANGED <<calendarVars, room, branchBuffer, task, trailVars>>

-----------------------------------------------------------------------------
BookedIn(r) == {b \in BookingIds : booking[b] # NoRow /\ booking[b].room = r}

ActiveIn(r) == {b \in BookedIn(r) : booking[b].status \in ActiveBooking}

CheckedInRooms == {r \in Rooms : \E b \in BookedIn(r) : booking[b].status = "CHECKED_IN"}

\* UPDATE rooms SET status = s WHERE id = r: no condition on the present status.
SetRoomStatus(r, s) == room' = [room EXCEPT ![r].status = s]

\* A faulty entry that records the status the room had.
LogRoomStatusBefore(r, from, to) ==
    roomTrail' = IF from = to THEN roomTrail ELSE [roomTrail EXCEPT ![r] = from]

\* AuditService.logRoomStatusChange: nothing is written when from and to agree.
LogRoomStatus(r, from, to) ==
    roomTrail' = IF from = to THEN roomTrail ELSE [roomTrail EXCEPT ![r] = to]

-----------------------------------------------------------------------------
(***************************************************************************)
(* HousekeepingDispatchService.findBestHousekeeper: the least loaded       *)
(* active housekeeper of the branch, the smaller id first; Null when there *)
(* is none.                                                                *)
(***************************************************************************)
OpenLoad(h) ==
    Cardinality({t \in TaskIds : task[t] # NoRow /\ task[t].assignee = h
                                                 /\ task[t].status \in OpenTask})

\* A faulty order of the candidates: the busiest first.
BusiestHousekeeper ==
    IF Housekeepers = {} THEN Null
    ELSE CHOOSE h \in Housekeepers :
            \A g \in Housekeepers \ {h} :
                OpenLoad(h) > OpenLoad(g) \/ (OpenLoad(h) = OpenLoad(g) /\ h < g)

BestHousekeeper ==
    IF Housekeepers = {} THEN Null
    ELSE CHOOSE h \in Housekeepers :
            \A g \in Housekeepers \ {h} :
                OpenLoad(h) < OpenLoad(g) \/ (OpenLoad(h) = OpenLoad(g) /\ h < g)

-----------------------------------------------------------------------------
Init ==
    /\ booking = [b \in BookingIds |-> NoRow]
    /\ billedHours = [b \in BookingIds |-> 0]
    /\ room \in [Rooms -> [status: {"AVAILABLE"}, deleted: {FALSE}, buffer: RoomBuffers]]
    /\ branchBuffer \in BranchBuffers
    /\ task = [t \in TaskIds |-> NoRow]
    /\ roomTrail = [r \in Rooms |-> "AVAILABLE"]
    /\ bookingTrail = [b \in BookingIds |-> "NONE"]
    /\ req = [q \in Requests |-> Idle]
==============================================================================
