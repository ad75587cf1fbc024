---------------------------- MODULE CalendarProofs ----------------------------
(***************************************************************************)
(* The reservation calendar of Lodging is sound, for any number of rooms,  *)
(* bookings, tasks, housekeepers and requests, provided that requests that *)
(* write the calendar of one room take turns and no buffer is negative.    *)
(***************************************************************************)
EXTENDS LodgingProofs

(***************************************************************************)
(* What the code does not enforce itself: the run two_desks shows what     *)
(* happens without the first conjunct, and a negative buffer, which the    *)
(* room form accepts, shortens the stays that the conflict check compares. *)
(***************************************************************************)
InTurnWithSaneBuffers ==
    /\ CalendarOps \subseteq Exclusive
    /\ RoomBuffers \subseteq Nat \cup {Null}
    /\ BranchBuffers \subseteq Nat

-----------------------------------------------------------------------------
\* Sane buffers give a sane turnaround.
LEMMA BufferNat ==
    ASSUME InTurnWithSaneBuffers, NEW a \in RoomBuffers, NEW b \in BranchBuffers
    PROVE  BufferHours(a, b) \in Nat
  BY NullAssumption DEF BufferHours, InTurnWithSaneBuffers

\* The rows of active bookings have an interval.
LEMMA ActiveType ==
    ASSUME TypeOK, NEW r, NEW c \in ActiveIn(r)
    PROVE  /\ c \in BookingIds /\ booking[c] \in BookingRow /\ booking[c].room = r
           /\ booking[c].status \in ActiveBooking
           /\ booking[c].checkIn \in Int /\ booking[c].checkOut \in Int
           /\ EffectiveCheckOut(booking[c]) \in Int
<1>1. c \in BookingIds /\ booking[c] # NoRow /\ booking[c].room = r
        /\ booking[c].status \in ActiveBooking
  BY DEF ActiveIn, BookedIn
<1>2. booking[c] \in BookingRow
  BY <1>1 DEF TypeOK
<1>3. QED
  BY <1>1, <1>2, TimesAssumption DEF BookingRow, EffectiveCheckOut

(***************************************************************************)
(* What the conflict check of create and of the extensions is worth: when  *)
(* it finds nothing, no active stay of the room but except's meets the     *)
(* window, although the query only fetches the stays that begin before the *)
(* end of the window and its buffer.                                       *)
(***************************************************************************)
LEMMA NoConflictMeansVacant ==
    ASSUME TypeOK, NEW r, NEW except, NEW from \in Int, NEW until \in Int,
           NEW buffer \in Nat, ~Conflicts(r, except, from, until, buffer)
    PROVE  VacantIn(r, except, from, until)
<1> SUFFICES ASSUME NEW c \in ActiveIn(r) \ {except}
             PROVE  Apart(from, until, booking[c].checkIn, EffectiveCheckOut(booking[c]))
  BY DEF VacantIn
<1> DEFINE start == booking[c].checkIn
           end   == EffectiveCheckOut(booking[c])
<1>1. start \in Int /\ end \in Int
  BY ActiveType
<1>2. OccupiedUntil(Asked(until), buffer) = until + buffer
  BY DEF OccupiedUntil, Asked, EffectiveCheckOut
<1>3. start < until + buffer => c \in ConflictCandidates(r, until, buffer) \ {except}
  BY <1>2 DEF ConflictCandidates
<1>4. start < until + buffer => ~(end + buffer > from)
  BY <1>2, <1>3 DEF Conflicts, HasOccupancyConflict, OccupiedUntil
<1>5. QED
  BY <1>1, <1>4 DEF Apart

-----------------------------------------------------------------------------
(***************************************************************************)
(* Calls that do not write bookings.                                       *)
(***************************************************************************)

\* Request p has no write to the calendar ahead of it.
Settled(p) ==
    \/ ~Served(p)'
    \/ req'[p].op \notin CalendarOps
    \/ /\ Served(p) /\ req'[p].op = req[p].op /\ req'[p].room = req[p].room
       /\ req[p].op \in {"create", "status"}
       /\ req'[p].pc \notin {"check", "insert", "write"}

Unaffected(p) == req'[p] = req[p] \/ Settled(p)

LEMMA Bystander ==
    ASSUME TypeOK, CalendarInv, UNCHANGED <<booking, billedHours>>,
           \A p \in Requests : Unaffected(p)
    PROVE  CalendarInv'
<1> USE DEF CalendarInv
<1>1. InTurn'
  BY DEF InTurn, Unaffected, Settled, Served
<1>2. \A c \in BookingIds : RowSound(c)'
  BY DEF RowSound, EffectiveCheckOut
<1>3. ASSUME NEW p \in Requests PROVE CreateFresh(p)'
  <2>1. At(p, "create", "check")' \/ At(p, "create", "insert")' => req'[p] = req[p]
    BY DEF Unaffected, Settled, At, Served, CalendarOps
  <2>2. QED
    BY <2>1 DEF CreateFresh, At, Served, VacantIn, Apart, EffectiveCheckOut, ActiveIn, BookedIn
<1>4. ASSUME NEW p \in Requests PROVE StatusFresh(p)'
  BY DEF StatusFresh, Unaffected, Settled, At, Served, CalendarOps
<1>5. ASSUME NEW p \in Requests PROVE ExtendFresh(p)'
  BY DEF ExtendFresh, Unaffected, Settled, Served, CalendarOps, VacantIn, Apart, EffectiveCheckOut,
         ActiveIn, BookedIn
<1>6. NoDoubleBooking'
  BY DEF NoDoubleBooking, Apart, EffectiveCheckOut, ActiveIn, BookedIn
<1>7. ExtensionsAddUp'
  BY DEF ExtensionsAddUp, EffectiveCheckOut
<1>8. QED
  BY <1>1, <1>2, <1>3, <1>4, <1>5, <1>6, <1>7

\* The steps of the other desks, and the calls of a booking request that only read, log,
\* set the room or order the cleaning.
AsideFromCalendar(q) ==
    \/ CreateLog(q)
    \/ StatusLog(q) \/ StatusOthers(q) \/ StatusRoom(q) \/ StatusRoomLog(q)
    \/ TaskFind(q) \/ TaskPick(q) \/ TaskOrder(q)
    \/ HousekeepingStart(q) \/ HousekeepingStep(q)
    \/ RoomDeskStart(q) \/ RoomDeskStep(q)
    \/ Fail(q)

LEMMA AsideUnaffected ==
    ASSUME TypeOK, NEW q \in Requests, AsideFromCalendar(q)
    PROVE  UNCHANGED <<booking, billedHours>> /\ Unaffected(q)
<1> DEFINE Done == UNCHANGED <<booking, billedHours>> /\ Unaffected(q)
<1> USE DEF calendarVars, At
<1>0. req \in [Requests -> AnyRequest]
  BY DEF TypeOK, AnyRequest
<1>a. ASSUME Served(q), NEW pc, Goto(q, pc),
             \/ req[q].op \notin CalendarOps
             \/ req[q].op = "status" /\ pc \notin {"check", "insert", "write"}
      PROVE  Unaffected(q)
  BY <1>a, GotoKeeps DEF Unaffected, Settled
<1>b. ASSUME Answer(q) PROVE Unaffected(q)
  BY <1>b, AnswerEnds DEF Unaffected, Settled
<1>1. CASE CreateLog(q)
  BY <1>1, <1>b DEF CreateLog
<1>2. CASE StatusLog(q)
  BY <1>2, <1>a, <1>b DEF StatusLog
<1>3. CASE StatusOthers(q)
  BY <1>3, <1>a, <1>b DEF StatusOthers, AfterRoom
<1>4. CASE StatusRoom(q) \/ StatusRoomLog(q)
  BY <1>4, <1>a, <1>b DEF StatusRoom, StatusRoomLog, AfterRoom
<1>5. CASE TaskFind(q) \/ TaskOrder(q)
  BY <1>5, <1>a, <1>b DEF TaskFind, TaskOrder
<1>6. CASE TaskPick(q)
  BY <1>0, <1>6 DEF TaskPick, Unaffected, Settled, AnyRequest, BookingRequest, HousekeepingRequest,
                    RoomDeskRequest, Served, Idle
<1>7. CASE HousekeepingStart(q)
  BY <1>0, <1>7 DEF HousekeepingStart, TaskRead, CleanRead, Unaffected, Settled, CalendarOps
<1>8. CASE HousekeepingStep(q)
  <2>1. CASE TaskDispatch(q)
    BY <1>0, <2>1 DEF TaskDispatch, Unaffected, Settled, CalendarOps, AnyRequest, BookingRequest,
                      HousekeepingRequest, RoomDeskRequest, Served, Idle
  <2>2. CASE CleanWrite(q)
    BY <1>0, <1>b, <2>2 DEF CleanWrite, Unaffected, Settled, CalendarOps
  <2>3. CASE ReleaseRead(q)
    BY <1>0, <1>b, <2>3 DEF ReleaseRead, Unaffected, Settled, CalendarOps, AnyRequest, BookingRequest,
                            HousekeepingRequest, RoomDeskRequest, Served, Idle
  <2>4. QED
    BY <1>8, <1>a, <1>b, <2>1, <2>2, <2>3
       DEF HousekeepingStep, TaskInsert, MarkRead, MarkRoom, MarkRoomLog, ReleaseRoom,
           ReleaseRoomLog, CalendarOps
<1>9. CASE RoomDeskStart(q) \/ RoomDeskStep(q)
  BY <1>0, <1>a, <1>b, <1>9
     DEF RoomDeskStart, RoomDeskStep, ManualRead, ManualWrite, ManualLog, ArchiveRead,
         ArchiveCount, ArchiveWrite, Unaffected, Settled, CalendarOps
<1>10. CASE Fail(q)
  BY <1>10, <1>b DEF Fail
<1>11. QED
  BY <1>1, <1>2, <1>3, <1>4, <1>5, <1>6, <1>7, <1>8, <1>9, <1>10 DEF AsideFromCalendar

-----------------------------------------------------------------------------
(***************************************************************************)
(* Calls that read for the calendar.                                       *)
(***************************************************************************)

\* Only q moves, and what it has read is fresh: the calendar stays sound.
LEMMA ReaderKeepsCalendar ==
    ASSUME TypeOK, CalendarInv, UNCHANGED <<booking, billedHours>>,
           NEW q \in Requests,
           \A p \in Requests \ {q} : req'[p] = req[p],
           Served(q)' /\ req'[q].op \in CalendarOps =>
              \A p \in Requests \ {q} :
                 Served(p) /\ req[p].op \in CalendarOps => req[p].room # req'[q].room,
           CreateFresh(q)', StatusFresh(q)', ExtendFresh(q)'
    PROVE  CalendarInv'
<1> USE DEF CalendarInv
<1>1. InTurn'
  BY DEF InTurn, Served
<1>2. \A c \in BookingIds : RowSound(c)'
  BY DEF RowSound, EffectiveCheckOut
<1>3. ASSUME NEW p \in Requests PROVE CreateFresh(p)' /\ StatusFresh(p)' /\ ExtendFresh(p)'
  <2>1. CASE p = q
    BY <2>1
  <2>2. CASE p # q
    BY <2>2 DEF CreateFresh, StatusFresh, ExtendFresh, At, Served, VacantIn, Apart,
                EffectiveCheckOut, ActiveIn, BookedIn
  <2>3. QED
    BY <2>1, <2>2
<1>4. NoDoubleBooking'
  BY DEF NoDoubleBooking, Apart, EffectiveCheckOut, ActiveIn, BookedIn
<1>5. ExtensionsAddUp'
  BY DEF ExtensionsAddUp, EffectiveCheckOut
<1>6. QED
  BY <1>1, <1>2, <1>3, <1>4, <1>5

\* A request admitted while the calendar requests take turns has its room to itself.
LEMMA AdmittedAlone ==
    ASSUME InTurnWithSaneBuffers, NEW q \in Requests, NEW op \in CalendarOps, NEW r,
           Admit(q, op, r)
    PROVE  \A p \in Requests : Served(p) /\ req[p].op \in CalendarOps => req[p].room # r
  BY DEF Admit, InTurnWithSaneBuffers

LEMMA CalendarRead ==
    ASSUME InTurnWithSaneBuffers, TypeOK, CalendarInv, NEW q \in Requests,
           BookingStart(q)
    PROVE  CalendarInv'
<1>0. \A p \in Requests \ {q} : req'[p] = req[p]
  BY OthersWait DEF Start
<1>1. CASE CreateRead(q)
  <2>1. PICK r \in Rooms, checkIn \in Times, checkOut \in Times :
           /\ Admit(q, "create", r)
           /\ checkIn < checkOut
           /\ req'[q] = [op |-> "create", pc |-> "check", room |-> r,
                         checkIn |-> checkIn, checkOut |-> checkOut,
                         buffer |-> BufferHours(room[r].buffer, branchBuffer)]
           /\ UNCHANGED <<booking, billedHours>>
    BY <1>1 DEF CreateRead, calendarVars, TypeOK
  <2>2. BufferHours(room[r].buffer, branchBuffer) \in Nat
    BY BufferNat DEF TypeOK, RoomRow
  <2>3. CreateFresh(q)' /\ StatusFresh(q)' /\ ExtendFresh(q)'
    BY <2>1, <2>2 DEF CreateFresh, StatusFresh, ExtendFresh, At
  <2>4. QED
    BY <1>0, <2>1, <2>3, AdmittedAlone, ReaderKeepsCalendar DEF CalendarOps
<1>2. CASE StatusRead(q)
  <2>1. PICK b \in BookingIds, to \in BookingStatus :
           /\ booking[b] # NoRow
           /\ Admit(q, "status", booking[b].room)
           /\ to \in AllowedTransitions[booking[b].status]
           /\ req'[q] = [op |-> "status", pc |-> "write", room |-> booking[b].room,
                         booking |-> b, from |-> booking[b].status, to |-> to,
                         seen |-> room[booking[b].room].status, assignee |-> Null]
           /\ UNCHANGED <<booking, billedHours>>
    BY <1>2 DEF StatusRead, calendarVars, TypeOK
  <2>2. CreateFresh(q)' /\ StatusFresh(q)' /\ ExtendFresh(q)'
    BY <2>1 DEF CreateFresh, StatusFresh, ExtendFresh, At
  <2>3. QED
    BY <1>0, <2>1, <2>2, AdmittedAlone, ReaderKeepsCalendar DEF CalendarOps
<1>3. CASE ExtendRead(q)
  <2>1. PICK b \in BookingIds, hours \in ExtraHours :
           /\ booking[b] # NoRow
           /\ Admit(q, "extend", booking[b].room)
           /\ booking[b].status = "CHECKED_IN"
           /\ req'[q] = [op |-> "extend", pc |-> "check", room |-> booking[b].room,
                         booking |-> b, hours |-> hours,
                         effectiveCheckOut |-> EffectiveCheckOut(booking[b]),
                         newCheckOut |-> EffectiveCheckOut(booking[b]) + hours,
                         buffer |-> BufferHours(room[booking[b].room].buffer, branchBuffer)]
           /\ UNCHANGED <<booking, billedHours>>
    BY <1>3 DEF ExtendRead, calendarVars, TypeOK
  <2>2. BufferHours(room[booking[b].room].buffer, branchBuffer) \in Nat
    BY <2>1, BufferNat DEF TypeOK, RoomRow, BookingRow
  <2>3. CreateFresh(q)' /\ StatusFresh(q)' /\ ExtendFresh(q)'
    BY <2>1, <2>2 DEF CreateFresh, StatusFresh, ExtendFresh, At, EffectiveCheckOut
  <2>4. QED
    BY <1>0, <2>1, <2>3, AdmittedAlone, ReaderKeepsCalendar DEF CalendarOps
<1>4. QED
  BY <1>1, <1>2, <1>3 DEF BookingStart

\* The fields of a request that stands at a call of the calendar.
LEMMA CreateFields ==
    ASSUME TypeOK, NEW q \in Requests,
           At(q, "create", "check") \/ At(q, "create", "insert")
    PROVE  /\ req[q] \in [op: {"create"}, pc: {"check", "insert"}, room: Rooms,
                          checkIn: Times, checkOut: Times, buffer: Int]
           /\ req[q].checkIn \in Int /\ req[q].checkOut \in Int
  BY TimesAssumption DEF TypeOK, BookingRequest, HousekeepingRequest, RoomDeskRequest, At,
                         Served, Idle

LEMMA ExtendFields ==
    ASSUME TypeOK, NEW q \in Requests, Served(q), req[q].op = "extend"
    PROVE  /\ req[q] \in [op: {"extend"}, pc: {"check", "write"}, room: Rooms,
                          booking: BookingIds, hours: ExtraHours,
                          effectiveCheckOut: Times, newCheckOut: Times, buffer: Int]
           /\ req[q].effectiveCheckOut \in Int /\ req[q].newCheckOut \in Int
           /\ req[q].hours \in Nat \ {0}
  BY TimesAssumption DEF TypeOK, BookingRequest, HousekeepingRequest, RoomDeskRequest, Served,
                         Idle

LEMMA CalendarCheck ==
    ASSUME TypeOK, CalendarInv, NEW q \in Requests, CreateCheck(q) \/ ExtendCheck(q)
    PROVE  CalendarInv'
<1>0. /\ \A p \in Requests \ {q} : req'[p] = req[p]
      /\ UNCHANGED <<booking, billedHours>>
      /\ Served(q) /\ req[q].op \in CalendarOps
  <2>1. \A p \in Requests \ {q} : req'[p] = req[p]
    BY OthersWait DEF Step, BookingStep
  <2>2. QED
    BY <2>1 DEF CreateCheck, ExtendCheck, calendarVars, At, CalendarOps
<1>1. ASSUME Answer(q) PROVE CalendarInv'
  BY <1>0, <1>1, AnswerEnds, Bystander DEF Unaffected, Settled
<1>2. \A p \in Requests \ {q} :
         Served(p) /\ req[p].op \in CalendarOps => req[p].room # req[q].room
  BY <1>0 DEF CalendarInv, InTurn
<1>3. CASE CreateCheck(q) /\ ~Answer(q)
  <2>1. /\ At(q, "create", "check")
        /\ ~Conflicts(req[q].room, Null, req[q].checkIn, req[q].checkOut, req[q].buffer)
        /\ Goto(q, "insert")
    BY <1>3 DEF CreateCheck
  <2>2. req[q].checkIn < req[q].checkOut /\ req[q].buffer \in Nat
    BY <2>1, CreateFields DEF CalendarInv, CreateFresh
  <2>3. VacantIn(req[q].room, Null, req[q].checkIn, req[q].checkOut)
    BY <2>1, <2>2, CreateFields, NoConflictMeansVacant
  <2>4. req'[q] = [req[q] EXCEPT !.pc = "insert"]
    BY <2>1 DEF Goto, TypeOK
  <2>5. /\ req'[q].op = "create" /\ req'[q].pc = "insert" /\ req'[q].room = req[q].room
        /\ req'[q].checkIn = req[q].checkIn /\ req'[q].checkOut = req[q].checkOut
        /\ req'[q].buffer = req[q].buffer
    BY <2>1, <2>4, CreateFields
  <2>6. CreateFresh(q)' /\ StatusFresh(q)' /\ ExtendFresh(q)'
    BY <1>0, <2>2, <2>3, <2>5
       DEF CreateFresh, StatusFresh, ExtendFresh, At, VacantIn, Apart, EffectiveCheckOut,
           ActiveIn, BookedIn
  <2>7. QED
    BY <1>0, <1>2, <2>5, <2>6, ReaderKeepsCalendar
<1>4. CASE ExtendCheck(q) /\ ~Answer(q)
  <2> DEFINE b   == req[q].booking
             row == booking[b]
  <2>1. /\ At(q, "extend", "check")
        /\ ~Conflicts(req[q].room, b, req[q].effectiveCheckOut, req[q].newCheckOut,
                      req[q].buffer)
        /\ Goto(q, "write")
    BY <1>4 DEF ExtendCheck
  <2>2. /\ row.room = req[q].room /\ row.status = "CHECKED_IN" /\ row # NoRow
        /\ EffectiveCheckOut(row) = req[q].effectiveCheckOut
        /\ req[q].newCheckOut = req[q].effectiveCheckOut + req[q].hours
        /\ req[q].buffer \in Nat /\ b \in BookingIds
    BY <2>1, ExtendFields DEF CalendarInv, ExtendFresh, At
  <2>3. VacantIn(req[q].room, b, req[q].effectiveCheckOut, req[q].newCheckOut)
    BY <2>1, <2>2, ExtendFields, NoConflictMeansVacant DEF At
  <2>4. VacantIn(req[q].room, b, row.checkIn, req[q].newCheckOut)
    <3> SUFFICES ASSUME NEW c \in ActiveIn(req[q].room) \ {b}
                 PROVE  Apart(row.checkIn, req[q].newCheckOut,
                              booking[c].checkIn, EffectiveCheckOut(booking[c]))
      BY DEF VacantIn
    <3>1. b \in ActiveIn(req[q].room)
      BY <2>2 DEF ActiveIn, BookedIn, ActiveBooking
    <3>2. Apart(row.checkIn, EffectiveCheckOut(row),
                booking[c].checkIn, EffectiveCheckOut(booking[c]))
      BY <2>2, <3>1, ExtendFields DEF CalendarInv, NoDoubleBooking, TypeOK, BookingRow, At
    <3>3. booking[c].checkIn < EffectiveCheckOut(booking[c])
      BY ActiveType DEF CalendarInv, RowSound
    <3>4. Apart(req[q].effectiveCheckOut, req[q].newCheckOut,
                booking[c].checkIn, EffectiveCheckOut(booking[c]))
      BY <2>3 DEF VacantIn
    <3>5. row.checkIn \in Int /\ booking[c].checkIn \in Int
            /\ EffectiveCheckOut(booking[c]) \in Int
            /\ req[q].effectiveCheckOut \in Int /\ req[q].newCheckOut \in Int
      BY <2>1, <3>1, ActiveType, ExtendFields DEF At
    <3>6. QED
      BY <2>2, <3>2, <3>3, <3>4, <3>5 DEF Apart
  <2>5. req'[q] = [req[q] EXCEPT !.pc = "write"]
    BY <2>1 DEF Goto, TypeOK
  <2>6. /\ req'[q].op = "extend" /\ req'[q].pc = "write" /\ req'[q].room = req[q].room
        /\ req'[q].booking = b /\ req'[q].hours = req[q].hours
        /\ req'[q].effectiveCheckOut = req[q].effectiveCheckOut
        /\ req'[q].newCheckOut = req[q].newCheckOut /\ req'[q].buffer = req[q].buffer
    BY <2>1, <2>5, ExtendFields DEF At
  <2>7. CreateFresh(q)' /\ StatusFresh(q)' /\ ExtendFresh(q)'
    BY <1>0, <2>2, <2>4, <2>6
       DEF CreateFresh, StatusFresh, ExtendFresh, At, VacantIn, Apart, EffectiveCheckOut,
           ActiveIn, BookedIn
  <2>8. QED
    BY <1>0, <1>2, <2>6, <2>7, ReaderKeepsCalendar
<1>5. QED
  BY <1>1, <1>3, <1>4

-----------------------------------------------------------------------------
(***************************************************************************)
(* Calls that write a booking.                                             *)
(***************************************************************************)

\* Request q writes booking b of its own room: nobody else has read that room.
LEMMA WriterAlone ==
    ASSUME TypeOK, CalendarInv, NEW q \in Requests, NEW b \in BookingIds,
           \A p \in Requests \ {q} : req'[p] = req[p],
           Served(q), req[q].op \in CalendarOps, Settled(q),
           \A c \in BookingIds \ {b} : booking'[c] = booking[c],
           booking[b] # NoRow => booking[b].room = req[q].room,
           booking'[b] # NoRow, booking'[b].room = req[q].room
    PROVE  /\ InTurn'
           /\ \A p \in Requests : CreateFresh(p)' /\ StatusFresh(p)' /\ ExtendFresh(p)'
<1>1. InTurn'
  BY DEF CalendarInv, InTurn, Settled, Served
<1>2. ASSUME NEW p \in Requests, p # q, Served(p), req[p].op \in CalendarOps
      PROVE  /\ ActiveIn(req[p].room)' = ActiveIn(req[p].room)
             /\ \A c \in ActiveIn(req[p].room) : booking'[c] = booking[c]
             /\ req'[p] = req[p]
  <2>1. req[p].room # req[q].room /\ req'[p] = req[p]
    BY <1>2 DEF CalendarInv, InTurn
  <2>2. b \notin ActiveIn(req[p].room) /\ b \notin ActiveIn(req[p].room)'
    BY <2>1 DEF ActiveIn, BookedIn
  <2>3. QED
    BY <2>1, <2>2 DEF ActiveIn, BookedIn
<1>3. ASSUME NEW p \in Requests, p # q
      PROVE  CreateFresh(p)' /\ StatusFresh(p)' /\ ExtendFresh(p)'
  <2>1. CASE ~Served(p) \/ req[p].op \notin CalendarOps
    BY <1>3, <2>1 DEF CreateFresh, StatusFresh, ExtendFresh, At, Served, CalendarOps
  <2>2. CASE Served(p) /\ req[p].op \in CalendarOps
    <3>1. /\ ActiveIn(req[p].room)' = ActiveIn(req[p].room)
          /\ \A c \in ActiveIn(req[p].room) : booking'[c] = booking[c]
          /\ req'[p] = req[p]
      BY <1>2, <1>3, <2>2
    <3>2. CreateFresh(p)'
      BY <3>1 DEF CalendarInv, CreateFresh, At, Served, VacantIn, Apart, EffectiveCheckOut
    <3>3. ASSUME At(p, "status", "write") \/ req[p].op = "extend"
          PROVE  booking'[req[p].booking] = booking[req[p].booking]
      <4>1. req[p].booking \in BookingIds /\ req[p].room # req[q].room
        BY <1>3, <2>2, <3>3 DEF CalendarInv, InTurn, At, TypeOK, BookingRequest,
                                HousekeepingRequest, RoomDeskRequest, Served, Idle
      <4>2. booking[req[p].booking] # NoRow /\ booking[req[p].booking].room = req[p].room
        BY <2>2, <3>3 DEF CalendarInv, StatusFresh, ExtendFresh
      <4>3. QED
        BY <4>1, <4>2
    <3>4. StatusFresh(p)'
      BY <3>1, <3>3 DEF CalendarInv, StatusFresh, At, Served
    <3>5. ExtendFresh(p)'
      BY <3>1, <3>3 DEF CalendarInv, ExtendFresh, Served, VacantIn, Apart, EffectiveCheckOut
    <3>6. QED
      BY <3>2, <3>4, <3>5
  <2>3. QED
    BY <2>1, <2>2
<1>4. CreateFresh(q)' /\ StatusFresh(q)' /\ ExtendFresh(q)'
  <2>1. CASE ~Served(q)' \/ req'[q].op \notin CalendarOps
    BY <2>1 DEF CreateFresh, StatusFresh, ExtendFresh, At, CalendarOps
  <2>2. CASE req'[q].op \in {"create", "status"} /\ req'[q].pc \notin {"check", "insert", "write"}
    BY <2>2 DEF CreateFresh, StatusFresh, ExtendFresh, At
  <2>3. QED
    BY <2>1, <2>2 DEF Settled
<1>5. QED
  BY <1>1, <1>3, <1>4

\* The booking that a write changes is still sound, and meets no other stay of its room.
LEMMA WriteKeepsCalendar ==
    ASSUME TypeOK, TypeOK', CalendarInv, NEW q \in Requests, NEW b \in BookingIds,
           \A c \in BookingIds \ {b} : /\ booking'[c] = booking[c]
                                        /\ billedHours'[c] = billedHours[c],
           RowSound(b)', booking'[b] # NoRow,
           booking'[b].status \in ActiveBooking =>
               VacantIn(booking'[b].room, b, booking'[b].checkIn,
                        EffectiveCheckOut(booking'[b])),
           booking'[b].status = "CHECKED_IN" =>
               EffectiveCheckOut(booking'[b]) = booking'[b].checkOut + billedHours'[b]
    PROVE  (\A c \in BookingIds : RowSound(c)') /\ NoDoubleBooking' /\ ExtensionsAddUp'
<1>1. \A c \in BookingIds : RowSound(c)'
  BY DEF CalendarInv, RowSound, EffectiveCheckOut
<1>2. NoDoubleBooking'
  <2> SUFFICES ASSUME NEW r \in Rooms, NEW c \in ActiveIn(r)', NEW d \in ActiveIn(r)', c # d
               PROVE  Apart(booking'[c].checkIn, EffectiveCheckOut(booking'[c]),
                            booking'[d].checkIn, EffectiveCheckOut(booking'[d]))
    BY DEF NoDoubleBooking, EffectiveCheckOut
  <2>1. CASE c # b /\ d # b
    BY <2>1 DEF CalendarInv, NoDoubleBooking, ActiveIn, BookedIn
  <2>2. CASE c = b
    <3>1. d \in ActiveIn(booking'[b].room) \ {b}
      BY <2>2 DEF ActiveIn, BookedIn
    <3>2. booking'[d] = booking[d] /\ booking'[b].status \in ActiveBooking
      BY <2>2 DEF ActiveIn, BookedIn
    <3>3. QED
      BY <2>2, <3>1, <3>2 DEF VacantIn
  <2>3. CASE d = b
    <3>1. c \in ActiveIn(booking'[b].room) \ {b}
      BY <2>3 DEF ActiveIn, BookedIn
    <3>2. booking'[c] = booking[c] /\ booking'[b].status \in ActiveBooking
      BY <2>3 DEF ActiveIn, BookedIn
    <3>3. QED
      BY <2>3, <3>1, <3>2 DEF VacantIn, Apart
  <2>4. QED
    BY <2>1, <2>2, <2>3
<1>3. ExtensionsAddUp'
  BY DEF CalendarInv, ExtensionsAddUp, EffectiveCheckOut
<1>4. QED
  BY <1>1, <1>2, <1>3

\* INSERT INTO bookings: the window was found vacant and nobody could take it since.
LEMMA InsertKeepsCalendar ==
    ASSUME TypeOK, TypeOK', CalendarInv, NEW q \in Requests, CreateInsert(q)
    PROVE  CalendarInv'
<1>1. PICK b \in BookingIds :
        /\ booking[b] = NoRow
        /\ booking'[b] = [status |-> "CONFIRMED", room |-> req[q].room,
                          checkIn |-> req[q].checkIn, checkOut |-> req[q].checkOut,
                          actualCheckOut |-> Null]
        /\ \A c \in BookingIds \ {b} : booking'[c] = booking[c]
        /\ req'[q] = [op |-> "create", pc |-> "log", room |-> req[q].room, booking |-> b]
  BY DEF CreateInsert, TypeOK
<1>2. At(q, "create", "insert") /\ billedHours' = billedHours
  BY DEF CreateInsert
<1>3. /\ req[q].checkIn < req[q].checkOut
      /\ VacantIn(req[q].room, Null, req[q].checkIn, req[q].checkOut)
  BY <1>2 DEF CalendarInv, CreateFresh
<1>4. billedHours[b] = 0 /\ req[q].checkOut \in Int
  BY <1>1, <1>2, CreateFields DEF CalendarInv, RowSound
<1>5. EffectiveCheckOut(booking'[b]) = req[q].checkOut
  BY <1>1 DEF EffectiveCheckOut
<1>6. RowSound(b)' /\ booking'[b] # NoRow
  BY <1>1, <1>2, <1>3, <1>4, <1>5 DEF RowSound, NoRow, EffectiveCheckOut
<1>7. VacantIn(booking'[b].room, b, booking'[b].checkIn, EffectiveCheckOut(booking'[b]))
  BY <1>1, <1>3, <1>5, IdAssumption DEF VacantIn, ActiveIn, BookedIn
<1>8. (\A c \in BookingIds : RowSound(c)') /\ NoDoubleBooking' /\ ExtensionsAddUp'
  BY <1>1, <1>2, <1>6, <1>7, WriteKeepsCalendar
<1>9. InTurn' /\ \A p \in Requests : CreateFresh(p)' /\ StatusFresh(p)' /\ ExtendFresh(p)'
  <2>1. \A p \in Requests \ {q} : req'[p] = req[p]
    BY OthersWait DEF Step, BookingStep
  <2>2. Served(q) /\ req[q].op = "create" /\ Settled(q)
    BY <1>1, <1>2 DEF Settled, At
  <2>3. QED
    BY <1>1, <1>6, <2>1, <2>2, WriterAlone DEF CalendarOps
<1>10. QED
  BY <1>8, <1>9 DEF CalendarInv

\* UPDATE bookings SET status: the move is allowed from the status the row still has.
LEMMA StatusKeepsCalendar ==
    ASSUME TypeOK, TypeOK', CalendarInv, NEW q \in Requests, StatusWrite(q)
    PROVE  CalendarInv'
<1>1. At(q, "status", "write") /\ billedHours' = billedHours /\ Goto(q, "log")
  BY DEF StatusWrite
<1>a. PICK b \in BookingIds, to \in BookingStatus : req[q].booking = b /\ req[q].to = to
  BY <1>1 DEF At, TypeOK, BookingRequest, HousekeepingRequest, RoomDeskRequest, Served, Idle
<1>2. /\ booking[b] \in BookingRow /\ booking[b].room = req[q].room
      /\ to \in AllowedTransitions[booking[b].status]
  BY <1>1, <1>a DEF CalendarInv, StatusFresh, TypeOK
<1>3. PICK now \in Departures :
        /\ booking'[b] = [booking[b] EXCEPT !.status = to,
                            !.actualCheckOut = IF to = "CHECKED_OUT" THEN now ELSE @]
        /\ \A c \in BookingIds \ {b} : booking'[c] = booking[c]
  BY <1>a, <1>2 DEF StatusWrite, TypeOK
<1>4. /\ booking'[b].status = to /\ booking'[b].room = booking[b].room
      /\ booking'[b].checkIn = booking[b].checkIn /\ booking'[b].checkOut = booking[b].checkOut
      /\ booking'[b].actualCheckOut =
            IF to = "CHECKED_OUT" THEN now ELSE booking[b].actualCheckOut
      /\ booking'[b] # NoRow
  BY <1>2, <1>3 DEF BookingRow, NoRow
<1>5. \/ booking[b].status = "CONFIRMED" /\ to = "CHECKED_IN"
      \/ to \in Terminal /\ booking[b].status \in ActiveBooking
  BY <1>2 DEF CalendarInv, RowSound, AllowedTransitions, BookingRow, BookingStatus, Terminal,
              ActiveBooking
<1>6. RowSound(b)'
  BY <1>1, <1>2, <1>4, <1>5 DEF CalendarInv, RowSound, Terminal, ActiveBooking, EffectiveCheckOut
<1>7. to \in ActiveBooking =>
         /\ VacantIn(booking'[b].room, b, booking'[b].checkIn, EffectiveCheckOut(booking'[b]))
         /\ EffectiveCheckOut(booking'[b]) = booking'[b].checkOut + billedHours'[b]
  <2> SUFFICES ASSUME to = "CHECKED_IN", booking[b].status = "CONFIRMED"
               PROVE  /\ VacantIn(booking'[b].room, b, booking'[b].checkIn,
                                  EffectiveCheckOut(booking'[b]))
                      /\ EffectiveCheckOut(booking'[b]) = booking'[b].checkOut + billedHours'[b]
    BY <1>5 DEF Terminal, ActiveBooking
  <2>1. b \in ActiveIn(booking[b].room) /\ booking[b].room \in Rooms
    BY <1>2 DEF ActiveIn, BookedIn, ActiveBooking, NoRow, BookingRow
  <2>2. EffectiveCheckOut(booking'[b]) = EffectiveCheckOut(booking[b])
    BY <1>4 DEF EffectiveCheckOut
  <2>3. VacantIn(booking[b].room, b, booking[b].checkIn, EffectiveCheckOut(booking[b]))
    BY <2>1 DEF CalendarInv, NoDoubleBooking, VacantIn
  <2>4. EffectiveCheckOut(booking[b]) = booking[b].checkOut + billedHours[b]
    BY <2>1, ActiveType DEF CalendarInv, RowSound, EffectiveCheckOut
  <2>5. QED
    BY <1>1, <1>4, <2>2, <2>3, <2>4
<1>8. (\A c \in BookingIds : RowSound(c)') /\ NoDoubleBooking' /\ ExtensionsAddUp'
  BY <1>1, <1>2, <1>3, <1>4, <1>6, <1>7, WriteKeepsCalendar DEF ActiveBooking
<1>9. InTurn' /\ \A p \in Requests : CreateFresh(p)' /\ StatusFresh(p)' /\ ExtendFresh(p)'
  <2>1. \A p \in Requests \ {q} : req'[p] = req[p]
    BY OthersWait DEF Step, BookingStep
  <2>2. Served(q) /\ req[q].op = "status" /\ Settled(q)
    BY <1>1, GotoKeeps DEF Settled, At
  <2>3. QED
    BY <1>2, <1>3, <1>4, <2>1, <2>2, WriterAlone DEF CalendarOps
<1>10. QED
  BY <1>8, <1>9 DEF CalendarInv

\* The transaction of an extension: the stay grows by what is billed, into vacant time.
LEMMA ExtendKeepsCalendar ==
    ASSUME TypeOK, TypeOK', CalendarInv, NEW q \in Requests, ExtendWrite(q)
    PROVE  CalendarInv'
<1>1. At(q, "extend", "write") /\ Answer(q)
  BY DEF ExtendWrite
<1>a. PICK b \in BookingIds : req[q].booking = b
  BY <1>1, ExtendFields DEF At
<1>2. /\ booking[b] \in BookingRow /\ booking[b].room = req[q].room
      /\ booking[b].status = "CHECKED_IN"
      /\ EffectiveCheckOut(booking[b]) = req[q].effectiveCheckOut
      /\ req[q].newCheckOut = req[q].effectiveCheckOut + req[q].hours
      /\ req[q].newCheckOut \in Int /\ req[q].effectiveCheckOut \in Int
      /\ req[q].hours \in Nat \ {0}
      /\ VacantIn(req[q].room, b, booking[b].checkIn, req[q].newCheckOut)
  BY <1>1, <1>a, ExtendFields DEF CalendarInv, ExtendFresh, At, TypeOK
<1>3. /\ booking'[b] = [booking[b] EXCEPT !.actualCheckOut = req[q].newCheckOut]
      /\ billedHours'[b] = billedHours[b] + req[q].hours
      /\ \A c \in BookingIds \ {b} : booking'[c] = booking[c] /\ billedHours'[c] = billedHours[c]
  BY <1>a, <1>2 DEF ExtendWrite, TypeOK
<1>4. /\ booking'[b].status = "CHECKED_IN" /\ booking'[b].room = booking[b].room
      /\ booking'[b].checkIn = booking[b].checkIn /\ booking'[b].checkOut = booking[b].checkOut
      /\ booking'[b].actualCheckOut = req[q].newCheckOut /\ booking'[b] # NoRow
  BY <1>2, <1>3 DEF BookingRow, NoRow
<1>5. EffectiveCheckOut(booking'[b]) = req[q].newCheckOut
  BY <1>2, <1>4, NullAssumption DEF EffectiveCheckOut
<1>6. b \in ActiveIn(booking[b].room)
  BY <1>2 DEF ActiveIn, BookedIn, ActiveBooking, NoRow, BookingRow
<1>7. RowSound(b)'
  <2>1. booking[b].checkIn < req[q].effectiveCheckOut /\ booking[b].checkIn \in Int
    BY <1>2, <1>6, ActiveType DEF CalendarInv, RowSound
  <2>2. QED
    BY <1>2, <1>4, <1>5, <2>1 DEF RowSound, ActiveBooking, EffectiveCheckOut
<1>8. EffectiveCheckOut(booking'[b]) = booking'[b].checkOut + billedHours'[b]
  <2>1. EffectiveCheckOut(booking[b]) = booking[b].checkOut + billedHours[b]
    BY <1>2 DEF CalendarInv, ExtensionsAddUp
  <2>2. booking[b].checkOut \in Int /\ billedHours[b] \in Nat
    BY <1>2, <1>6, ActiveType DEF TypeOK
  <2>3. QED
    BY <1>2, <1>3, <1>4, <1>5, <2>1, <2>2
<1>9. (\A c \in BookingIds : RowSound(c)') /\ NoDoubleBooking' /\ ExtensionsAddUp'
  BY <1>2, <1>3, <1>4, <1>5, <1>7, <1>8, WriteKeepsCalendar
<1>10. InTurn' /\ \A p \in Requests : CreateFresh(p)' /\ StatusFresh(p)' /\ ExtendFresh(p)'
  <2>1. \A p \in Requests \ {q} : req'[p] = req[p]
    BY OthersWait DEF Step, BookingStep
  <2>2. Served(q) /\ req[q].op = "extend" /\ Settled(q)
    BY <1>1, AnswerEnds DEF Settled, At
  <2>3. QED
    BY <1>2, <1>3, <1>4, <2>1, <2>2, WriterAlone DEF CalendarOps
<1>11. QED
  BY <1>9, <1>10 DEF CalendarInv

-----------------------------------------------------------------------------
(***************************************************************************)
(* The theorems.                                                           *)
(***************************************************************************)
LEMMA CalendarInit == Init => CalendarInv
<1> SUFFICES ASSUME Init PROVE CalendarInv
  OBVIOUS
<1>1. /\ \A q \in Requests : ~Served(q)
      /\ \A b \in BookingIds : booking[b] = NoRow /\ billedHours[b] = 0
  BY DEF Init, Served
<1>2. \A b \in BookingIds : booking[b].status = "NONE"
  BY <1>1 DEF NoRow
<1>3. \A r : ActiveIn(r) = {}
  BY <1>1 DEF ActiveIn, BookedIn
<1>4. InTurn /\ \A q \in Requests : CreateFresh(q) /\ StatusFresh(q) /\ ExtendFresh(q)
  BY <1>1 DEF InTurn, CreateFresh, StatusFresh, ExtendFresh, At
<1>5. (\A b \in BookingIds : RowSound(b)) /\ ExtensionsAddUp
  BY <1>1, <1>2 DEF RowSound, ActiveBooking, ExtensionsAddUp
<1>6. NoDoubleBooking
  BY <1>3 DEF NoDoubleBooking
<1>7. QED
  BY <1>4, <1>5, <1>6 DEF CalendarInv

\* Every step of the branch is a call of one request or a change of configuration.
LEMMA CalendarStep ==
    ASSUME InTurnWithSaneBuffers, TypeOK, RowsExist, CalendarInv, [Next]_vars
    PROVE  CalendarInv'
<1>0. TypeOK'
  BY TypeStep
<1>1. ASSUME NEW q \in Requests, AsideFromCalendar(q) PROVE CalendarInv'
  <2>1. \A p \in Requests \ {q} : req'[p] = req[p]
    BY <1>1, OthersWait DEF AsideFromCalendar, Start, Step, BookingStep
  <2>2. QED
    BY <1>1, <2>1, AsideUnaffected, Bystander DEF Unaffected
<1>2. ASSUME NEW q \in Requests, BookingStart(q) PROVE CalendarInv'
  BY <1>2, CalendarRead
<1>3. ASSUME NEW q \in Requests, BookingStep(q) PROVE CalendarInv'
  BY <1>0, <1>1, <1>3, CalendarCheck, InsertKeepsCalendar, StatusKeepsCalendar,
     ExtendKeepsCalendar DEF BookingStep, AsideFromCalendar
<1>4. ASSUME UNCHANGED <<booking, billedHours, req>> PROVE CalendarInv'
  BY <1>4, Bystander DEF Unaffected
<1>5. QED
  BY <1>1, <1>2, <1>3, <1>4
     DEF Next, Start, Step, AsideFromCalendar, Assign, SetRoomBuffer, SetBranchBuffer, vars,
         calendarVars

(***************************************************************************)
(* While requests that write the calendar of one room take turns and no    *)
(* buffer is negative, what create, updateStatus and the extensions have   *)
(* read is still true when they write.                                     *)
(***************************************************************************)
THEOREM CalendarSound ==
    ASSUME InTurnWithSaneBuffers
    PROVE  Spec => []CalendarInv
<1>1. TypeOK /\ RowsExist /\ CalendarInv /\ [Next]_vars => (TypeOK /\ RowsExist /\ CalendarInv)'
  BY TypeStep, CalendarStep
<1>2. QED
  BY <1>1, TypeInit, CalendarInit, PTL DEF Spec

(***************************************************************************)
(* Then the conflict check of create and of the extensions is sufficient:  *)
(* no two active stays of a room overlap, however many rooms, bookings and *)
(* requests there are and whatever else the branch does meanwhile.         *)
(***************************************************************************)
THEOREM NeverDoubleBooked ==
    ASSUME InTurnWithSaneBuffers
    PROVE  Spec => []NoDoubleBooking
<1>1. CalendarInv => NoDoubleBooking
  BY DEF CalendarInv
<1>2. QED
  BY <1>1, CalendarSound, PTL

(***************************************************************************)
(* And every hour by which a check-out has moved was recorded as an        *)
(* extension.                                                              *)
(***************************************************************************)
THEOREM ExtensionsAccounted ==
    ASSUME InTurnWithSaneBuffers
    PROVE  Spec => []ExtensionsAddUp
<1>1. CalendarInv => ExtensionsAddUp
  BY DEF CalendarInv
<1>2. QED
  BY <1>1, CalendarSound, PTL

-----------------------------------------------------------------------------
(***************************************************************************)
(* The tables of a branch implement RoomCalendar: seen through Stays, each *)
(* step of the services reserves, prolongs or releases one stay, or none.  *)
(***************************************************************************)
Past == {b \in BookingIds : booking[b].status \in Terminal}

\* What Stays shows of one booking.
LEMMA StayOf ==
    ASSUME NEW b \in BookingIds
    PROVE  /\ booking[b].status \in ActiveBooking =>
                 Stays[b] = [room |-> booking[b].room, from |-> booking[b].checkIn,
                             until |-> EffectiveCheckOut(booking[b])]
           /\ booking[b].status \notin ActiveBooking => Stays[b] = NoRow
           /\ Stays[b] # NoRow <=> booking[b].status \in ActiveBooking
  BY DEF Stays, NoRow

LEMMA HeldIsActive ==
    Calendar!Held = {b \in BookingIds : booking[b].status \in ActiveBooking}
  BY StayOf DEF Calendar!Held

\* Vacancy on the tables is vacancy on the abstract calendar.
LEMMA VacantRefines ==
    ASSUME TypeOK, NEW r, NEW from, NEW until, NEW except, VacantIn(r, except, from, until)
    PROVE  Calendar!Vacant(r, from, until, except)
<1> SUFFICES ASSUME NEW c \in Calendar!Held \ {except}, Stays[c].room = r
             PROVE  Stays[c].until <= from \/ until <= Stays[c].from
  BY DEF Calendar!Vacant
<1>1. c \in BookingIds /\ booking[c].status \in ActiveBooking
  BY HeldIsActive
<1>2. Stays[c] = [room |-> booking[c].room, from |-> booking[c].checkIn,
                  until |-> EffectiveCheckOut(booking[c])]
  BY <1>1, StayOf
<1>3. c \in ActiveIn(r)
  BY <1>1, <1>2 DEF ActiveIn, BookedIn, NoRow, ActiveBooking
<1>4. QED
  BY <1>2, <1>3 DEF VacantIn, Apart

\* A step that writes one booking moves one stay.
LEMMA OthersStay ==
    ASSUME NEW b \in BookingIds, \A c \in BookingIds \ {b} : booking'[c] = booking[c]
    PROVE  /\ Stays' = [Stays EXCEPT ![b] = Stays'[b]]
           /\ \A c \in BookingIds \ {b} : c \in Past' <=> c \in Past
<1>1. \A c \in BookingIds \ {b} : Stays'[c] = Stays[c]
  BY DEF Stays, EffectiveCheckOut
<1>2. Stays = [c \in BookingIds |-> Stays[c]] /\ Stays' = [c \in BookingIds |-> Stays'[c]]
  BY Zenon DEF Stays
<1>3. Stays' = [Stays EXCEPT ![b] = Stays'[b]]
  <2> DEFINE old == Stays
             new == Stays'
  <2>1. /\ \A c \in BookingIds \ {b} : new[c] = old[c]
        /\ old = [c \in BookingIds |-> old[c]] /\ new = [c \in BookingIds |-> new[c]]
    BY <1>1, <1>2
  <2> HIDE DEF old, new
  <2>2. new = [old EXCEPT ![b] = new[b]]
    BY <2>1
  <2>3. QED
    BY <2>2 DEF old, new
<1>4. QED
  BY <1>3 DEF Past

-----------------------------------------------------------------------------
LEMMA CalendarInitRefines == Init => Calendar!Init
<1> SUFFICES ASSUME Init PROVE Calendar!Init
  OBVIOUS
<1>1. \A b \in BookingIds : booking[b].status = "NONE"
  BY DEF Init, NoRow
<1>2. Stays = [b \in BookingIds |-> NoRow]
  BY <1>1 DEF Stays, ActiveBooking
<1>3. {b \in BookingIds : booking[b].status \in Terminal} = {}
  BY <1>1 DEF Terminal
<1>4. QED
  BY <1>2, <1>3 DEF Calendar!Init

\* create enters a stay that is vacant.
LEMMA InsertReserves ==
    ASSUME TypeOK, CalendarInv, NEW q \in Requests, CreateInsert(q)
    PROVE  Calendar!Next
<1>1. PICK b \in BookingIds :
        /\ booking[b] = NoRow
        /\ booking'[b] = [status |-> "CONFIRMED", room |-> req[q].room,
                          checkIn |-> req[q].checkIn, checkOut |-> req[q].checkOut,
                          actualCheckOut |-> Null]
        /\ \A c \in BookingIds \ {b} : booking'[c] = booking[c]
  BY DEF CreateInsert, TypeOK
<1>2. /\ req[q].room \in Rooms /\ req[q].checkIn \in Times /\ req[q].checkOut \in Times
      /\ req[q].checkIn < req[q].checkOut
      /\ VacantIn(req[q].room, Null, req[q].checkIn, req[q].checkOut)
  BY CreateFields DEF CreateInsert, CalendarInv, CreateFresh
<1>3. b \notin Calendar!Held /\ b \notin Past /\ b \notin Past'
  BY <1>1, HeldIsActive DEF NoRow, ActiveBooking, Past, Terminal
<1>4. VacantIn(req[q].room, b, req[q].checkIn, req[q].checkOut)
  BY <1>1, <1>2, IdAssumption DEF VacantIn, ActiveIn, BookedIn
<1>5. Stays'[b] = [room |-> req[q].room, from |-> req[q].checkIn, until |-> req[q].checkOut]
  BY <1>1 DEF Stays, ActiveBooking, EffectiveCheckOut
<1>6. Stays' = [Stays EXCEPT ![b] = [room |-> req[q].room, from |-> req[q].checkIn,
                                    until |-> req[q].checkOut]]
  BY <1>1, <1>5, OthersStay
<1>7. Past' = Past
  BY <1>1, <1>3, OthersStay DEF Past
<1>8. Calendar!Reserve(b)
  BY <1>2, <1>3, <1>4, <1>6, <1>7, VacantRefines DEF Calendar!Reserve, Past
<1>9. QED
  BY <1>8 DEF Calendar!Next

\* An extension prolongs a stay into vacant time.
LEMMA ExtendProlongs ==
    ASSUME TypeOK, CalendarInv, NEW q \in Requests, ExtendWrite(q)
    PROVE  Calendar!Next
<1>1. At(q, "extend", "write")
  BY DEF ExtendWrite
<1>2. PICK b \in BookingIds : req[q].booking = b
  BY <1>1, ExtendFields DEF At
<1>3. /\ booking[b] \in BookingRow /\ booking[b].room = req[q].room
      /\ booking[b].status = "CHECKED_IN"
      /\ EffectiveCheckOut(booking[b]) < req[q].newCheckOut
      /\ req[q].newCheckOut \in Times
      /\ VacantIn(req[q].room, b, booking[b].checkIn, req[q].newCheckOut)
  BY <1>1, <1>2, ExtendFields DEF CalendarInv, ExtendFresh, At, TypeOK
<1>4. /\ booking'[b] = [booking[b] EXCEPT !.actualCheckOut = req[q].newCheckOut]
      /\ \A c \in BookingIds \ {b} : booking'[c] = booking[c]
  BY <1>2, <1>3 DEF ExtendWrite, TypeOK
<1>5. /\ booking'[b].status = "CHECKED_IN" /\ booking'[b].room = booking[b].room
      /\ booking'[b].checkIn = booking[b].checkIn
      /\ booking'[b].actualCheckOut = req[q].newCheckOut
  BY <1>3, <1>4 DEF BookingRow
<1>6. Stays[b] = [room |-> booking[b].room, from |-> booking[b].checkIn,
                  until |-> EffectiveCheckOut(booking[b])]
  BY <1>3, StayOf DEF ActiveBooking
<1>7. req[q].newCheckOut \in Int
  BY <1>3, TimesAssumption
<1>8. Stays'[b] = [room |-> booking[b].room, from |-> booking[b].checkIn,
                   until |-> req[q].newCheckOut]
  BY <1>5, <1>7, NullAssumption DEF Stays, ActiveBooking, EffectiveCheckOut
<1>9. Stays' = [Stays EXCEPT ![b].until = req[q].newCheckOut]
  <2>1. [Stays[b] EXCEPT !.until = req[q].newCheckOut] = Stays'[b]
    BY <1>6, <1>8
  <2>2. QED
    BY <1>4, <2>1, OthersStay
<1>10. Past' = Past
  BY <1>3, <1>4, <1>5, OthersStay DEF Past, Terminal
<1>11. b \in Calendar!Held
  BY <1>3, HeldIsActive DEF ActiveBooking
<1>12. Calendar!Prolong(b)
  <2>1. Calendar!Vacant(booking[b].room, booking[b].checkIn, req[q].newCheckOut, b)
    BY <1>3, VacantRefines
  <2>2. Stays[b].room = booking[b].room /\ Stays[b].from = booking[b].checkIn
          /\ req[q].newCheckOut > Stays[b].until
    BY <1>3, <1>6, <1>7, ActiveType DEF ActiveIn, BookedIn, NoRow, ActiveBooking
  <2>3. QED
    BY <1>3, <1>9, <1>10, <1>11, <2>1, <2>2 DEF Calendar!Prolong, Past
<1>13. QED
  BY <1>12 DEF Calendar!Next

\* A change of status releases a stay, or leaves the calendar alone.
LEMMA StatusReleases ==
    ASSUME TypeOK, CalendarInv, NEW q \in Requests, StatusWrite(q)
    PROVE  Calendar!Next \/ UNCHANGED <<Stays, Past>>
<1>1. At(q, "status", "write")
  BY DEF StatusWrite
<1>2. PICK b \in BookingIds, to \in BookingStatus : req[q].booking = b /\ req[q].to = to
  BY <1>1 DEF At, TypeOK, BookingRequest, HousekeepingRequest, RoomDeskRequest, Served, Idle
<1>3. booking[b] \in BookingRow /\ to \in AllowedTransitions[booking[b].status]
  BY <1>1, <1>2 DEF CalendarInv, StatusFresh, TypeOK
<1>4. PICK now \in Departures :
        /\ booking'[b] = [booking[b] EXCEPT !.status = to,
                            !.actualCheckOut = IF to = "CHECKED_OUT" THEN now ELSE @]
        /\ \A c \in BookingIds \ {b} : booking'[c] = booking[c]
  BY <1>2, <1>3 DEF StatusWrite, TypeOK
<1>5. /\ booking'[b].status = to /\ booking'[b].room = booking[b].room
      /\ booking'[b].checkIn = booking[b].checkIn /\ booking'[b].checkOut = booking[b].checkOut
      /\ to # "CHECKED_OUT" => booking'[b].actualCheckOut = booking[b].actualCheckOut
  BY <1>3, <1>4 DEF BookingRow
<1>6. \/ booking[b].status = "CONFIRMED" /\ to = "CHECKED_IN"
      \/ to \in Terminal /\ booking[b].status \in ActiveBooking
  BY <1>3 DEF CalendarInv, RowSound, AllowedTransitions, BookingRow, BookingStatus, Terminal,
              ActiveBooking
<1>7. CASE to = "CHECKED_IN" /\ booking[b].status = "CONFIRMED"
  <2>1. Stays'[b] = Stays[b]
    BY <1>5, <1>7 DEF Stays, ActiveBooking, EffectiveCheckOut
  <2>2. Stays' = Stays
    <3>1. \A c \in BookingIds \ {b} : Stays'[c] = Stays[c]
      BY <1>4 DEF Stays, EffectiveCheckOut
    <3>2. \A c \in BookingIds : Stays'[c] = Stays[c]
      BY <2>1, <3>1
    <3>3. QED
      BY <3>2 DEF Stays
  <2>3. Past' = Past
    BY <1>4, <1>5, <1>7, OthersStay DEF Past, Terminal
  <2>4. QED
    BY <2>2, <2>3
<1>8. CASE to \in Terminal /\ booking[b].status \in ActiveBooking
  <2>1. Stays'[b] = NoRow
    BY <1>5, <1>8 DEF Stays, ActiveBooking, Terminal
  <2>2. Stays' = [Stays EXCEPT ![b] = NoRow]
    BY <1>4, <2>1, OthersStay
  <2>3. Past' = Past \cup {b}
    BY <1>4, <1>5, <1>8, OthersStay DEF Past
  <2>4. b \in Calendar!Held
    BY <1>8, HeldIsActive
  <2>5. Calendar!Release(b)
    BY <2>2, <2>3, <2>4 DEF Calendar!Release, Past
  <2>6. QED
    BY <2>5 DEF Calendar!Next
<1>9. QED
  BY <1>6, <1>7, <1>8

LEMMA CalendarStepRefines ==
    ASSUME TypeOK, CalendarInv, [Next]_vars
    PROVE  Calendar!Next \/ UNCHANGED <<Stays, Past>>
<1>1. ASSUME UNCHANGED booking PROVE UNCHANGED <<Stays, Past>>
  BY <1>1 DEF Stays, Past, EffectiveCheckOut
<1>2. ASSUME NEW q \in Requests, BookingStep(q)
      PROVE  Calendar!Next \/ UNCHANGED <<Stays, Past>>
  BY <1>1, <1>2, InsertReserves, ExtendProlongs, StatusReleases, AsideUnaffected
     DEF BookingStep, AsideFromCalendar, CreateCheck, ExtendCheck, calendarVars
<1>3. ASSUME NEW q \in Requests, BookingStart(q) PROVE UNCHANGED booking
  BY <1>3 DEF BookingStart, CreateRead, StatusRead, ExtendRead, calendarVars
<1>4. ASSUME NEW q \in Requests,
             \/ HousekeepingStart(q) \/ HousekeepingStep(q)
             \/ RoomDeskStart(q) \/ RoomDeskStep(q) \/ Fail(q)
      PROVE  UNCHANGED booking
  BY <1>4, AsideUnaffected DEF AsideFromCalendar
<1>5. QED
  BY <1>1, <1>2, <1>3, <1>4
     DEF Next, Start, Step, Assign, SetRoomBuffer, SetBranchBuffer, vars, calendarVars

(***************************************************************************)
(* Every write of the services to bookings is a step of RoomCalendar: a    *)
(* reservation or an extension of a vacant interval, or a departure for    *)
(* good, provided requests for the calendar of one room take turns and no  *)
(* buffer is negative.                                                     *)
(***************************************************************************)
THEOREM ImplementsRoomCalendar ==
    ASSUME InTurnWithSaneBuffers
    PROVE  Spec => CalendarRefined
<1>1. TypeOK /\ RowsExist /\ CalendarInv /\ [Next]_vars => (TypeOK /\ RowsExist /\ CalendarInv)'
  BY TypeStep, CalendarStep
<1>2. TypeOK /\ RowsExist /\ CalendarInv /\ [Next]_vars =>
         [Calendar!Next]_<<Stays, {b \in BookingIds : booking[b].status \in Terminal}>>
  BY CalendarStepRefines DEF Past
<1>3. QED
  BY <1>1, <1>2, TypeInit, CalendarInit, CalendarInitRefines, PTL
     DEF Spec, CalendarRefined, Calendar!Spec

-----------------------------------------------------------------------------
(***************************************************************************)
(* Time for cleaning.  The conflict check adds the hours that room and     *)
(* branch set aside to both stays it compares, so that the same argument   *)
(* as for the calendar, with these hours in it, keeps stays that far apart *)
(* as long as nobody changes them.                                         *)
(***************************************************************************)
FixedBuffers == InTurnWithSaneBuffers /\ "buffer" \notin Ops

\* The hours set aside for cleaning in room r.
Hours(r) == BufferHours(room[r].buffer, branchBuffer)

\* From from until the room is clean after until, no active stay of r but except's has it.
RoomyIn(r, except, from, until) ==
    \A c \in ActiveIn(r) \ {except} :
        Apart(from, until + Hours(r), booking[c].checkIn, OccupiedUntil(booking[c], Hours(r)))

\* The hours request q has read are those of the room, and what it has checked is so.
HoursFresh(q) ==
    /\ \/ At(q, "create", "check") \/ At(q, "create", "insert")
       \/ Served(q) /\ req[q].op = "extend"
       => req[q].buffer = Hours(req[q].room)
    /\ At(q, "create", "insert") =>
          RoomyIn(req[q].room, Null, req[q].checkIn, req[q].checkOut)
    /\ At(q, "extend", "write") =>
          RoomyIn(req[q].room, req[q].booking, booking[req[q].booking].checkIn,
                  req[q].newCheckOut)

TurnaroundInv == TurnaroundKept /\ \A q \in Requests : HoursFresh(q)

LEMMA HoursNat ==
    ASSUME FixedBuffers, TypeOK, NEW r \in Rooms
    PROVE  Hours(r) \in Nat
<1>1. room[r].buffer \in RoomBuffers /\ branchBuffer \in BranchBuffers
  BY DEF TypeOK, RoomRow
<1>2. QED
  BY <1>1, BufferNat DEF Hours, FixedBuffers

LEMMA HoursStay ==
    ASSUME FixedBuffers, TypeOK, [Next]_vars, NEW r \in Rooms
    PROVE  Hours(r)' = Hours(r)
<1>0. /\ room \in [Rooms -> RoomRow]
      /\ \A s \in Rooms : room[s] \in [status: RoomStatus, deleted: BOOLEAN, buffer: RoomBuffers]
  BY DEF TypeOK, RoomRow
<1>a. ASSUME NEW s, NEW to, SetRoomStatus(s, to), UNCHANGED branchBuffer
      PROVE  Hours(r)' = Hours(r)
  BY <1>0, <1>a DEF SetRoomStatus, Hours
<1>b. ASSUME UNCHANGED <<room, branchBuffer>> PROVE Hours(r)' = Hours(r)
  BY <1>b DEF Hours
<1>1. ASSUME NEW q \in Requests, BookingStart(q) \/ BookingStep(q) PROVE Hours(r)' = Hours(r)
  BY <1>1, <1>a, <1>b
     DEF BookingStart, BookingStep, CreateRead, StatusRead, ExtendRead, CreateCheck,
         CreateInsert, CreateLog, StatusWrite, StatusLog, StatusOthers, StatusRoom,
         StatusRoomLog, TaskFind, TaskPick, TaskOrder, ExtendCheck, ExtendWrite
<1>2. ASSUME NEW q \in Requests, HousekeepingStart(q) \/ HousekeepingStep(q)
      PROVE  Hours(r)' = Hours(r)
  BY <1>2, <1>a, <1>b
     DEF HousekeepingStart, HousekeepingStep, TaskRead, CleanRead, TaskDispatch, TaskInsert,
         MarkRead, MarkRoom, MarkRoomLog, CleanWrite, ReleaseRead, ReleaseRoom, ReleaseRoomLog
<1>3. ASSUME NEW q \in Requests, RoomDeskStart(q) \/ RoomDeskStep(q) PROVE Hours(r)' = Hours(r)
  <2>1. CASE ArchiveWrite(q)
    BY <1>0, <2>1 DEF ArchiveWrite, Hours
  <2>2. QED
    BY <1>3, <1>a, <1>b, <2>1
       DEF RoomDeskStart, RoomDeskStep, ManualRead, ManualWrite, ManualLog, ArchiveRead,
           ArchiveCount
<1>4. QED
  BY <1>1, <1>2, <1>3, <1>b
     DEF Next, Start, Step, Fail, Assign, SetRoomBuffer, SetBranchBuffer, FixedBuffers, vars

\* A check that found nothing leaves the window, cleaning included, to the request.
LEMMA NoConflictMeansRoomy ==
    ASSUME TypeOK, NEW r \in Rooms, NEW except, NEW from \in Int, NEW until \in Int,
           Hours(r) \in Nat, ~Conflicts(r, except, from, until, Hours(r))
    PROVE  RoomyIn(r, except, from, until)
<1> DEFINE h == Hours(r)
<1> SUFFICES ASSUME NEW c \in ActiveIn(r) \ {except}
             PROVE  Apart(from, until + h, booking[c].checkIn, OccupiedUntil(booking[c], h))
  BY DEF RoomyIn
<1> DEFINE start == booking[c].checkIn
           end   == EffectiveCheckOut(booking[c])
<1>1. start \in Int /\ end \in Int
  BY ActiveType
<1>2. OccupiedUntil(Asked(until), h) = until + h /\ OccupiedUntil(booking[c], h) = end + h
  BY DEF OccupiedUntil, Asked, EffectiveCheckOut
<1>3. start < until + h => c \in ConflictCandidates(r, until, h) \ {except}
  BY <1>2 DEF ConflictCandidates
<1>4. start < until + h => ~(end + h > from)
  BY <1>2, <1>3 DEF Conflicts, HasOccupancyConflict
<1> HIDE DEF start, end, h
<1>5. h \in Nat
  BY DEF h
<1>6. Apart(from, until + h, start, end + h)
  BY <1>1, <1>4, <1>5 DEF Apart
<1>7. QED
  BY <1>2, <1>6 DEF start

LEMMA SettledHours == ASSUME NEW q \in Requests, Settled(q) PROVE HoursFresh(q)'
  BY DEF Settled, HoursFresh, At, CalendarOps

\* A step that writes no booking, with every moved request fresh.
LEMMA ReaderKeepsTurnaround ==
    ASSUME TypeOK, TurnaroundInv, UNCHANGED booking, \A r \in Rooms : Hours(r)' = Hours(r),
           \A p \in Requests : req'[p] = req[p] \/ HoursFresh(p)'
    PROVE  TurnaroundInv'
<1>1. TurnaroundKept'
  BY DEF TurnaroundInv, TurnaroundKept, Hours, Apart, OccupiedUntil, EffectiveCheckOut, ActiveIn,
         BookedIn
<1>2. ASSUME NEW p \in Requests, req'[p] = req[p] PROVE HoursFresh(p)'
  <2>1. CASE At(p, "create", "check") \/ At(p, "create", "insert")
    <3>1. PICK r \in Rooms : r = req[p].room
      BY <2>1, CreateFields
    <3>2. Hours(r)' = Hours(r) /\ HoursFresh(p)
      BY <1>2 DEF TurnaroundInv
    <3>3. QED
      BY <1>2, <2>1, <3>1, <3>2 DEF HoursFresh, At, Served, RoomyIn, Apart, OccupiedUntil,
                              EffectiveCheckOut, ActiveIn, BookedIn
  <2>2. CASE Served(p) /\ req[p].op = "extend"
    <3>1. PICK r \in Rooms : r = req[p].room
      BY <2>2, ExtendFields
    <3>2. Hours(r)' = Hours(r) /\ HoursFresh(p)
      BY <1>2 DEF TurnaroundInv
    <3>3. QED
      BY <1>2, <2>2, <3>1, <3>2 DEF HoursFresh, At, Served, RoomyIn, Apart, OccupiedUntil,
                              EffectiveCheckOut, ActiveIn, BookedIn
  <2>3. QED
    BY <1>2, <2>1, <2>2 DEF HoursFresh, At, Served
<1>3. QED
  BY <1>1, <1>2 DEF TurnaroundInv

LEMMA TurnaroundRead ==
    ASSUME TypeOK, NEW q \in Requests, BookingStart(q)
    PROVE  HoursFresh(q)' /\ UNCHANGED booking
<1>1. CASE CreateRead(q)
  <2>1. PICK r \in Rooms, checkIn \in Times, checkOut \in Times :
           req'[q] = [op |-> "create", pc |-> "check", room |-> r,
                      checkIn |-> checkIn, checkOut |-> checkOut,
                      buffer |-> BufferHours(room[r].buffer, branchBuffer)]
    BY <1>1 DEF CreateRead, TypeOK
  <2>2. UNCHANGED <<booking, room, branchBuffer>>
    BY <1>1 DEF CreateRead, calendarVars
  <2>3. QED
    BY <2>1, <2>2 DEF HoursFresh, Hours, At
<1>2. CASE StatusRead(q)
  <2>1. req'[q].op = "status" /\ UNCHANGED booking
    BY <1>2 DEF StatusRead, TypeOK, calendarVars
  <2>2. QED
    BY <2>1 DEF HoursFresh, At
<1>3. CASE ExtendRead(q)
  <2>1. PICK b \in BookingIds, hours \in ExtraHours :
           req'[q] = [op |-> "extend", pc |-> "check", room |-> booking[b].room,
                      booking |-> b, hours |-> hours,
                      effectiveCheckOut |-> EffectiveCheckOut(booking[b]),
                      newCheckOut |-> EffectiveCheckOut(booking[b]) + hours,
                      buffer |-> BufferHours(room[booking[b].room].buffer, branchBuffer)]
    BY <1>3 DEF ExtendRead, TypeOK
  <2>2. UNCHANGED <<booking, room, branchBuffer>>
    BY <1>3 DEF ExtendRead, calendarVars
  <2>3. QED
    BY <2>1, <2>2 DEF HoursFresh, Hours, At
<1>4. QED
  BY <1>1, <1>2, <1>3 DEF BookingStart

\* The checks: for an extension, the part of the stay that is not new is roomy already.
LEMMA TurnaroundCheck ==
    ASSUME FixedBuffers, TypeOK, CalendarInv, TurnaroundInv, [Next]_vars,
           NEW q \in Requests, CreateCheck(q) \/ ExtendCheck(q)
    PROVE  HoursFresh(q)'
<1>0. UNCHANGED booking /\ HoursFresh(q)
  BY DEF CreateCheck, ExtendCheck, calendarVars, TurnaroundInv
<1>1. ASSUME Answer(q) PROVE HoursFresh(q)'
  BY <1>1, AnswerEnds, SettledHours DEF Settled
<1>2. CASE CreateCheck(q) /\ ~Answer(q)
  <2>1. /\ At(q, "create", "check")
        /\ ~Conflicts(req[q].room, Null, req[q].checkIn, req[q].checkOut, req[q].buffer)
        /\ Goto(q, "insert")
    BY <1>2 DEF CreateCheck
  <2>a. PICK r \in Rooms, in \in Int, out \in Int :
           r = req[q].room /\ in = req[q].checkIn /\ out = req[q].checkOut
    BY <2>1, CreateFields
  <2>2. req[q].buffer = Hours(r)
    BY <1>0, <2>1, <2>a DEF HoursFresh
  <2>3. Hours(r) \in Nat /\ Hours(r)' = Hours(r)
    BY HoursNat, HoursStay
  <2>4. RoomyIn(r, Null, in, out)
    BY <2>1, <2>a, <2>2, <2>3, NoConflictMeansRoomy
  <2>5. req'[q] = [req[q] EXCEPT !.pc = "insert"]
    BY <2>1 DEF Goto, TypeOK
  <2>6. /\ req'[q].op = "create" /\ req'[q].room = r
        /\ req'[q].checkIn = in /\ req'[q].checkOut = out
        /\ req'[q].buffer = req[q].buffer
    BY <2>1, <2>a, <2>5, CreateFields
  <2>7. RoomyIn(r, Null, in, out)'
    BY <1>0, <2>3, <2>4
       DEF RoomyIn, Apart, OccupiedUntil, EffectiveCheckOut, ActiveIn, BookedIn
  <2>8. QED
    BY <2>2, <2>3, <2>6, <2>7 DEF HoursFresh, At
<1>3. CASE ExtendCheck(q) /\ ~Answer(q)
  <2>1. /\ At(q, "extend", "check") /\ Served(q) /\ req[q].op = "extend"
        /\ ~Conflicts(req[q].room, req[q].booking, req[q].effectiveCheckOut,
                      req[q].newCheckOut, req[q].buffer)
        /\ Goto(q, "write")
    BY <1>3 DEF ExtendCheck, At
  <2>a. PICK r \in Rooms : r = req[q].room
    BY <2>1, ExtendFields
  <2>b. Hours(r) \in Nat /\ Hours(r)' = Hours(r)
    BY HoursNat, HoursStay
  <2>2. PICK b \in BookingIds, h \in Nat, old \in Int, new \in Int :
           /\ r = req[q].room /\ b = req[q].booking /\ h = Hours(r)
           /\ old = req[q].effectiveCheckOut /\ new = req[q].newCheckOut
    BY <2>1, <2>a, <2>b, ExtendFields
  <2>3. req[q].buffer = h /\ h \in Nat /\ Hours(r)' = h
    BY <1>0, <2>1, <2>2, <2>b DEF HoursFresh
  <2>4. /\ booking[b] # NoRow /\ booking[b].room = r /\ booking[b].status = "CHECKED_IN"
        /\ EffectiveCheckOut(booking[b]) = old /\ old < new
    BY <2>1, <2>2, ExtendFields DEF CalendarInv, ExtendFresh
  <2>5. b \in ActiveIn(r)
    BY <2>4 DEF ActiveIn, BookedIn, ActiveBooking
  <2>6. RoomyIn(r, b, old, new)
    BY <2>1, <2>2, <2>3, NoConflictMeansRoomy
  <2>7. RoomyIn(r, b, booking[b].checkIn, new)
    <3> SUFFICES ASSUME NEW c \in ActiveIn(r) \ {b}
                 PROVE  Apart(booking[b].checkIn, new + h,
                              booking[c].checkIn, OccupiedUntil(booking[c], h))
      BY <2>2 DEF RoomyIn
    <3>1. PICK start \in Int, end \in Int, from \in Int :
             /\ start = booking[c].checkIn /\ end = EffectiveCheckOut(booking[c])
             /\ from = booking[b].checkIn
      BY <2>5, ActiveType
    <3>2. Apart(old, new + h, start, end + h)
      BY <2>2, <2>6, <3>1 DEF RoomyIn, OccupiedUntil
    <3>3. Apart(from, old + h, start, end + h)
      BY <2>2, <2>4, <2>5, <3>1 DEF TurnaroundInv, TurnaroundKept, Hours, OccupiedUntil
    <3>4. start < end
      BY <3>1, ActiveType DEF CalendarInv, RowSound
    <3>5. Apart(from, new + h, start, end + h)
      BY <2>3, <2>4, <3>2, <3>3, <3>4 DEF Apart
    <3>6. QED
      BY <3>1, <3>5 DEF OccupiedUntil
  <2>8. req'[q] = [req[q] EXCEPT !.pc = "write"]
    BY <2>1 DEF Goto, TypeOK
  <2>9. /\ req'[q].op = "extend" /\ req'[q].room = r /\ req'[q].booking = b
        /\ req'[q].newCheckOut = new /\ req'[q].buffer = req[q].buffer
    BY <2>1, <2>2, <2>8, ExtendFields
  <2>10. RoomyIn(r, b, booking[b].checkIn, new)'
    BY <1>0, <2>2, <2>3, <2>7
       DEF RoomyIn, Apart, OccupiedUntil, EffectiveCheckOut, ActiveIn, BookedIn
  <2>11. QED
    BY <1>0, <2>2, <2>3, <2>9, <2>10 DEF HoursFresh, At
<1>4. QED
  BY <1>1, <1>2, <1>3

\* A write to one booking: the stay it leaves is roomy, and nobody else is in that room.
LEMMA WriteKeepsTurnaround ==
    ASSUME TypeOK, TypeOK', CalendarInv, TurnaroundInv, NEW q \in Requests, NEW b \in BookingIds,
           \A r \in Rooms : Hours(r)' = Hours(r),
           \A p \in Requests \ {q} : req'[p] = req[p],
           Served(q), req[q].op \in CalendarOps, Settled(q),
           \A c \in BookingIds \ {b} : booking'[c] = booking[c],
           booking[b] # NoRow => booking[b].room = req[q].room,
           booking'[b] # NoRow, booking'[b].room = req[q].room,
           booking'[b].status \in ActiveBooking =>
              RoomyIn(booking'[b].room, b, booking'[b].checkIn, EffectiveCheckOut(booking'[b]))
    PROVE  TurnaroundInv'
<1>1. TurnaroundKept'
  <2> SUFFICES ASSUME NEW r \in Rooms, NEW c \in ActiveIn(r)', NEW d \in ActiveIn(r)', c # d
               PROVE  Apart(booking'[c].checkIn, OccupiedUntil(booking'[c], Hours(r)),
                            booking'[d].checkIn, OccupiedUntil(booking'[d], Hours(r)))
    BY DEF TurnaroundKept, Hours, OccupiedUntil, EffectiveCheckOut
  <2>1. CASE c # b /\ d # b
    BY <2>1 DEF TurnaroundInv, TurnaroundKept, Hours, ActiveIn, BookedIn
  <2>2. CASE c = b
    <3>1. d \in ActiveIn(r) \ {b} /\ booking'[b].room = r /\ booking'[d] = booking[d]
            /\ booking'[b].status \in ActiveBooking
      BY <2>2 DEF ActiveIn, BookedIn
    <3>2. QED
      BY <2>2, <3>1 DEF RoomyIn, OccupiedUntil
  <2>3. CASE d = b
    <3>1. c \in ActiveIn(r) \ {b} /\ booking'[b].room = r /\ booking'[c] = booking[c]
            /\ booking'[b].status \in ActiveBooking
      BY <2>3 DEF ActiveIn, BookedIn
    <3>2. QED
      BY <2>3, <3>1 DEF RoomyIn, OccupiedUntil, Apart
  <2>4. QED
    BY <2>1, <2>2, <2>3
<1>2. ASSUME NEW p \in Requests, p # q PROVE HoursFresh(p)'
  <2>1. req'[p] = req[p] /\ HoursFresh(p)
    BY <1>2 DEF TurnaroundInv
  <2>2. CASE At(p, "create", "check") \/ At(p, "create", "insert")
    <3>1. PICK r \in Rooms : r = req[p].room /\ r # req[q].room
      BY <1>2, <2>2, CreateFields DEF CalendarInv, InTurn, At, CalendarOps
    <3>2. /\ Hours(r)' = Hours(r) /\ ActiveIn(r)' = ActiveIn(r)
          /\ \A c \in ActiveIn(r) : booking'[c] = booking[c]
      BY <3>1 DEF ActiveIn, BookedIn
    <3>3. QED
      BY <2>1, <2>2, <3>1, <3>2 DEF HoursFresh, At, Served, RoomyIn, Apart, OccupiedUntil,
                              EffectiveCheckOut
  <2>3. CASE Served(p) /\ req[p].op = "extend"
    <3>1. PICK r \in Rooms, d \in BookingIds :
             /\ r = req[p].room /\ r # req[q].room /\ d = req[p].booking
             /\ booking[d] # NoRow /\ booking[d].room = r
      BY <1>2, <2>3, ExtendFields DEF CalendarInv, InTurn, ExtendFresh, CalendarOps
    <3>2. /\ Hours(r)' = Hours(r) /\ ActiveIn(r)' = ActiveIn(r)
          /\ \A c \in ActiveIn(r) : booking'[c] = booking[c]
          /\ booking'[d] = booking[d]
      BY <3>1 DEF ActiveIn, BookedIn
    <3>3. QED
      BY <2>1, <2>3, <3>1, <3>2 DEF HoursFresh, At, Served, RoomyIn, Apart, OccupiedUntil,
                              EffectiveCheckOut
  <2>4. QED
    BY <2>1, <2>2, <2>3 DEF HoursFresh, At, Served
<1>3. QED
  BY <1>1, <1>2, SettledHours DEF TurnaroundInv

LEMMA TurnaroundInsert ==
    ASSUME TypeOK, TypeOK', CalendarInv, TurnaroundInv, NEW q \in Requests, CreateInsert(q),
           \A r \in Rooms : Hours(r)' = Hours(r)
    PROVE  TurnaroundInv'
<1>1. PICK b \in BookingIds :
        /\ booking[b] = NoRow
        /\ booking'[b] = [status |-> "CONFIRMED", room |-> req[q].room,
                          checkIn |-> req[q].checkIn, checkOut |-> req[q].checkOut,
                          actualCheckOut |-> Null]
        /\ \A c \in BookingIds \ {b} : booking'[c] = booking[c]
        /\ req'[q] = [op |-> "create", pc |-> "log", room |-> req[q].room, booking |-> b]
  BY DEF CreateInsert, TypeOK
<1>2. At(q, "create", "insert")
  BY DEF CreateInsert
<1>3. RoomyIn(req[q].room, Null, req[q].checkIn, req[q].checkOut)
  BY <1>2 DEF TurnaroundInv, HoursFresh
<1>4. EffectiveCheckOut(booking'[b]) = req[q].checkOut /\ booking'[b] # NoRow
  BY <1>1 DEF EffectiveCheckOut, NoRow
<1>5. RoomyIn(booking'[b].room, b, booking'[b].checkIn, EffectiveCheckOut(booking'[b]))
  BY <1>1, <1>3, <1>4, IdAssumption DEF RoomyIn, ActiveIn, BookedIn
<1>6. \A p \in Requests \ {q} : req'[p] = req[p]
  BY OthersWait DEF Step, BookingStep
<1>7. Served(q) /\ req[q].op \in CalendarOps /\ Settled(q)
  BY <1>1, <1>2 DEF Settled, At, CalendarOps
<1>8. QED
  BY <1>1, <1>4, <1>5, <1>6, <1>7, WriteKeepsTurnaround

LEMMA TurnaroundStatus ==
    ASSUME TypeOK, TypeOK', CalendarInv, TurnaroundInv, NEW q \in Requests, StatusWrite(q),
           \A r \in Rooms : Hours(r)' = Hours(r)
    PROVE  TurnaroundInv'
<1>1. At(q, "status", "write") /\ Goto(q, "log")
  BY DEF StatusWrite
<1>a. PICK b \in BookingIds, to \in BookingStatus : req[q].booking = b /\ req[q].to = to
  BY <1>1 DEF At, TypeOK, BookingRequest, HousekeepingRequest, RoomDeskRequest, Served, Idle
<1>2. /\ booking[b] \in BookingRow /\ booking[b].room = req[q].room
      /\ to \in AllowedTransitions[booking[b].status]
  BY <1>1, <1>a DEF CalendarInv, StatusFresh, TypeOK
<1>3. PICK now \in Departures :
        /\ booking'[b] = [booking[b] EXCEPT !.status = to,
                            !.actualCheckOut = IF to = "CHECKED_OUT" THEN now ELSE @]
        /\ \A c \in BookingIds \ {b} : booking'[c] = booking[c]
  BY <1>a, <1>2 DEF StatusWrite, TypeOK
<1>4. /\ booking'[b].status = to /\ booking'[b].room = booking[b].room
      /\ booking'[b].checkIn = booking[b].checkIn /\ booking'[b].checkOut = booking[b].checkOut
      /\ booking'[b].actualCheckOut =
            IF to = "CHECKED_OUT" THEN now ELSE booking[b].actualCheckOut
      /\ booking'[b] # NoRow /\ booking[b] # NoRow
  BY <1>2, <1>3 DEF BookingRow, NoRow
<1>5. \/ booking[b].status = "CONFIRMED" /\ to = "CHECKED_IN"
      \/ to \in Terminal /\ booking[b].status \in ActiveBooking
  BY <1>2 DEF CalendarInv, RowSound, AllowedTransitions, BookingRow, BookingStatus, Terminal,
              ActiveBooking
<1>6. to \in ActiveBooking =>
         RoomyIn(booking'[b].room, b, booking'[b].checkIn, EffectiveCheckOut(booking'[b]))
  <2> SUFFICES ASSUME to = "CHECKED_IN", booking[b].status = "CONFIRMED"
               PROVE  RoomyIn(booking'[b].room, b, booking'[b].checkIn,
                              EffectiveCheckOut(booking'[b]))
    BY <1>5 DEF Terminal, ActiveBooking
  <2>1. b \in ActiveIn(booking[b].room) /\ booking[b].room \in Rooms
    BY <1>2 DEF ActiveIn, BookedIn, ActiveBooking, NoRow, BookingRow
  <2>2. EffectiveCheckOut(booking'[b]) = EffectiveCheckOut(booking[b])
    BY <1>4 DEF EffectiveCheckOut
  <2>3. RoomyIn(booking[b].room, b, booking[b].checkIn, EffectiveCheckOut(booking[b]))
    BY <2>1 DEF TurnaroundInv, TurnaroundKept, RoomyIn, Hours, OccupiedUntil
  <2>4. QED
    BY <1>4, <2>2, <2>3
<1>7. \A p \in Requests \ {q} : req'[p] = req[p]
  BY OthersWait DEF Step, BookingStep
<1>8. Served(q) /\ req[q].op \in CalendarOps /\ Settled(q)
  BY <1>1, GotoKeeps DEF Settled, At, CalendarOps
<1>9. QED
  BY <1>2, <1>3, <1>4, <1>6, <1>7, <1>8, WriteKeepsTurnaround

LEMMA TurnaroundExtend ==
    ASSUME TypeOK, TypeOK', CalendarInv, TurnaroundInv, NEW q \in Requests, ExtendWrite(q),
           \A r \in Rooms : Hours(r)' = Hours(r)
    PROVE  TurnaroundInv'
<1>1. At(q, "extend", "write") /\ Answer(q)
  BY DEF ExtendWrite
<1>a. PICK b \in BookingIds : req[q].booking = b
  BY <1>1, ExtendFields DEF At
<1>2. /\ booking[b] \in BookingRow /\ booking[b].room = req[q].room
      /\ req[q].newCheckOut \in Int
      /\ RoomyIn(req[q].room, b, booking[b].checkIn, req[q].newCheckOut)
  BY <1>1, <1>a, ExtendFields DEF CalendarInv, ExtendFresh, TurnaroundInv, HoursFresh, At, TypeOK
<1>3. /\ booking'[b] = [booking[b] EXCEPT !.actualCheckOut = req[q].newCheckOut]
      /\ \A c \in BookingIds \ {b} : booking'[c] = booking[c]
  BY <1>a, <1>2 DEF ExtendWrite, TypeOK
<1>4. /\ booking'[b].room = booking[b].room /\ booking'[b].checkIn = booking[b].checkIn
      /\ booking'[b].status = booking[b].status
      /\ booking'[b].actualCheckOut = req[q].newCheckOut
      /\ booking'[b] # NoRow /\ booking[b] # NoRow
  BY <1>2, <1>3 DEF BookingRow, NoRow
<1>5. EffectiveCheckOut(booking'[b]) = req[q].newCheckOut
  BY <1>2, <1>4, NullAssumption DEF EffectiveCheckOut
<1>6. \A p \in Requests \ {q} : req'[p] = req[p]
  BY OthersWait DEF Step, BookingStep
<1>7. Served(q) /\ req[q].op \in CalendarOps /\ Settled(q)
  BY <1>1, AnswerEnds DEF Settled, At, CalendarOps
<1>8. QED
  BY <1>2, <1>3, <1>4, <1>5, <1>6, <1>7, WriteKeepsTurnaround, ZenonT(30)

LEMMA TurnaroundStep ==
    ASSUME FixedBuffers, TypeOK, RowsExist, CalendarInv, TurnaroundInv, [Next]_vars
    PROVE  TurnaroundInv'
<1>0. TypeOK' /\ \A r \in Rooms : Hours(r)' = Hours(r)
  BY TypeStep, HoursStay
<1>1. ASSUME NEW q \in Requests, AsideFromCalendar(q) PROVE TurnaroundInv'
  <2>1. \A p \in Requests \ {q} : req'[p] = req[p]
    BY <1>1, OthersWait DEF AsideFromCalendar, Start, Step, BookingStep
  <2>2. UNCHANGED booking /\ (req'[q] = req[q] \/ HoursFresh(q)')
    BY <1>1, AsideUnaffected, SettledHours DEF Unaffected
  <2>3. QED
    BY <1>0, <2>1, <2>2, ReaderKeepsTurnaround
<1>2. ASSUME NEW q \in Requests, BookingStart(q) PROVE TurnaroundInv'
  <2>1. \A p \in Requests \ {q} : req'[p] = req[p]
    BY <1>2, OthersWait DEF Start
  <2>2. QED
    BY <1>0, <1>2, <2>1, TurnaroundRead, ReaderKeepsTurnaround
<1>3. ASSUME NEW q \in Requests, CreateCheck(q) \/ ExtendCheck(q) PROVE TurnaroundInv'
  <2>1. \A p \in Requests \ {q} : req'[p] = req[p]
    BY <1>3, OthersWait DEF Step, BookingStep
  <2>2. UNCHANGED booking
    BY <1>3 DEF CreateCheck, ExtendCheck, calendarVars
  <2>3. QED
    BY <1>0, <1>3, <2>1, <2>2, TurnaroundCheck, ReaderKeepsTurnaround
<1>4. ASSUME NEW q \in Requests, BookingStep(q) PROVE TurnaroundInv'
  BY <1>0, <1>1, <1>3, <1>4, TurnaroundInsert, TurnaroundStatus, TurnaroundExtend
     DEF BookingStep, AsideFromCalendar
<1>5. ASSUME UNCHANGED <<booking, req>> PROVE TurnaroundInv'
  BY <1>0, <1>5, ReaderKeepsTurnaround
<1>6. QED
  BY <1>1, <1>2, <1>4, <1>5
     DEF Next, Start, Step, AsideFromCalendar, Assign, SetRoomBuffer, SetBranchBuffer, vars,
         calendarVars

(***************************************************************************)
(* While nobody reconfigures the hours set aside for cleaning, they lie    *)
(* between any two active stays of a room, after extensions as well, so    *)
(* that housekeeping always gets the time that the branch has set.         *)
(***************************************************************************)
THEOREM CleaningAlwaysFits ==
    ASSUME FixedBuffers
    PROVE  Spec => []TurnaroundKept
<1>1. Init => TurnaroundInv
  <2> SUFFICES ASSUME Init PROVE TurnaroundInv
    OBVIOUS
  <2>1. (\A q \in Requests : ~Served(q)) /\ \A b \in BookingIds : booking[b] = NoRow
    BY DEF Init, Served
  <2>2. \A r : ActiveIn(r) = {}
    BY <2>1 DEF ActiveIn, BookedIn
  <2>3. QED
    BY <2>1, <2>2 DEF TurnaroundInv, TurnaroundKept, HoursFresh, At
<1>2. InTurnWithSaneBuffers
  BY DEF FixedBuffers
<1>3. /\ TypeOK /\ RowsExist /\ CalendarInv /\ TurnaroundInv /\ [Next]_vars
      => (TypeOK /\ RowsExist /\ CalendarInv /\ TurnaroundInv)'
  BY <1>2, TypeStep, CalendarStep, TurnaroundStep
<1>4. TurnaroundInv => TurnaroundKept
  BY DEF TurnaroundInv
<1>5. QED
  BY <1>1, <1>3, <1>4, TypeInit, CalendarInit, PTL DEF Spec
==============================================================================
