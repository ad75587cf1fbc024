---------------------------- MODULE LodgingProofs -----------------------------
(***************************************************************************)
(* Theorems about Lodging, for all tables, horizons and clients: types,    *)
(* and the dispatch of tasks to housekeepers.                              *)
(***************************************************************************)
EXTENDS Lodging, TLAPS, FiniteSetTheorems, WellFoundedInduction

-----------------------------------------------------------------------------
(***************************************************************************)
(* The helpers of LodgingDb and Occupancy return what their callers store. *)
(***************************************************************************)

\* BufferHours is a number of hours.
LEMMA BufferType ==
    ASSUME NEW a \in RoomBuffers, NEW b \in BranchBuffers
    PROVE  BufferHours(a, b) \in Int
  BY BufferAssumption, NullAssumption DEF BufferHours

\* Every nonempty set of numbers has a least one.
LEMMA LeastNatural ==
    ASSUME NEW S \in SUBSET Nat, S # {}
    PROVE  \E n \in S : \A m \in S : n <= m
<1> DEFINE Below == {p \in Nat \X Nat : p[1] < p[2]}
<1>1. IsWellFoundedOn(Below, Nat)
  BY NatLessThanWellFounded, Zenon DEF OpToRel
<1>2. PICK n \in S : \A m \in S : <<m, n>> \notin Below
  BY <1>1, WFMin, Zenon
<1>3. ASSUME NEW m \in S PROVE n <= m
  <2>1. ASSUME m < n PROVE FALSE
    <3> DEFINE pair == <<m, n>>
    <3>1. pair \in Nat \X Nat /\ pair[1] < pair[2]
      BY <2>1
    <3> HIDE DEF pair
    <3>2. pair \in Below
      BY <3>1, Zenon
    <3>3. QED
      BY <1>2, <3>2, Zenon DEF pair
  <2>2. QED
    BY <2>1
<1>4. QED
  BY <1>3

\* A load is a number of tasks.
LEMMA LoadType == \A h : OpenLoad(h) \in Nat
<1>1. TAKE h
<1> DEFINE T == {t \in TaskIds : task[t] # NoRow /\ task[t].assignee = h
                                                 /\ task[t].status \in OpenTask}
<1>2. IsFiniteSet(T)
  BY IdAssumption, FS_Subset
<1>3. QED
  BY <1>2, FS_CardinalityType DEF OpenLoad

\* Some housekeeper is the least loaded one of the smallest id.
LEMMA LeastLoaded ==
    Housekeepers # {} =>
        \E h \in Housekeepers :
            \A g \in Housekeepers \ {h} :
                OpenLoad(h) < OpenLoad(g) \/ (OpenLoad(h) = OpenLoad(g) /\ h < g)
<1> SUFFICES ASSUME Housekeepers # {}
             PROVE  \E h \in Housekeepers :
                       \A g \in Housekeepers \ {h} :
                           OpenLoad(h) < OpenLoad(g) \/ (OpenLoad(h) = OpenLoad(g) /\ h < g)
  OBVIOUS
<1> DEFINE Loads == {OpenLoad(h) : h \in Housekeepers}
<1>1. PICK n \in Loads : \A m \in Loads : n <= m
  BY LoadType, LeastNatural
<1> DEFINE Least == {h \in Housekeepers : OpenLoad(h) = n}
<1>2. PICK h \in Least : \A g \in Least : h <= g
  BY HousekeeperAssumption, LeastNatural
<1>3. \A g \in Housekeepers \ {h} :
          OpenLoad(h) < OpenLoad(g) \/ (OpenLoad(h) = OpenLoad(g) /\ h < g)
  BY <1>1, <1>2, LoadType, HousekeeperAssumption
<1>4. QED
  BY <1>3

\* findBestHousekeeper returns a housekeeper of the branch, or null.
LEMMA BestHousekeeperType == BestHousekeeper \in Housekeepers \cup {Null}
  BY LeastLoaded, Zenon DEF BestHousekeeper

-----------------------------------------------------------------------------
(***************************************************************************)
(* Type correctness.                                                       *)
(***************************************************************************)
AnyRequest ==
    {Idle} \cup BookingRequest \cup HousekeepingRequest \cup RoomDeskRequest

\* An update of the status of a room leaves a row of the table.
LEMMA SetRoomStatusType ==
    ASSUME room \in [Rooms -> RoomRow], NEW r, NEW s \in RoomStatus,
           SetRoomStatus(r, s)
    PROVE  room' \in [Rooms -> RoomRow]
  BY DEF SetRoomStatus, RoomRow

\* The first call of a request of the reservation desk keeps the types.
LEMMA BookingStartType ==
    ASSUME TypeOK, NEW q \in Requests, BookingStart(q)
    PROVE  TypeOK'
<1> USE DEF TypeOK, BookingRequest, Admit, RoomRow, calendarVars, trailVars
<1>1. ASSUME CreateRead(q) PROVE TypeOK'
  BY <1>1, BufferType DEF CreateRead
<1>2. ASSUME StatusRead(q) PROVE TypeOK'
  BY <1>2 DEF StatusRead, BookingRow, NoRow
<1>3. ASSUME ExtendRead(q) PROVE TypeOK'
  BY <1>3, BufferType DEF ExtendRead, BookingRow, NoRow, EffectiveCheckOut
<1>4. QED
  BY <1>1, <1>2, <1>3 DEF BookingStart

\* A request that goes on has one of the shapes its module lists.
LEMMA BookingStepType ==
    ASSUME TypeOK, RowsExist, NEW q \in Requests, BookingStep(q)
    PROVE  TypeOK'
<1> USE DEF TypeOK, At, Served, Idle, Goto, Answer, calendarVars, trailVars
<1>0. req[q] \in AnyRequest
  BY DEF AnyRequest
<1> USE DEF BookingRequest, HousekeepingRequest, RoomDeskRequest
<1>1. ASSUME CreateCheck(q) PROVE TypeOK'
  BY <1>1 DEF CreateCheck
<1>2. ASSUME CreateInsert(q) PROVE TypeOK'
  BY <1>2 DEF CreateInsert, BookingRow, BookingStatus
<1>3. ASSUME CreateLog(q) PROVE TypeOK'
  BY <1>3 DEF CreateLog, BookingStatus
<1>4. ASSUME StatusWrite(q) PROVE TypeOK'
  <2>1. booking[req[q].booking] \in BookingRow /\ req[q].to \in BookingStatus
    BY <1>4 DEF StatusWrite, RowsExist
  <2>2. booking' \in [BookingIds -> BookingRow \cup {NoRow}]
    BY <1>4, <2>1, TimesAssumption DEF StatusWrite, BookingRow
  <2>3. req' \in [Requests -> AnyRequest]
    BY <1>4 DEF StatusWrite, AnyRequest
  <2>4. QED
    BY <1>4, <2>2, <2>3 DEF StatusWrite, AnyRequest
<1>5. ASSUME StatusLog(q) PROVE TypeOK'
  BY <1>5 DEF StatusLog
<1>6. ASSUME StatusOthers(q) PROVE TypeOK'
  BY <1>6 DEF StatusOthers, AfterRoom
<1>7. ASSUME StatusRoom(q) PROVE TypeOK'
  <2>1. RoomStatusAfter(req[q].to) \in RoomStatus
    BY DEF RoomStatusAfter, RoomStatus
  <2>2. room' \in [Rooms -> RoomRow]
    BY <1>7, <2>1, SetRoomStatusType DEF StatusRoom
  <2>3. req' \in [Requests -> AnyRequest]
    BY <1>7 DEF StatusRoom, AnyRequest
  <2>4. QED
    BY <1>7, <2>2, <2>3 DEF StatusRoom, AnyRequest
<1>8. ASSUME StatusRoomLog(q) PROVE TypeOK'
  BY <1>8 DEF StatusRoomLog, LogRoomStatus, RoomStatusAfter, AfterRoom, RoomStatus
<1>9. ASSUME TaskFind(q) PROVE TypeOK'
  BY <1>9, SMTT(30) DEF TaskFind
<1>10. ASSUME TaskPick(q) PROVE TypeOK'
  BY <1>10, BestHousekeeperType DEF TaskPick
<1>11. ASSUME TaskOrder(q) PROVE TypeOK'
  BY <1>11 DEF TaskOrder, TaskRow, TaskStatus, TaskType
<1>12. ASSUME ExtendCheck(q) PROVE TypeOK'
  BY <1>12 DEF ExtendCheck
<1>13. ASSUME ExtendWrite(q) PROVE TypeOK'
  BY <1>13, TimesAssumption DEF ExtendWrite, BookingRow, NoRow
<1>14. QED
  BY <1>1, <1>2, <1>3, <1>4, <1>5, <1>6, <1>7, <1>8, <1>9, <1>10, <1>11, <1>12,
     <1>13 DEF BookingStep

\* The same for the housekeeping desk.
LEMMA HousekeepingType ==
    ASSUME TypeOK, RowsExist, NEW q \in Requests,
           HousekeepingStart(q) \/ HousekeepingStep(q)
    PROVE  TypeOK'
<1> USE DEF TypeOK, At, Served, Idle, Goto, Answer, calendarVars, trailVars
<1>0. req[q] \in AnyRequest
  BY DEF AnyRequest
<1> USE DEF BookingRequest, HousekeepingRequest, RoomDeskRequest
<1>1. ASSUME TaskRead(q) PROVE TypeOK'
  BY <1>1 DEF TaskRead, BookedIn
<1>2. ASSUME CleanRead(q) PROVE TypeOK'
  BY <1>2 DEF CleanRead, TaskRow, NoRow
<1>3. ASSUME TaskDispatch(q) PROVE TypeOK'
  BY <1>3, BestHousekeeperType DEF TaskDispatch
<1>4. ASSUME TaskInsert(q) PROVE TypeOK'
  <2>1. task' \in [TaskIds -> TaskRow \cup {NoRow}]
    BY <1>4 DEF TaskInsert, TaskRow, TaskStatus
  <2>2. req' \in [Requests -> AnyRequest]
    BY <1>4 DEF TaskInsert, AnyRequest
  <2>3. QED
    BY <1>4, <2>1, <2>2 DEF TaskInsert, AnyRequest
<1>5. ASSUME MarkRead(q) PROVE TypeOK'
  BY <1>5 DEF MarkRead
<1>6. ASSUME MarkRoom(q) PROVE TypeOK'
  <2>1. room' \in [Rooms -> RoomRow]
    BY <1>6, SetRoomStatusType DEF MarkRoom, RoomStatus
  <2>2. req' \in [Requests -> AnyRequest]
    <3>1. [req[q] EXCEPT !.pc = "roomLog"] \in AnyRequest
      BY <1>6 DEF MarkRoom, AnyRequest
    <3>2. req \in [Requests -> AnyRequest]
      BY DEF AnyRequest
    <3>3. req' = [req EXCEPT ![q] = [req[q] EXCEPT !.pc = "roomLog"]]
      BY <1>6, <3>2 DEF MarkRoom
    <3>4. QED
      BY <3>1, <3>2, <3>3, Zenon
  <2>3. QED
    BY <1>6, <2>1, <2>2 DEF MarkRoom, AnyRequest
<1>7. ASSUME MarkRoomLog(q) PROVE TypeOK'
  BY <1>7 DEF MarkRoomLog, LogRoomStatus, RoomStatus
<1>8. ASSUME CleanWrite(q) PROVE TypeOK'
  <2>1. task[req[q].task] \in TaskRow /\ req[q].to \in TaskStatus
    BY <1>8 DEF CleanWrite, RowsExist
  <2>2. task' \in [TaskIds -> TaskRow \cup {NoRow}]
    BY <1>8, <2>1 DEF CleanWrite, TaskRow
  <2>3. req' \in [Requests -> AnyRequest]
    <3>1. req[q].room \in Rooms /\ req[q].task \in TaskIds
      BY <1>8 DEF CleanWrite
    <3>2. [op |-> "clean", pc |-> "release", room |-> req[q].room,
           task |-> req[q].task, unread |-> ReleaseQueries, release |-> TRUE]
            \in AnyRequest
      BY <3>1 DEF AnyRequest
    <3>3. req \in [Requests -> AnyRequest] /\ Idle \in AnyRequest
      BY DEF AnyRequest
    <3>4. QED
      BY <1>8, <3>2, <3>3, Zenon DEF CleanWrite
  <2>4. QED
    BY <1>8, <2>2, <2>3 DEF CleanWrite, AnyRequest
<1>9. ASSUME ReleaseRead(q) PROVE TypeOK'
  BY <1>9 DEF ReleaseRead
<1>10. ASSUME ReleaseRoom(q) PROVE TypeOK'
  <2>1. room' \in [Rooms -> RoomRow]
    BY <1>10, SetRoomStatusType DEF ReleaseRoom, RoomStatus
  <2>2. req' \in [Requests -> AnyRequest]
    <3>1. [req[q] EXCEPT !.pc = "roomLog"] \in AnyRequest
      BY <1>10 DEF ReleaseRoom, AnyRequest
    <3>2. req \in [Requests -> AnyRequest]
      BY DEF AnyRequest
    <3>3. req' = [req EXCEPT ![q] = [req[q] EXCEPT !.pc = "roomLog"]]
      BY <1>10, <3>2 DEF ReleaseRoom
    <3>4. QED
      BY <3>1, <3>2, <3>3, Zenon
  <2>3. QED
    BY <1>10, <2>1, <2>2 DEF ReleaseRoom, AnyRequest
<1>11. ASSUME ReleaseRoomLog(q) PROVE TypeOK'
  BY <1>11 DEF ReleaseRoomLog, LogRoomStatus, RoomStatus
<1>12. QED
  BY <1>1, <1>2, <1>3, <1>4, <1>5, <1>6, <1>7, <1>8, <1>9, <1>10, <1>11
     DEF HousekeepingStart, HousekeepingStep

\* The same for the room administration.
LEMMA RoomDeskType ==
    ASSUME TypeOK, NEW q \in Requests, RoomDeskStart(q) \/ RoomDeskStep(q)
    PROVE  TypeOK'
<1> USE DEF TypeOK, At, Served, Idle, Goto, Answer, calendarVars, trailVars
<1>0. req[q] \in AnyRequest
  BY DEF AnyRequest
<1> USE DEF BookingRequest, HousekeepingRequest, RoomDeskRequest
<1>1. ASSUME ManualRead(q) PROVE TypeOK'
  BY <1>1 DEF ManualRead, RoomRow
<1>2. ASSUME ManualWrite(q) PROVE TypeOK'
  <2>1. req[q].to \in RoomStatus
    BY <1>2 DEF ManualWrite
  <2>2. room' \in [Rooms -> RoomRow]
    BY <1>2, <2>1, SetRoomStatusType DEF ManualWrite
  <2>3. req' \in [Requests -> AnyRequest]
    BY <1>2 DEF ManualWrite, AnyRequest
  <2>4. QED
    BY <1>2, <2>2, <2>3 DEF ManualWrite, AnyRequest
<1>3. ASSUME ManualLog(q) PROVE TypeOK'
  BY <1>3 DEF ManualLog, LogRoomStatus
<1>4. ASSUME ArchiveRead(q) PROVE TypeOK'
  BY <1>4 DEF ArchiveRead, RoomRow
<1>5. ASSUME ArchiveCount(q) PROVE TypeOK'
  BY <1>5 DEF ArchiveCount
<1>6. ASSUME ArchiveWrite(q) PROVE TypeOK'
  BY <1>6 DEF ArchiveWrite, RoomRow, RoomStatus
<1>7. QED
  BY <1>1, <1>2, <1>3, <1>4, <1>5, <1>6 DEF RoomDeskStart, RoomDeskStep

\* No row is ever deleted from bookings or housekeeping_tasks.
LEMMA RowsStay ==
    ASSUME TypeOK, RowsExist, [Next]_vars
    PROVE  /\ \A b \in BookingIds : booking[b] # NoRow => booking'[b] # NoRow
           /\ \A t \in TaskIds : task[t] # NoRow => task'[t] # NoRow
<1> DEFINE Stay ==
      /\ \A b \in BookingIds : booking[b] # NoRow => booking'[b] # NoRow
      /\ \A t \in TaskIds : task[t] # NoRow => task'[t] # NoRow
<1> USE DEF TypeOK, BookingRow, TaskRow, NoRow, calendarVars, trailVars
<1>1. ASSUME UNCHANGED <<booking, task>> PROVE Stay
  BY <1>1
<1>2. ASSUME NEW q \in Requests, BookingStart(q) PROVE Stay
  BY <1>1, <1>2 DEF BookingStart, CreateRead, StatusRead, ExtendRead
<1>3. ASSUME NEW q \in Requests, BookingStep(q) PROVE Stay
  <2>1. CASE CreateInsert(q)
    BY <2>1 DEF CreateInsert
  <2>2. CASE StatusWrite(q)
    BY <2>2 DEF StatusWrite
  <2>3. CASE TaskOrder(q)
    BY <2>3 DEF TaskOrder
  <2>4. CASE ExtendWrite(q)
    BY <2>4 DEF ExtendWrite
  <2>5. QED
    BY <1>1, <1>3, <2>1, <2>2, <2>3, <2>4
       DEF BookingStep, CreateCheck, CreateLog, StatusLog, StatusOthers, StatusRoom,
           StatusRoomLog, TaskFind, TaskPick, ExtendCheck
<1>4. ASSUME NEW q \in Requests, HousekeepingStart(q) \/ HousekeepingStep(q) PROVE Stay
  <2>1. CASE TaskInsert(q)
    BY <2>1 DEF TaskInsert
  <2>2. CASE CleanWrite(q)
    BY <2>2 DEF CleanWrite
  <2>3. QED
    BY <1>1, <1>4, <2>1, <2>2
       DEF HousekeepingStart, HousekeepingStep, TaskRead, CleanRead, TaskDispatch,
           MarkRead, MarkRoom, MarkRoomLog, ReleaseRead, ReleaseRoom, ReleaseRoomLog
<1>5. ASSUME NEW q \in Requests, RoomDeskStart(q) \/ RoomDeskStep(q) PROVE Stay
  BY <1>1, <1>5 DEF RoomDeskStart, RoomDeskStep, ManualRead, ManualWrite, ManualLog,
                    ArchiveRead, ArchiveCount, ArchiveWrite
<1>6. ASSUME NEW q \in Requests, Fail(q) PROVE Stay
  BY <1>1, <1>6 DEF Fail
<1>7. ASSUME NEW t \in TaskIds, NEW h \in Housekeepers, Assign(t, h) PROVE Stay
  BY <1>7 DEF Assign
<1>8. ASSUME \/ \E r \in Rooms, hours \in RoomBuffers : SetRoomBuffer(r, hours)
             \/ \E hours \in BranchBuffers : SetBranchBuffer(hours)
             \/ UNCHANGED vars
      PROVE  Stay
  BY <1>1, <1>8 DEF SetRoomBuffer, SetBranchBuffer, vars
<1>9. QED
  BY <1>2, <1>3, <1>4, <1>5, <1>6, <1>7, <1>8 DEF Next, Start, Step

\* A call of one request leaves the other requests where they stand.
LEMMA OthersWait ==
    ASSUME TypeOK, NEW q \in Requests, Start(q) \/ Step(q) \/ Fail(q)
    PROVE  \A p \in Requests \ {q} : req'[p] = req[p]
<1> DEFINE Wait == \A p \in Requests \ {q} : req'[p] = req[p]
<1> USE DEF TypeOK, Goto, Answer
<1>1. ASSUME BookingStart(q) PROVE Wait
  BY <1>1 DEF BookingStart, CreateRead, StatusRead, ExtendRead
<1>2. ASSUME BookingStep(q) PROVE Wait
  BY <1>2 DEF BookingStep, CreateCheck, CreateInsert, CreateLog, StatusWrite, StatusLog,
              StatusOthers, StatusRoom, StatusRoomLog, AfterRoom, TaskFind, TaskPick,
              TaskOrder, ExtendCheck, ExtendWrite
<1>3. ASSUME HousekeepingStart(q) PROVE Wait
  BY <1>3 DEF HousekeepingStart, TaskRead, CleanRead
<1>4. ASSUME HousekeepingStep(q) PROVE Wait
  BY <1>4 DEF HousekeepingStep, TaskDispatch, TaskInsert, MarkRead, MarkRoom, MarkRoomLog,
              CleanWrite, ReleaseRead, ReleaseRoom, ReleaseRoomLog
<1>5. ASSUME RoomDeskStart(q) \/ RoomDeskStep(q) PROVE Wait
  BY <1>5 DEF RoomDeskStart, RoomDeskStep, ManualRead, ManualWrite, ManualLog, ArchiveRead,
              ArchiveCount, ArchiveWrite
<1>6. ASSUME Fail(q) PROVE Wait
  BY <1>6 DEF Fail
<1>7. QED
  BY <1>1, <1>2, <1>3, <1>4, <1>5, <1>6 DEF Start, Step

\* A request that goes on to its next call keeps what it works on.
LEMMA GotoKeeps ==
    ASSUME TypeOK, NEW q \in Requests, Served(q), NEW pc, Goto(q, pc)
    PROVE  /\ Served(q)'
           /\ req'[q].op = req[q].op /\ req'[q].pc = pc /\ req'[q].room = req[q].room
           /\ req[q].op = "status" =>
                 req'[q].booking = req[q].booking /\ req'[q].to = req[q].to
  BY DEF Goto, Served, Idle, TypeOK, BookingRequest, HousekeepingRequest, RoomDeskRequest

\* A request that is answered or fails leaves a free slot.
LEMMA AnswerEnds ==
    ASSUME TypeOK, NEW q \in Requests, Answer(q)
    PROVE  ~Served(q)'
  BY DEF Answer, Served, TypeOK

\* The row a request works on was there when the request read it.
LEMMA RowKept ==
    ASSUME TypeOK, RowsExist, NEW q \in Requests, Start(q) \/ Step(q) \/ Fail(q)
    PROVE  /\ Served(q)' /\ req'[q].op = "status" => booking[req'[q].booking] # NoRow
           /\ At(q, "clean", "write")' => task[req'[q].task] # NoRow
<1> DEFINE Kept ==
      /\ Served(q)' /\ req'[q].op = "status" => booking[req'[q].booking] # NoRow
      /\ At(q, "clean", "write")' => task[req'[q].task] # NoRow
<1> USE DEF At
<1>0. req \in [Requests -> AnyRequest]
  BY DEF TypeOK, AnyRequest
<1>a. Served(q) /\ req[q].op = "status" => booking[req[q].booking] # NoRow
  BY DEF RowsExist
<1>b. ASSUME Served(q), req[q].op # "clean", NEW pc, Goto(q, pc) PROVE Kept
  BY <1>a, <1>b, GotoKeeps
<1>c. ASSUME Answer(q) PROVE Kept
  BY <1>c, AnswerEnds
<1>1. ASSUME BookingStart(q) PROVE Kept
  BY <1>0, <1>1 DEF BookingStart, CreateRead, StatusRead, ExtendRead
<1>2. ASSUME BookingStep(q) PROVE Kept
  <2>1. CASE CreateInsert(q)
    BY <1>0, <2>1 DEF CreateInsert
  <2>2. CASE TaskPick(q)
    BY <1>0, <1>a, <2>2 DEF TaskPick, AnyRequest, BookingRequest, HousekeepingRequest,
                            RoomDeskRequest, Served, Idle
  <2>3. QED
    BY <1>2, <1>b, <1>c, <2>1, <2>2
       DEF BookingStep, CreateCheck, CreateLog, StatusWrite, StatusLog, StatusOthers,
           StatusRoom, StatusRoomLog, AfterRoom, TaskFind, TaskOrder, ExtendCheck,
           ExtendWrite
<1>3. ASSUME HousekeepingStart(q) PROVE Kept
  BY <1>0, <1>3 DEF HousekeepingStart, TaskRead, CleanRead
<1>4. ASSUME HousekeepingStep(q) PROVE Kept
  <2>1. CASE TaskDispatch(q)
    BY <1>0, <2>1 DEF TaskDispatch, AnyRequest, BookingRequest, HousekeepingRequest,
                      RoomDeskRequest, Served, Idle
  <2>2. CASE CleanWrite(q)
    BY <1>0, <1>c, <2>2 DEF CleanWrite
  <2>3. CASE ReleaseRead(q)
    BY <1>0, <1>c, <2>3 DEF ReleaseRead, AnyRequest, BookingRequest, HousekeepingRequest,
                            RoomDeskRequest, Served, Idle
  <2>4. CASE ReleaseRoom(q) \/ ReleaseRoomLog(q)
    BY <1>c, <2>4, GotoKeeps DEF ReleaseRoom, ReleaseRoomLog
  <2>5. QED
    BY <1>4, <1>b, <1>c, <2>1, <2>2, <2>3, <2>4
       DEF HousekeepingStep, TaskInsert, MarkRead, MarkRoom, MarkRoomLog
<1>5. ASSUME RoomDeskStart(q) \/ RoomDeskStep(q) PROVE Kept
  BY <1>0, <1>b, <1>c, <1>5
     DEF RoomDeskStart, RoomDeskStep, ManualRead, ManualWrite, ManualLog, ArchiveRead,
         ArchiveCount, ArchiveWrite
<1>6. ASSUME Fail(q) PROVE Kept
  BY <1>c, <1>6 DEF Fail
<1>7. QED
  BY <1>1, <1>2, <1>3, <1>4, <1>5, <1>6 DEF Start, Step

(***************************************************************************)
(* The types of all tables and requests, and the existence of the rows     *)
(* that requests work on, are inductive.                                   *)
(***************************************************************************)
LEMMA TypeInit == Init => TypeOK /\ RowsExist
<1> SUFFICES ASSUME Init PROVE TypeOK /\ RowsExist
  OBVIOUS
<1>1. TypeOK
  BY DEF Init, TypeOK, RoomRow, RoomStatus, BookingStatus
<1>2. RowsExist
  BY DEF Init, RowsExist, Served, At
<1>3. QED
  BY <1>1, <1>2

LEMMA TypeStep == TypeOK /\ RowsExist /\ [Next]_vars => (TypeOK /\ RowsExist)'
<1> SUFFICES ASSUME TypeOK, RowsExist, [Next]_vars PROVE TypeOK' /\ RowsExist'
  OBVIOUS
<1>1. TypeOK'
  <2>1. ASSUME NEW q \in Requests, Start(q) \/ Step(q) PROVE TypeOK'
    BY <2>1, BookingStartType, BookingStepType, HousekeepingType, RoomDeskType DEF Start, Step
  <2>2. ASSUME NEW q \in Requests, Fail(q) PROVE TypeOK'
    BY <2>2 DEF Fail, Answer, TypeOK, calendarVars, trailVars
  <2>3. ASSUME NEW t \in TaskIds, NEW h \in Housekeepers, Assign(t, h) PROVE TypeOK'
    BY <2>3 DEF Assign, TypeOK, TaskRow, NoRow, calendarVars, trailVars
  <2>4. ASSUME NEW r \in Rooms, NEW hours \in RoomBuffers, SetRoomBuffer(r, hours) PROVE TypeOK'
    BY <2>4 DEF SetRoomBuffer, TypeOK, RoomRow, calendarVars, trailVars
  <2>5. ASSUME NEW hours \in BranchBuffers, SetBranchBuffer(hours) PROVE TypeOK'
    BY <2>5 DEF SetBranchBuffer, TypeOK, calendarVars, trailVars
  <2>6. CASE UNCHANGED vars
    BY <2>6 DEF vars, TypeOK
  <2>7. QED
    BY <2>1, <2>2, <2>3, <2>4, <2>5, <2>6 DEF Next
<1>2. RowsExist'
  <2>1. ASSUME NEW q \in Requests, Start(q) \/ Step(q) \/ Fail(q) PROVE RowsExist'
    <3>1. ASSUME NEW p \in Requests
          PROVE  /\ Served(p)' /\ req'[p].op = "status" => booking[req'[p].booking] # NoRow
                 /\ At(p, "clean", "write")' => task[req'[p].task] # NoRow
      BY <2>1, OthersWait, RowKept DEF RowsExist, Served, At
    <3>2. ASSUME NEW p \in Requests
          PROVE  /\ Served(p)' /\ req'[p].op = "status" => req'[p].booking \in BookingIds
                 /\ At(p, "clean", "write")' => req'[p].task \in TaskIds
      BY <1>1 DEF TypeOK, BookingRequest, HousekeepingRequest, RoomDeskRequest, Served, At, Idle
    <3>3. QED
      BY <3>1, <3>2, RowsStay DEF RowsExist
  <2>2. ASSUME UNCHANGED req PROVE RowsExist'
    <3>1. ASSUME NEW p \in Requests
          PROVE  /\ Served(p) /\ req[p].op = "status" => req[p].booking \in BookingIds
                 /\ At(p, "clean", "write") => req[p].task \in TaskIds
      BY DEF TypeOK, BookingRequest, HousekeepingRequest, RoomDeskRequest, Served, At, Idle
    <3>2. QED
      BY <2>2, <3>1, RowsStay DEF RowsExist, Served, At
  <2>3. QED
    BY <2>1, <2>2 DEF Next, Assign, SetRoomBuffer, SetBranchBuffer, vars
<1>3. QED
  BY <1>1, <1>2

(***************************************************************************)
(* Whatever its clients call and however their requests overlap or fail,   *)
(* the tables keep their column types, and every half-finished request     *)
(* holds values of the kind its next call needs.                           *)
(***************************************************************************)
THEOREM TypeCorrect == Spec => []TypeOK
<1>1. TypeOK /\ RowsExist => TypeOK
  OBVIOUS
<1>2. QED
  BY <1>1, TypeInit, TypeStep, PTL DEF Spec

-----------------------------------------------------------------------------
(***************************************************************************)
(* Tasks and their dispatch.                                               *)
(***************************************************************************)
\* No manager opens a task or names the housekeeper; there are so many slots.
TasksAreDispatched ==
    /\ "task" \notin Ops
    /\ "assign" \notin Ops
    /\ IsFiniteSet(Requests)

\* The endpoint of a request is one that clients call, and stays the same.
LEMMA OpKept ==
    ASSUME TypeOK, NEW q \in Requests, Start(q) \/ Step(q) \/ Fail(q), Served(q)'
    PROVE  IF Start(q) THEN req'[q].op \in Ops ELSE Served(q) /\ req'[q].op = req[q].op
<1>0. req \in [Requests -> AnyRequest]
  BY DEF TypeOK, AnyRequest
<1>1. ASSUME Start(q) PROVE req'[q].op \in Ops
  <2>1. CASE BookingStart(q)
    <3>1. CASE CreateRead(q)
      BY <1>0, <3>1 DEF CreateRead, Admit
    <3>2. CASE StatusRead(q)
      BY <1>0, <3>2 DEF StatusRead, Admit
    <3>3. CASE ExtendRead(q)
      BY <1>0, <3>3 DEF ExtendRead, Admit
    <3>4. QED
      BY <2>1, <3>1, <3>2, <3>3 DEF BookingStart
  <2>2. CASE HousekeepingStart(q)
    BY <1>0, <2>2 DEF HousekeepingStart, TaskRead, CleanRead, Admit
  <2>3. CASE RoomDeskStart(q)
    BY <1>0, <2>3 DEF RoomDeskStart, ManualRead, ArchiveRead, Admit
  <2>4. QED
    BY <1>1, <2>1, <2>2, <2>3 DEF Start
<1> USE DEF TypeOK
<1>2. ASSUME NEW pc, Served(q), Goto(q, pc) PROVE req'[q].op = req[q].op
  BY <1>2, GotoKeeps
<1>3. ~Answer(q)
  BY AnswerEnds
<1>4. ASSUME BookingStep(q) PROVE Served(q) /\ req'[q].op = req[q].op
  <2>1. CASE CreateInsert(q) \/ TaskPick(q)
    BY <2>1 DEF CreateInsert, TaskPick, At, Served, Idle, BookingRequest,
                HousekeepingRequest, RoomDeskRequest
  <2>2. QED
    BY <1>4, <1>2, <1>3, <2>1
       DEF BookingStep, CreateCheck, CreateLog, StatusWrite, StatusLog, StatusOthers,
           StatusRoom, StatusRoomLog, AfterRoom, TaskFind, TaskOrder, ExtendCheck,
           ExtendWrite, At
<1>5. ASSUME HousekeepingStep(q) PROVE Served(q) /\ req'[q].op = req[q].op
  <2>1. CASE TaskDispatch(q)
    BY <2>1 DEF TaskDispatch, At, Served, Idle, BookingRequest, HousekeepingRequest,
                RoomDeskRequest
  <2>2. CASE CleanWrite(q)
    BY <1>3, <2>2 DEF CleanWrite, At
  <2>3. CASE ReleaseRead(q)
    BY <1>3, <2>3 DEF ReleaseRead, At, Served, Idle, BookingRequest, HousekeepingRequest,
                      RoomDeskRequest
  <2>4. QED
    BY <1>5, <1>2, <1>3, <2>1, <2>2, <2>3
       DEF HousekeepingStep, TaskInsert, MarkRead, MarkRoom, MarkRoomLog, ReleaseRoom,
           ReleaseRoomLog, At
<1>6. ASSUME RoomDeskStep(q) PROVE Served(q) /\ req'[q].op = req[q].op
  BY <1>6, <1>2, <1>3
     DEF RoomDeskStep, ManualWrite, ManualLog, ArchiveCount, ArchiveWrite, At
<1>7. QED
  BY <1>1, <1>3, <1>4, <1>5, <1>6 DEF Step, Fail

\* An update of a task reads before it writes and keeps to its room.
LEMMA CleanComes ==
    ASSUME TypeOK, NEW q \in Requests, Start(q) \/ Step(q) \/ Fail(q),
           Served(q)', req'[q].op = "clean"
    PROVE  \/ CleanRead(q)
           \/ /\ Served(q) /\ req[q].op = "clean"
              /\ req'[q].room = req[q].room
              /\ req'[q].pc # "write"
<1>0. req \in [Requests -> AnyRequest]
  BY DEF TypeOK, AnyRequest
<1>1. CASE Start(q)
  <2>1. CASE BookingStart(q)
    BY <1>0, <2>1 DEF BookingStart, CreateRead, StatusRead, ExtendRead
  <2>2. CASE HousekeepingStart(q)
    BY <1>0, <2>2 DEF HousekeepingStart, TaskRead
  <2>3. CASE RoomDeskStart(q)
    BY <1>0, <2>3 DEF RoomDeskStart, ManualRead, ArchiveRead
  <2>4. QED
    BY <1>1, <2>1, <2>2, <2>3 DEF Start
<1> USE DEF TypeOK
<1>2. CASE ~Start(q)
  <2>1. Served(q) /\ req[q].op = "clean"
    BY <1>2, OpKept
  <2>2. ~Answer(q)
    BY AnswerEnds
  <2>3. CleanWrite(q) \/ ReleaseRead(q) \/ ReleaseRoom(q)
    BY <1>2, <2>1, <2>2
       DEF Step, Fail, BookingStep, HousekeepingStep, RoomDeskStep, CreateCheck, CreateInsert,
           CreateLog, StatusWrite, StatusLog, StatusOthers, StatusRoom, StatusRoomLog, TaskFind,
           TaskPick, TaskOrder, ExtendCheck, ExtendWrite, TaskDispatch, TaskInsert, MarkRead,
           MarkRoom, MarkRoomLog, ReleaseRoomLog, ManualWrite, ManualLog, ArchiveCount,
           ArchiveWrite, At
  <2>4. CASE CleanWrite(q)
    BY <2>1, <2>2, <2>4 DEF CleanWrite
  <2>5. CASE ReleaseRead(q)
    BY <2>1, <2>2, <2>5 DEF ReleaseRead, At, Served, Idle, BookingRequest,
                            HousekeepingRequest, RoomDeskRequest
  <2>6. CASE ReleaseRoom(q)
    BY <2>1, <2>6, GotoKeeps DEF ReleaseRoom
  <2>7. QED
    BY <2>1, <2>3, <2>4, <2>5, <2>6
<1>3. QED
  BY <1>1, <1>2

\* Which steps write the table of tasks.
LEMMA TaskWrites ==
    ASSUME Next
    PROVE  \/ UNCHANGED task
           \/ \E q \in Requests : TaskOrder(q) \/ TaskInsert(q) \/ CleanWrite(q)
           \/ \E t \in TaskIds, h \in Housekeepers : Assign(t, h)
<1>1. ASSUME NEW q \in Requests, BookingStart(q) PROVE UNCHANGED task
  BY <1>1 DEF BookingStart, CreateRead, StatusRead, ExtendRead
<1>2. ASSUME NEW q \in Requests, BookingStep(q) PROVE TaskOrder(q) \/ UNCHANGED task
  BY <1>2 DEF BookingStep, CreateCheck, CreateInsert, CreateLog, StatusWrite, StatusLog,
              StatusOthers, StatusRoom, StatusRoomLog, TaskFind, TaskPick, ExtendCheck,
              ExtendWrite
<1>3. ASSUME NEW q \in Requests, HousekeepingStart(q) PROVE UNCHANGED task
  BY <1>3 DEF HousekeepingStart, TaskRead, CleanRead
<1>4. ASSUME NEW q \in Requests, HousekeepingStep(q)
      PROVE  TaskInsert(q) \/ CleanWrite(q) \/ UNCHANGED task
  BY <1>4 DEF HousekeepingStep, TaskDispatch, MarkRead, MarkRoom, MarkRoomLog, ReleaseRead,
              ReleaseRoom, ReleaseRoomLog
<1>5. ASSUME NEW q \in Requests, RoomDeskStart(q) \/ RoomDeskStep(q) PROVE UNCHANGED task
  BY <1>5 DEF RoomDeskStart, RoomDeskStep, ManualRead, ManualWrite, ManualLog, ArchiveRead,
              ArchiveCount, ArchiveWrite
<1>6. ASSUME \/ \E q \in Requests : Fail(q)
             \/ \E r \in Rooms, hours \in RoomBuffers : SetRoomBuffer(r, hours)
             \/ \E hours \in BranchBuffers : SetBranchBuffer(hours)
      PROVE  UNCHANGED task
  BY <1>6 DEF Fail, SetRoomBuffer, SetBranchBuffer
<1>7. CASE \E q \in Requests : Start(q) \/ Step(q)
  <2>1. PICK q \in Requests : Start(q) \/ Step(q)
    BY <1>7
  <2>2. UNCHANGED task \/ TaskOrder(q) \/ TaskInsert(q) \/ CleanWrite(q)
    BY <2>1, <1>1, <1>2, <1>3, <1>4, <1>5 DEF Start, Step
  <2>3. QED
    BY <2>2, Zenon
<1>8. QED
  BY <1>6, <1>7, Zenon DEF Next

\* An update that is about to write has read its task open, now or earlier.
LEMMA WriterComes ==
    ASSUME TypeOK, Next, NEW q \in Requests, At(q, "clean", "write")'
    PROVE  \/ At(q, "clean", "write") /\ req'[q] = req[q]
           \/ /\ UNCHANGED task
              /\ task[req'[q].task].status \in OpenTask
<1>0. /\ req \in [Requests -> AnyRequest]
      /\ task \in [TaskIds -> TaskRow \cup {NoRow}]
  BY DEF TypeOK, AnyRequest
<1>1. CASE UNCHANGED req
  BY <1>1 DEF At, Served
<1>2. ASSUME NEW x \in Requests \ {q}, Start(x) \/ Step(x) \/ Fail(x)
      PROVE  At(q, "clean", "write") /\ req'[q] = req[q]
  BY <1>2, OthersWait DEF At, Served
<1>3. ASSUME Start(q) \/ Step(q) \/ Fail(q)
      PROVE  UNCHANGED task /\ task[req'[q].task].status \in OpenTask
  <2>1. CleanRead(q)
    BY <1>3, CleanComes DEF At
  <2>2. PICK t \in TaskIds, to \in TaskStatus :
          /\ task[t] # NoRow
          /\ to \in TaskTransitions[task[t].status]
          /\ req' = [req EXCEPT ![q] = [op |-> "clean", pc |-> "write", room |-> task[t].room,
                                        task |-> t, to |-> to]]
    BY <2>1 DEF CleanRead
  <2>3. req'[q].task = t
    BY <1>0, <2>2
  <2>4. task[t].status \in OpenTask
    BY <1>0, <2>2 DEF TaskTransitions, TaskRow, TaskStatus, OpenTask
  <2>5. UNCHANGED task
    BY <2>1 DEF CleanRead
  <2>6. QED
    BY <2>3, <2>4, <2>5
<1>4. QED
  BY <1>1, <1>2, <1>3 DEF Next, Assign, SetRoomBuffer, SetBranchBuffer

(***************************************************************************)
(* Loads.                                                                  *)
(***************************************************************************)
OpenTasksOf(h) == {t \in TaskIds : task[t] # NoRow /\ task[t].assignee = h
                                                   /\ task[t].status \in OpenTask}

LEMMA LoadCounts == \A h : OpenLoad(h) = Cardinality(OpenTasksOf(h)) /\ IsFiniteSet(OpenTasksOf(h))
<1>1. TAKE h
<1>2. IsFiniteSet(OpenTasksOf(h))
  BY IdAssumption, FS_Subset DEF OpenTasksOf
<1>3. QED
  BY <1>2 DEF OpenLoad, OpenTasksOf

\* The housekeeper that findBestHousekeeper returns has the least load.
LEMMA BestIsLeast ==
    ASSUME NEW g \in Housekeepers, g = BestHousekeeper, NEW h \in Housekeepers
    PROVE  OpenLoad(g) <= OpenLoad(h)
<1> DEFINE Least(x) == \A y \in Housekeepers \ {x} :
                OpenLoad(x) < OpenLoad(y) \/ (OpenLoad(x) = OpenLoad(y) /\ x < y)
<1>1. \E x \in Housekeepers : Least(x)
  BY LeastLoaded
<1>2. BestHousekeeper = CHOOSE x \in Housekeepers : Least(x)
  BY DEF BestHousekeeper
<1>3. Least(BestHousekeeper)
  <2> HIDE DEF Least
  <2>1. QED
    BY <1>1, <1>2, Zenon
<1>4. QED
  BY <1>3, LoadType

\* A task picked counts among the requests in flight.
LEMMA PickedType ==
    ASSUME IsFiniteSet(Requests)
    PROVE  /\ Cardinality(Requests) \in Nat
           /\ \A h : /\ IsFiniteSet(Picked(h))
                    /\ Cardinality(Picked(h)) \in Nat
                    /\ Cardinality(Picked(h)) <= Cardinality(Requests)
<1>1. Cardinality(Requests) \in Nat
  BY FS_CardinalityType
<1>2. ASSUME NEW h
      PROVE  /\ IsFiniteSet(Picked(h))
             /\ Cardinality(Picked(h)) \in Nat
             /\ Cardinality(Picked(h)) <= Cardinality(Requests)
  <2>1. Picked(h) \subseteq Requests
    BY DEF Picked
  <2>2. QED
    BY <2>1, FS_Subset, FS_CardinalityType
<1>3. QED
  BY <1>1, <1>2

\* Only a dispatch adds to what is picked.
LEMMA PickedComes ==
    ASSUME TypeOK, Next, NEW q \in Requests, At(q, "status", "order")'
    PROVE  TaskPick(q) \/ (At(q, "status", "order") /\ req'[q] = req[q])
<1>1. CASE UNCHANGED req
  BY <1>1 DEF At, Served
<1>2. ASSUME NEW x \in Requests \ {q}, Start(x) \/ Step(x) \/ Fail(x)
      PROVE  At(q, "status", "order") /\ req'[q] = req[q]
  BY <1>2, OthersWait DEF At, Served
<1>3. ASSUME Start(q) \/ Step(q) \/ Fail(q) PROVE TaskPick(q)
  <2>0. req \in [Requests -> AnyRequest]
    BY DEF TypeOK, AnyRequest
  <2>1. Served(q)' /\ req'[q].op = "status" /\ req'[q].pc = "order"
    BY DEF At
  <2>2. ~Answer(q)
    BY <2>1, AnswerEnds
  <2>3. ~Start(q)
    <3>1. ~BookingStart(q)
      BY <2>0, <2>1 DEF BookingStart, CreateRead, StatusRead, ExtendRead
    <3>2. ~HousekeepingStart(q) /\ ~RoomDeskStart(q)
      BY <2>0, <2>1 DEF HousekeepingStart, TaskRead, CleanRead, RoomDeskStart, ManualRead,
                        ArchiveRead
    <3>3. QED
      BY <3>1, <3>2 DEF Start
  <2>4. Served(q) /\ req[q].op = "status"
    BY <1>3, <2>1, <2>3, OpKept
  <2>5. ASSUME NEW pc, pc # "order" PROVE ~Goto(q, pc)
    BY <2>1, <2>4, <2>5, GotoKeeps
  <2>6. BookingStep(q)
    BY <1>3, <2>2, <2>3, <2>4
       DEF Step, Fail, HousekeepingStep, RoomDeskStep, TaskDispatch, TaskInsert, MarkRead,
           MarkRoom, MarkRoomLog, CleanWrite, ReleaseRead, ReleaseRoom, ReleaseRoomLog,
           ManualWrite, ManualLog, ArchiveCount, ArchiveWrite, At
  <2>7. QED
    BY <2>2, <2>4, <2>5, <2>6
       DEF BookingStep, CreateCheck, CreateInsert, CreateLog, StatusWrite, StatusLog,
           StatusOthers, StatusRoom, StatusRoomLog, AfterRoom, TaskFind, TaskOrder,
           ExtendCheck, ExtendWrite, At
<1>4. QED
  BY <1>1, <1>2, <1>3 DEF Next, Assign, SetRoomBuffer, SetBranchBuffer

\* The tasks a housekeeper was given and those still due are finitely many.
LEMMA GivenType ==
    \A h : /\ IsFiniteSet(Given(h)) /\ Cardinality(Given(h)) \in Nat
           /\ IsFiniteSet(Due(h)) /\ Cardinality(Due(h)) \in Nat
<1>1. ASSUME NEW h
      PROVE  /\ IsFiniteSet(Given(h)) /\ Cardinality(Given(h)) \in Nat
             /\ IsFiniteSet(Due(h)) /\ Cardinality(Due(h)) \in Nat
  <2>1. Given(h) \subseteq TaskIds /\ Due(h) \subseteq TaskIds
    BY DEF Given, Due
  <2>2. QED
    BY <2>1, IdAssumption, FS_Subset, FS_CardinalityType
<1>2. QED
  BY <1>1

\* Only a new task is due that was not, and only for the housekeeper it is given to.
LEMMA DueKept ==
    ASSUME TypeOK, RowsExist, Next, UNCHANGED task \/ \E q \in Requests : CleanWrite(q), NEW h
    PROVE  Given(h)' = Given(h) /\ Due(h)' \subseteq Due(h)
<1>0. task \in [TaskIds -> TaskRow \cup {NoRow}]
  BY DEF TypeOK
<1>1. ASSUME NEW t \in TaskIds
      PROVE  /\ task'[t] # NoRow <=> task[t] # NoRow
             /\ task[t] # NoRow => task'[t].assignee = task[t].assignee
             /\ \/ task'[t].status = task[t].status
                \/ \E q \in Requests : At(q, "clean", "write") /\ req[q].task = t
  <2>1. CASE UNCHANGED task
    BY <2>1
  <2>2. CASE \E q \in Requests : CleanWrite(q)
    <3>1. PICK q \in Requests : CleanWrite(q)
      BY <2>2
    <3>2. PICK u \in TaskIds : u = req[q].task
      BY <3>1 DEF CleanWrite, At, Served, Idle, TypeOK, BookingRequest, HousekeepingRequest,
                  RoomDeskRequest
    <3>3. PICK to : to = req[q].to
      OBVIOUS
    <3>4. At(q, "clean", "write") /\ task[u] # NoRow
      BY <3>1, <3>2 DEF CleanWrite, RowsExist
    <3>5. task' = [task EXCEPT ![u].status = to]
      BY <3>1, <3>2, <3>3 DEF CleanWrite
    <3>6. CASE t = u
      <4>1. task'[t] # NoRow /\ task'[t].assignee = task[t].assignee
        BY <1>0, <3>4, <3>5, <3>6 DEF TaskRow, NoRow
      <4>2. QED
        BY <3>2, <3>4, <3>6, <4>1
    <3>7. CASE t # u
      BY <1>0, <3>5, <3>7
    <3>8. QED
      BY <3>6, <3>7
  <2>3. QED
    BY <2>1, <2>2
<1>2. Given(h)' = Given(h)
  BY <1>1 DEF Given
<1>3. ASSUME NEW t \in Due(h)' PROVE t \in Due(h)
  <2>1. t \in Given(h) /\ t \in TaskIds
    BY <1>2, <1>3 DEF Due, Given
  <2>2. CASE \E q \in Requests : At(q, "clean", "write") /\ req[q].task = t
    BY <2>1, <2>2 DEF Due
  <2>3. CASE task'[t].status = task[t].status /\ task'[t].status \in OpenTask
    BY <2>1, <2>3 DEF Due
  <2>4. CASE \E q \in Requests : At(q, "clean", "write")' /\ req'[q].task = t
    <3>1. PICK q \in Requests : At(q, "clean", "write")' /\ req'[q].task = t
      BY <2>4
    <3>2. CASE At(q, "clean", "write") /\ req'[q] = req[q]
      BY <2>1, <3>1, <3>2 DEF Due
    <3>3. CASE task[req'[q].task].status \in OpenTask
      BY <2>1, <3>1, <3>3 DEF Due
    <3>4. QED
      BY <3>1, <3>2, <3>3, WriterComes
  <2>5. task'[t].status \in OpenTask \/ \E q \in Requests : At(q, "clean", "write")' /\ req'[q].task = t
    BY <1>3 DEF Due
  <2>6. QED
    BY <1>1, <2>1, <2>2, <2>3, <2>4, <2>5
<1>4. QED
  BY <1>2, <1>3

(***************************************************************************)
(* The three ways to disturb the balance.                                  *)
(***************************************************************************)

\* A step that dispatches nothing and inserts no task.
LEMMA SpreadRests ==
    ASSUME TypeOK, RowsExist, IsFiniteSet(Requests), LoadsSpread, Next,
           UNCHANGED task \/ \E q \in Requests : CleanWrite(q),
           \A q \in Requests : ~TaskPick(q)
    PROVE  LoadsSpread'
<1>1. \A h : Picked(h)' \subseteq Picked(h)
  BY PickedComes DEF Picked
<1>2. \A h : Cardinality(Picked(h)') <= Cardinality(Picked(h))
            /\ Cardinality(Picked(h)') \in Nat
  BY <1>1, PickedType, FS_Subset, FS_CardinalityType
<1>3. \A h : /\ Given(h)' = Given(h)
             /\ Cardinality(Due(h)') <= Cardinality(Due(h))
             /\ Cardinality(Due(h)') \in Nat
  BY DueKept, GivenType, FS_Subset, FS_CardinalityType
<1>4. ASSUME NEW g \in Housekeepers, NEW h \in Housekeepers
      PROVE  Cardinality(Due(g)') + Cardinality(Picked(g)')
                <= Cardinality(Given(h)') + Cardinality(Requests)
  <2>1. Cardinality(Due(g)) + Cardinality(Picked(g)) <= Cardinality(Given(h)) + Cardinality(Requests)
    BY DEF LoadsSpread
  <2>2. QED
    BY <2>1, <1>2, <1>3, PickedType, GivenType
<1>5. QED
  BY <1>4 DEF LoadsSpread

\* A dispatch: the housekeeper picked is the least loaded, the others are as before.
LEMMA SpreadPicks ==
    ASSUME TypeOK, TypeOK', RowsExist, IsFiniteSet(Requests), LoadsSpread, Next,
           NEW q \in Requests, TaskPick(q)
    PROVE  LoadsSpread'
<1>0. req \in [Requests -> AnyRequest]
  BY DEF TypeOK, AnyRequest
<1>1. UNCHANGED task /\ req' = [req EXCEPT ![q].assignee = BestHousekeeper, ![q].pc = "order"]
  BY DEF TaskPick
<1>2. /\ req'[q].assignee = BestHousekeeper /\ req'[q].op = "status"
      /\ \A p \in Requests \ {q} : req'[p] = req[p]
  BY <1>1 DEF TaskPick, At, Served, Idle, TypeOK, BookingRequest, HousekeepingRequest,
              RoomDeskRequest
<1>3. ASSUME NEW h, h # BestHousekeeper PROVE Picked(h)' \subseteq Picked(h)
  BY <1>2, <1>3 DEF Picked, At, Served
<1>4. \A h : /\ Given(h)' = Given(h)
             /\ Cardinality(Due(h)') <= Cardinality(Due(h))
             /\ Cardinality(Due(h)') \in Nat
  BY <1>1, DueKept, GivenType, FS_Subset, FS_CardinalityType
<1>5. \A h : /\ IsFiniteSet(Picked(h)')
            /\ Cardinality(Picked(h)') \in Nat
  <2>1. ASSUME NEW h
        PROVE  /\ IsFiniteSet(Picked(h)')
               /\ Cardinality(Picked(h)') \in Nat
    <3>1. Picked(h)' \subseteq Requests
      BY DEF Picked
    <3>2. QED
      BY <3>1, FS_Subset, FS_CardinalityType
  <2>2. QED
    BY <2>1
<1> DEFINE Writers == {p \in Requests : At(p, "clean", "write")}
           late == {req[p].task : p \in Writers}
<1>6. ASSUME NEW g
      PROVE  Cardinality(Due(g)) + Cardinality(Picked(g)') <= OpenLoad(g) + Cardinality(Requests)
  <2>1. IsFiniteSet(Writers) /\ Writers \in SUBSET Requests
    BY FS_Subset
  <2>2. IsFiniteSet(late) /\ Cardinality(late) <= Cardinality(Writers)
    <3> DEFINE f == [p \in Writers |-> req[p].task]
    <3>1. f \in Surjection(Writers, late)
      BY DEF Surjection
    <3> HIDE DEF f, late, Writers
    <3>2. QED
      BY <2>1, <3>1, FS_Surjection
  <2>3. Due(g) \subseteq OpenTasksOf(g) \cup late
    BY DEF Due, Given, OpenTasksOf
  <2> HIDE DEF late
  <2>4. /\ IsFiniteSet(OpenTasksOf(g) \cup late)
        /\ Cardinality(OpenTasksOf(g) \cup late)
             = OpenLoad(g) + Cardinality(late) - Cardinality(OpenTasksOf(g) \cap late)
    BY <2>2, LoadCounts, FS_Union
  <2>5. Cardinality(OpenTasksOf(g) \cap late) \in Nat
    <3>1. IsFiniteSet(OpenTasksOf(g) \cap late)
      BY <2>2, FS_Intersection
    <3>2. QED
      BY <3>1, FS_CardinalityType
  <2>6. Cardinality(Due(g)) <= Cardinality(OpenTasksOf(g) \cup late)
    BY <2>3, <2>4, FS_Subset
  <2>7. Writers \cap Picked(g)' = {}
    <3>1. ~At(q, "clean", "write")
      BY DEF TaskPick, At
    <3>2. QED
      BY <1>2, <3>1 DEF Picked, At, Served
  <2> HIDE DEF Writers
  <2>8. Cardinality(Writers) + Cardinality(Picked(g)') <= Cardinality(Requests)
    <3> DEFINE picks == Picked(g)'
    <3>1. picks \subseteq Requests /\ IsFiniteSet(picks)
      BY <1>5 DEF Picked
    <3>2. Writers \cap picks = {}
      BY <2>7
    <3> HIDE DEF picks
    <3>3. /\ IsFiniteSet(Writers \cup picks)
          /\ Cardinality(Writers \cup picks) = Cardinality(Writers) + Cardinality(picks)
      <4>1. Cardinality(Writers \cap picks) = 0
        BY <3>2, FS_EmptySet
      <4>2. Cardinality(Writers) \in Nat /\ Cardinality(picks) \in Nat
        BY <2>1, <3>1, FS_CardinalityType
      <4>3. /\ IsFiniteSet(Writers \cup picks)
            /\ Cardinality(Writers \cup picks)
                 = Cardinality(Writers) + Cardinality(picks) - Cardinality(Writers \cap picks)
        BY <2>1, <3>1, FS_Union, Zenon
      <4>4. QED
        BY <4>1, <4>2, <4>3
    <3>4. Cardinality(Writers \cup picks) <= Cardinality(Requests)
      BY <2>1, <3>1, FS_Subset
    <3>5. QED
      BY <3>3, <3>4 DEF picks
  <2>9. /\ Cardinality(Writers) \in Nat /\ Cardinality(late) \in Nat
        /\ Cardinality(OpenTasksOf(g) \cup late) \in Nat
    BY <2>1, <2>2, <2>4, FS_CardinalityType
  <2>10. Cardinality(Due(g)) <= OpenLoad(g) + Cardinality(Writers)
    BY <2>2, <2>4, <2>5, <2>6, <2>9, LoadType, GivenType
  <2>11. QED
    BY <2>8, <2>9, <2>10, <1>5, LoadType, GivenType, PickedType
<1>7. ASSUME NEW g \in Housekeepers, NEW h \in Housekeepers
      PROVE  Cardinality(Due(g)') + Cardinality(Picked(g)')
                <= Cardinality(Given(h)') + Cardinality(Requests)
  <2>1. CASE g = BestHousekeeper
    <3>1. OpenLoad(g) <= OpenLoad(h)
      BY <2>1, BestIsLeast
    <3>2. OpenLoad(h) <= Cardinality(Given(h))
      <4>1. OpenTasksOf(h) \subseteq Given(h)
        BY DEF OpenTasksOf, Given
      <4>2. QED
        BY <4>1, LoadCounts, GivenType, FS_Subset
    <3>3. QED
      BY <3>1, <3>2, <1>4, <1>5, <1>6, LoadType, GivenType, PickedType
  <2>2. CASE g # BestHousekeeper
    <3>1. Cardinality(Picked(g)') <= Cardinality(Picked(g))
      BY <2>2, <1>3, PickedType, FS_Subset
    <3>2. Cardinality(Due(g)) + Cardinality(Picked(g))
            <= Cardinality(Given(h)) + Cardinality(Requests)
      BY DEF LoadsSpread
    <3>3. QED
      BY <3>1, <3>2, <1>4, <1>5, PickedType, GivenType
  <2>3. QED
    BY <2>1, <2>2
<1>8. QED
  BY <1>7 DEF LoadsSpread

\* An order: what was picked becomes a task.
LEMMA SpreadOrders ==
    ASSUME TypeOK, IsFiniteSet(Requests), LoadsSpread, Next, NEW q \in Requests, TaskOrder(q)
    PROVE  LoadsSpread'
<1>0. At(q, "status", "order") /\ task \in [TaskIds -> TaskRow \cup {NoRow}]
  BY DEF TaskOrder, TypeOK
<1>1. PICK t \in TaskIds :
        /\ task[t] = NoRow
        /\ task' = [task EXCEPT ![t] = [status |-> "PENDING", room |-> req[q].room,
                                       booking |-> req[q].booking, type |-> "CHECKOUT_CLEAN",
                                       assignee |-> req[q].assignee]]
  BY DEF TaskOrder
<1>2. PICK a : a = req[q].assignee
  OBVIOUS
<1>3. /\ task'[t].status = "PENDING" /\ task'[t].assignee = a /\ task'[t] # NoRow
      /\ \A u \in TaskIds \ {t} : task'[u] = task[u]
      /\ task' # task
  BY <1>0, <1>1, <1>2 DEF NoRow
<1>4. \A h : /\ Given(h) \subseteq Given(h)'
             /\ t \notin Given(h) /\ t \notin Due(h)
             /\ h # a => Given(h)' = Given(h)
  BY <1>1, <1>3 DEF Given, Due
<1>5. \A p \in Requests : At(p, "clean", "write")' => At(p, "clean", "write") /\ req'[p] = req[p]
  BY <1>3, WriterComes
<1>6. \A h : Due(h)' \subseteq IF h = a THEN Due(h) \cup {t} ELSE Due(h)
  <2>1. ASSUME NEW h, NEW u \in Due(h)', u # t PROVE u \in Due(h)
    <3>1. u \in TaskIds \ {t} /\ u \in Given(h)
      BY <1>3, <2>1 DEF Due, Given
    <3>2. CASE task'[u].status \in OpenTask
      BY <1>3, <3>1, <3>2 DEF Due
    <3>3. CASE \E p \in Requests : At(p, "clean", "write")' /\ req'[p].task = u
      BY <1>5, <3>1, <3>3 DEF Due
    <3>4. QED
      BY <2>1, <3>2, <3>3 DEF Due
  <2>2. ASSUME NEW h, h # a PROVE t \notin Due(h)'
    BY <1>4, <2>2 DEF Due
  <2>3. QED
    BY <2>1, <2>2
<1>7. ~Served(q)'
  BY AnswerEnds DEF TaskOrder
<1>8. \A h : Picked(h)' \subseteq Picked(h) \ {q}
  <2>1. \A p \in Requests : ~TaskPick(p)
    BY <1>3 DEF TaskPick
  <2>2. QED
    BY <1>7, <2>1, PickedComes DEF Picked, At
<1>9. q \in Picked(a)
  BY <1>0, <1>2 DEF Picked
<1>10. \A h : /\ Cardinality(Picked(h)') \in Nat
              /\ Cardinality(Picked(h)') <= Cardinality(Picked(h))
              /\ h = a => Cardinality(Picked(h)') + 1 <= Cardinality(Picked(h))
  <2>1. ASSUME NEW h
        PROVE  /\ Cardinality(Picked(h)') \in Nat
               /\ Cardinality(Picked(h)') <= Cardinality(Picked(h))
    <3>1. Picked(h)' \subseteq Picked(h) /\ IsFiniteSet(Picked(h))
      BY <1>8, PickedType
    <3>2. QED
      BY <3>1, FS_Subset, FS_CardinalityType
  <2>2. Cardinality(Picked(a)') + 1 <= Cardinality(Picked(a))
    <3>1. /\ IsFiniteSet(Picked(a) \ {q})
          /\ Cardinality(Picked(a) \ {q}) = Cardinality(Picked(a)) - 1
      BY <1>9, PickedType, FS_RemoveElement
    <3>2. Cardinality(Picked(a)') <= Cardinality(Picked(a) \ {q})
      BY <1>8, <3>1, FS_Subset
    <3>3. QED
      BY <3>1, <3>2, <2>1, PickedType
  <2>3. QED
    BY <2>1, <2>2
<1>11. \A h : /\ Cardinality(Due(h)') \in Nat
              /\ Cardinality(Due(h)') <= Cardinality(Due(h)) + 1
              /\ h # a => Cardinality(Due(h)') <= Cardinality(Due(h))
  <2>1. ASSUME NEW h
        PROVE  /\ Cardinality(Due(h)') \in Nat
               /\ Cardinality(Due(h)') <= Cardinality(Due(h)) + 1
               /\ h # a => Cardinality(Due(h)') <= Cardinality(Due(h))
    <3>1. Due(h)' \subseteq Due(h) \cup {t}
      BY <1>6
    <3>2. /\ IsFiniteSet(Due(h) \cup {t})
          /\ Cardinality(Due(h) \cup {t}) = Cardinality(Due(h)) + 1
      BY <1>4, GivenType, FS_AddElement
    <3>3. IsFiniteSet(Due(h)') /\ Cardinality(Due(h)') <= Cardinality(Due(h)) + 1
      BY <3>1, <3>2, FS_Subset
    <3>4. h # a => Cardinality(Due(h)') <= Cardinality(Due(h))
      BY <1>6, GivenType, FS_Subset
    <3>5. QED
      BY <3>3, <3>4, FS_CardinalityType
  <2>2. QED
    BY <2>1
<1>12. \A h : Cardinality(Given(h)) <= Cardinality(Given(h)') /\ Cardinality(Given(h)') \in Nat
  <2>1. ASSUME NEW h
        PROVE  Cardinality(Given(h)) <= Cardinality(Given(h)') /\ Cardinality(Given(h)') \in Nat
    <3>1. IsFiniteSet(Given(h)')
      <4>1. Given(h)' \subseteq TaskIds
        BY DEF Given
      <4>2. QED
        BY <4>1, IdAssumption, FS_Subset
    <3>2. QED
      BY <1>4, <3>1, FS_Subset, FS_CardinalityType
  <2>2. QED
    BY <2>1
<1>13. ASSUME NEW g \in Housekeepers, NEW h \in Housekeepers
       PROVE  Cardinality(Due(g)') + Cardinality(Picked(g)')
                 <= Cardinality(Given(h)') + Cardinality(Requests)
  <2>1. Cardinality(Due(g)) + Cardinality(Picked(g)) <= Cardinality(Given(h)) + Cardinality(Requests)
    BY DEF LoadsSpread
  <2>2. Cardinality(Due(g)') + Cardinality(Picked(g)') <= Cardinality(Due(g)) + Cardinality(Picked(g))
    <3>1. CASE g = a
      BY <3>1, <1>10, <1>11, GivenType, PickedType
    <3>2. CASE g # a
      BY <3>2, <1>10, <1>11, GivenType, PickedType
    <3>3. QED
      BY <3>1, <3>2
  <2>3. QED
    BY <2>1, <2>2, <1>10, <1>11, <1>12, GivenType, PickedType
<1>14. QED
  BY <1>13 DEF LoadsSpread

(***************************************************************************)
(* The dispatch invariant.                                                 *)
(***************************************************************************)
LEMMA DispatchInit == ASSUME IsFiniteSet(Requests), Init PROVE DispatchInv
<1>1. \A q \in Requests : ~Served(q)
  BY DEF Init, Served
<1>2. \A h : Cardinality(Due(h)) = 0 /\ Cardinality(Picked(h)) = 0
  <2>1. ASSUME NEW h PROVE Cardinality(Due(h)) = 0 /\ Cardinality(Picked(h)) = 0
    <3>1. Due(h) = {} /\ Picked(h) = {}
      BY <1>1 DEF Init, Due, Given, Picked, At
    <3>2. QED
      BY <3>1, FS_EmptySet
  <2>2. QED
    BY <2>1
<1>3. LoadsSpread
  BY <1>2, PickedType, GivenType DEF LoadsSpread
<1>4. QED
  BY <1>1, <1>3 DEF DispatchInv

\* A request is for an endpoint that clients call.
LEMMA CalledStep ==
    ASSUME TypeOK, \A q \in Requests : Served(q) => req[q].op \in Ops, Next
    PROVE  \A q \in Requests : Served(q)' => req'[q].op \in Ops
<1>1. CASE UNCHANGED req
  BY <1>1 DEF Served
<1>2. ASSUME NEW x \in Requests, Start(x) \/ Step(x) \/ Fail(x), NEW q \in Requests, Served(q)'
      PROVE  req'[q].op \in Ops
  <2>1. CASE q = x
    BY <1>2, <2>1, OpKept
  <2>2. CASE q # x
    BY <1>2, <2>2, OthersWait DEF Served
  <2>3. QED
    BY <2>1, <2>2
<1>3. QED
  BY <1>1, <1>2 DEF Next, Assign, SetRoomBuffer, SetBranchBuffer

LEMMA DispatchStep ==
    ASSUME TasksAreDispatched
    PROVE  TypeOK /\ TypeOK' /\ RowsExist /\ DispatchInv /\ [Next]_vars => DispatchInv'
<1> SUFFICES ASSUME TypeOK, TypeOK', RowsExist, DispatchInv, [Next]_vars PROVE DispatchInv'
  OBVIOUS
<1>1. CASE UNCHANGED vars
  BY <1>1 DEF vars, DispatchInv, Served, At, LoadsSpread, Due, Given, Picked
<1>2. CASE Next
  <2>1. (\A q \in Requests : Served(q) => req[q].op \in Ops)'
    BY <1>2, CalledStep DEF DispatchInv
  <2>2. LoadsSpread'
    <3> USE <1>2 DEF DispatchInv, TasksAreDispatched
    <3>1. ~\E q \in Requests : TaskInsert(q)
      BY DEF TaskInsert, At
    <3>2. ~\E t \in TaskIds, h \in Housekeepers : Assign(t, h)
      BY DEF Assign
    <3>3. CASE \E q \in Requests : TaskPick(q)
      BY <3>3, SpreadPicks
    <3>4. CASE \E q \in Requests : TaskOrder(q)
      BY <3>4, SpreadOrders
    <3>5. CASE /\ UNCHANGED task \/ \E q \in Requests : CleanWrite(q)
               /\ ~\E q \in Requests : TaskPick(q)
      BY <3>5, SpreadRests
    <3>6. QED
      BY <3>1, <3>2, <3>3, <3>4, <3>5, TaskWrites
  <2>3. QED
    BY <2>1, <2>2 DEF DispatchInv
<1>3. QED
  BY <1>1, <1>2

(***************************************************************************)
(* While nobody assigns tasks by hand: the tasks that are due, those       *)
(* picked and not yet inserted and those about to be opened again included, *)
(* are spread up to the number of requests at a time, whatever overlaps.   *)
(***************************************************************************)
THEOREM DispatchSound ==
    ASSUME TasksAreDispatched
    PROVE  Spec => []DispatchInv
<1>1. Init => DispatchInv
  BY DispatchInit DEF TasksAreDispatched
<1>2. QED
  BY <1>1, TypeInit, TypeStep, DispatchStep, PTL DEF Spec

(***************************************************************************)
(* However departures and cleanings overlap or die, nobody has more open   *)
(* tasks than any colleague was ever given, plus one for each request at a *)
(* time.                                                                   *)
(***************************************************************************)
THEOREM LoadsStayBalanced ==
    ASSUME TasksAreDispatched
    PROVE  Spec => []LoadsBalanced
<1>1. DispatchInv => LoadsBalanced
  <2> SUFFICES ASSUME DispatchInv, NEW g \in Housekeepers, NEW h \in Housekeepers
               PROVE  OpenLoad(g) <= Cardinality(Given(h)) + Cardinality(Requests)
    BY DEF LoadsBalanced
  <2>1. Cardinality(Due(g)) + Cardinality(Picked(g)) <= Cardinality(Given(h)) + Cardinality(Requests)
    BY DEF DispatchInv, LoadsSpread
  <2>2. OpenLoad(g) <= Cardinality(Due(g))
    <3>1. OpenTasksOf(g) \subseteq Due(g)
      BY DEF OpenTasksOf, Due, Given
    <3>2. QED
      BY <3>1, LoadCounts, GivenType, FS_Subset
  <2>3. QED
    BY <2>1, <2>2, LoadType, PickedType, GivenType DEF TasksAreDispatched
<1>2. QED
  BY <1>1, DispatchSound, PTL
==============================================================================
