---------------------------- MODULE TurnoverProofs ----------------------------
(***************************************************************************)
(* The turnover of rooms, their archiving and the audit trail of Lodging,  *)
(* for any number of rooms, bookings, tasks, housekeepers and requests,    *)
(* provided that the requests for one room take turns.                     *)
(***************************************************************************)
EXTENDS LodgingProofs

(***************************************************************************)
(* What the code does not enforce itself: the requests for one room take   *)
(* turns, and none of them dies half-way.                                  *)
(***************************************************************************)
RoomsTakeTurns == Exclusive = Operations

Undisturbed == RoomsTakeTurns /\ ~MayFail

\* Nobody sets a status by hand, nobody orders tasks but the check-out.
SystemSetsStatus == ~MayFail /\ "manual" \notin Ops
SystemOrdersTasks == ~MayFail /\ "task" \notin Ops

-----------------------------------------------------------------------------
(***************************************************************************)
(* What is so of a room and a booking, but for the request that is at it.  *)
(***************************************************************************)
OneRequestPerRoom ==
    \A p, q \in Requests :
        p # q /\ Served(p) /\ Served(q) => req[p].room # req[q].room

Hosts(r) == \E b \in BookedIn(r) : booking[b].status = "CHECKED_IN"

OpenIn(r) ==
    \E t \in TaskIds : /\ task[t] # NoRow
                       /\ task[t].room = r
                       /\ task[t].status \in OpenTask

RoomTold(r) == ~MayFail /\ ~room[r].deleted => roomTrail[r] = room[r].status

Earned(r) == ~MayFail /\ room[r].status = "OCCUPIED" => Hosts(r)

Shown(r) == SystemSetsStatus /\ Hosts(r) => room[r].status = "OCCUPIED"

SetAside(r) ==
    SystemSetsStatus /\ SystemOrdersTasks /\ room[r].status = "MAINTENANCE" => OpenIn(r)

Emptied(r) == room[r].deleted => ActiveIn(r) = {} /\ room[r].status = "INACTIVE"

BookingTold(b) == ~MayFail => bookingTrail[b] = booking[b].status

Cleaned(b) ==
    SystemOrdersTasks =>
        IF booking[b].status = "CHECKED_OUT"
        THEN \E t \in TaskIds : CleaningOf(b) = {t}
        ELSE CleaningOf(b) = {}

\* Request q is about to record the status it gave to r.
Logging(q, r) ==
    /\ Served(q) /\ req[q].room = r
    /\ req[q].pc = "roomLog" \/ At(q, "manual", "log")

\* Request q has let the guest of r out and not yet set the room aside.
Leaving(q, r) ==
    /\ Served(q) /\ req[q].op = "status" /\ req[q].to = "CHECKED_OUT"
    /\ req[q].room = r /\ req[q].pc \in {"log", "others", "room"}

\* Request q has let a guest into r and not yet marked the room.
Arriving(q, r) ==
    /\ Served(q) /\ req[q].op = "status" /\ req[q].to = "CHECKED_IN"
    /\ req[q].room = r /\ req[q].pc \in {"log", "room"}

\* Request q has set r aside and is about to order its cleaning, or the cleaning of r
\* is done and q is about to give the room back.
Turning(q, r) ==
    /\ Served(q) /\ req[q].room = r
    /\ \/ req[q].op = "status" /\ req[q].to = "CHECKED_OUT"
                               /\ req[q].pc \in {"roomLog", "find", "pick", "order"}
       \/ req[q].op = "clean" /\ req[q].pc \in {"release", "room"}

\* Request q is about to record the status it gave to b.
Entering(q, b) ==
    Served(q) /\ req[q].op \in {"create", "status"} /\ req[q].pc = "log" /\ req[q].booking = b

\* Request q has let the guest of b out and not yet ordered the cleaning.
Ordering(q, b) ==
    /\ Served(q) /\ req[q].op = "status" /\ req[q].to = "CHECKED_OUT"
    /\ req[q].pc # "write" /\ req[q].booking = b

(***************************************************************************)
(* What a request knows: what it has read is still so.                     *)
(***************************************************************************)
KnowsCreate(q) ==
    Served(q) /\ req[q].op = "create" =>
        /\ ~room[req[q].room].deleted
        /\ req[q].pc = "log" => /\ req[q].booking \in BookedIn(req[q].room)
                                /\ booking[req[q].booking].status = "CONFIRMED"

KnowsExtend(q) ==
    Served(q) /\ req[q].op = "extend" => req[q].booking \in BookedIn(req[q].room)

KnowsStatus(q) ==
    Served(q) /\ req[q].op = "status" =>
        LET r == req[q].room
            b == req[q].booking
        IN  /\ ~room[r].deleted
            /\ b \in BookedIn(r)
            /\ req[q].pc = "write" => /\ booking[b].status = req[q].from
                                      /\ req[q].to \in AllowedTransitions[req[q].from]
            /\ req[q].pc # "write" => booking[b].status = req[q].to
            /\ Ordering(q, b) /\ SystemOrdersTasks => CleaningOf(b) = {}
            /\ req[q].pc \in {"write", "log", "others", "room"} => room[r].status = req[q].seen
            /\ req[q].pc = "others" => req[q].to \in {"CHECKED_OUT", "CANCELLED"}
            /\ req[q].pc \in {"room", "roomLog"} =>
                  \/ req[q].to = "CHECKED_IN"
                  \/ req[q].to \in {"CHECKED_OUT", "CANCELLED"} /\ ~Hosts(r)
            /\ req[q].pc = "roomLog" =>
                  /\ room[r].status = RoomStatusAfter(req[q].to)
                  /\ ~MayFail => roomTrail[r] = req[q].seen
            /\ req[q].pc \in {"find", "pick", "order"} => req[q].to = "CHECKED_OUT"

KnowsTask(q) ==
    Served(q) /\ req[q].op = "task" =>
        LET r == req[q].room
        IN  /\ ~room[r].deleted
            /\ req[q].pc = "room" => room[r].status = "AVAILABLE"
            /\ req[q].pc = "roomLog" => /\ room[r].status = "MAINTENANCE"
                                        /\ ~MayFail => roomTrail[r] = "AVAILABLE"

\* What the answers to the three queries of a release have said.
Answered(q, query) == req[q].release /\ query \notin req[q].unread

KnowsClean(q) ==
    Served(q) /\ req[q].op = "clean" =>
        LET r == req[q].room
        IN  /\ req[q].pc = "write" => /\ task[req[q].task] # NoRow
                                      /\ task[req[q].task].room = r
                                      /\ req[q].to \in {"IN_PROGRESS", "DONE"}
            /\ req[q].pc = "release" =>
                  /\ task[req[q].task] # NoRow
                  /\ task[req[q].task].room = r
                  /\ task[req[q].task].status = "DONE"
                  /\ Answered(q, "openTask") => ~OpenIn(r)
                  /\ Answered(q, "guest") => ~Hosts(r)
                  /\ Answered(q, "room") => ~room[r].deleted /\ room[r].status = "MAINTENANCE"
                  /\ ~req[q].release => SetAside(r)
            /\ req[q].pc = "room" =>
                  ~OpenIn(r) /\ ~Hosts(r) /\ ~room[r].deleted /\ room[r].status = "MAINTENANCE"
            /\ req[q].pc = "roomLog" =>
                  /\ ~room[r].deleted /\ room[r].status = "AVAILABLE"
                  /\ ~MayFail => roomTrail[r] = "MAINTENANCE"

KnowsDesk(q) ==
    Served(q) /\ req[q].op \in {"manual", "archive"} =>
        LET r == req[q].room
        IN  /\ ~room[r].deleted
            /\ At(q, "manual", "write") => room[r].status = req[q].seen
            /\ At(q, "manual", "log") => /\ room[r].status = req[q].to
                                         /\ ~MayFail => roomTrail[r] = req[q].seen
            /\ At(q, "archive", "write") => ActiveIn(r) = {}

Knows(q) ==
    /\ Served(q) => req[q].op \in Ops
    /\ KnowsCreate(q) /\ KnowsExtend(q) /\ KnowsStatus(q)
    /\ KnowsTask(q) /\ KnowsClean(q) /\ KnowsDesk(q)

OnlyCleanings ==
    "task" \notin Ops =>
        \A t \in TaskIds : task[t] # NoRow => task[t].type = "CHECKOUT_CLEAN"

(***************************************************************************)
(* The inductive invariant.                                                *)
(***************************************************************************)
TurnoverInv ==
    /\ OneRequestPerRoom
    /\ OnlyCleanings
    /\ \A r \in Rooms :
          /\ RoomTold(r) \/ \E q \in Requests : Logging(q, r)
          /\ Earned(r) \/ \E q \in Requests : Leaving(q, r)
          /\ Shown(r) \/ \E q \in Requests : Arriving(q, r)
          /\ SetAside(r) \/ \E q \in Requests : Turning(q, r)
          /\ Emptied(r)
    /\ \A b \in BookingIds :
          /\ BookingTold(b) \/ \E q \in Requests : Entering(q, b)
          /\ Cleaned(b) \/ \E q \in Requests : Ordering(q, b)
    /\ \A q \in Requests : Knows(q)

-----------------------------------------------------------------------------
(***************************************************************************)
(* A step concerns one room: its row, the bookings in it and the bookings  *)
(* that are not made yet, and the request at it.                           *)
(***************************************************************************)
Mine(r) == {b \in BookingIds : booking[b] = NoRow \/ booking[b].room = r}

AtRest(r) ==
    /\ RoomTold(r) /\ Earned(r) /\ Shown(r) /\ SetAside(r) /\ Emptied(r)
    /\ \A b \in Mine(r) : BookingTold(b) /\ Cleaned(b)

LocalSound(q, r) ==
    /\ RoomTold(r) \/ Logging(q, r)
    /\ Earned(r) \/ Leaving(q, r)
    /\ Shown(r) \/ Arriving(q, r)
    /\ SetAside(r) \/ Turning(q, r)
    /\ Emptied(r)
    /\ \A b \in Mine(r) : BookingTold(b) \/ Entering(q, b)
    /\ \A b \in Mine(r) : Cleaned(b) \/ Ordering(q, b)
    /\ Knows(q)

AloneAt(q, r) ==
    /\ \A p \in Requests \ {q} : Served(p) => req[p].room # r
    /\ Served(q) => req[q].room = r

\* What a step for room r leaves alone.
Beside(r) ==
    /\ \A s \in Rooms \ {r} : /\ room'[s].status = room[s].status
                              /\ room'[s].deleted = room[s].deleted
                              /\ roomTrail'[s] = roomTrail[s]
    /\ \A b \in BookingIds :
          IF b \in Mine(r)
          THEN booking'[b] = NoRow \/ booking'[b].room = r
          ELSE /\ booking'[b] # NoRow
               /\ booking'[b].room = booking[b].room
               /\ booking'[b].status = booking[b].status
               /\ bookingTrail'[b] = bookingTrail[b]
               /\ SystemOrdersTasks => CleaningOf(b)' = CleaningOf(b)
    /\ \A t \in TaskIds :
          IF task[t] = NoRow \/ task[t].room = r
          THEN task'[t] = NoRow \/ task'[t].room = r
          ELSE /\ task'[t] # NoRow
               /\ task'[t].room = task[t].room
               /\ task'[t].status = task[t].status

\* Nothing is being served: the state of the room is as it should be.
LEMMA RestIsSound ==
    ASSUME NEW q \in Requests, NEW r, AtRest(r), Knows(q)
    PROVE  LocalSound(q, r)
  BY DEF AtRest, LocalSound

\* The request that is alone at a room finds it as the invariant says.
LEMMA LocalView ==
    ASSUME TurnoverInv, NEW q \in Requests, NEW r \in Rooms, AloneAt(q, r)
    PROVE  LocalSound(q, r)
<1>1. ASSUME NEW p \in Requests
      PROVE  /\ Logging(p, r) => p = q
             /\ Leaving(p, r) => p = q
             /\ Arriving(p, r) => p = q
             /\ Turning(p, r) => p = q
  BY DEF Logging, Leaving, Arriving, Turning, AloneAt, At
<1>2. ASSUME NEW p \in Requests, NEW b \in Mine(r)
      PROVE  /\ Entering(p, b) => p = q
             /\ Ordering(p, b) => p = q
  BY DEF TurnoverInv, Knows, KnowsCreate, KnowsStatus, Entering, Ordering, AloneAt, Mine, BookedIn
<1>3. QED
  BY <1>1, <1>2 DEF TurnoverInv, LocalSound, Mine

-----------------------------------------------------------------------------
\* What is beside the step stays as it is.
LEMMA BesideRoom ==
    ASSUME NEW r, Beside(r), NEW s \in Rooms \ {r}
    PROVE  /\ BookedIn(s)' = BookedIn(s)
           /\ \A b \in BookedIn(s) : /\ b \in BookingIds \ Mine(r)
                                     /\ booking'[b].status = booking[b].status
           /\ Hosts(s)' <=> Hosts(s)
           /\ ActiveIn(s)' = ActiveIn(s)
           /\ OpenIn(s)' <=> OpenIn(s)
<1>1. ASSUME NEW b \in BookingIds
      PROVE  b \in BookedIn(s)' <=> b \in BookedIn(s)
  BY DEF Beside, BookedIn, Mine
<1>2. ASSUME NEW b \in BookedIn(s)
      PROVE  b \in BookingIds \ Mine(r) /\ booking'[b].status = booking[b].status
  BY DEF Beside, BookedIn, Mine
<1>3. BookedIn(s)' = BookedIn(s)
  BY <1>1 DEF BookedIn
<1>4. Hosts(s)' <=> Hosts(s)
  BY <1>2, <1>3 DEF Hosts
<1>5. ActiveIn(s)' = ActiveIn(s)
  BY <1>2, <1>3 DEF ActiveIn
<1>6. ASSUME NEW t \in TaskIds
      PROVE  task'[t] # NoRow /\ task'[t].room = s <=> task[t] # NoRow /\ task[t].room = s
  BY DEF Beside
<1>7. ASSUME NEW t \in TaskIds, task[t] # NoRow, task[t].room = s
      PROVE  task'[t].status = task[t].status
  BY <1>7 DEF Beside
<1>8. OpenIn(s)' <=> OpenIn(s)
  BY <1>6, <1>7 DEF OpenIn
<1>9. QED
  BY <1>2, <1>3, <1>4, <1>5, <1>8

LEMMA BesideFacts ==
    ASSUME NEW r, Beside(r), NEW s \in Rooms \ {r}
    PROVE  /\ RoomTold(s) => RoomTold(s)'
           /\ Earned(s) => Earned(s)'
           /\ Shown(s) => Shown(s)'
           /\ SetAside(s) => SetAside(s)'
           /\ Emptied(s) => Emptied(s)'
<1>1. /\ room'[s].status = room[s].status
      /\ room'[s].deleted = room[s].deleted
      /\ roomTrail'[s] = roomTrail[s]
  BY DEF Beside
<1>2. QED
  BY <1>1, BesideRoom
     DEF RoomTold, Earned, Shown, SetAside, Emptied, SystemSetsStatus, SystemOrdersTasks

LEMMA BesideBooking ==
    ASSUME NEW r, Beside(r), NEW b \in BookingIds \ Mine(r)
    PROVE  /\ BookingTold(b) => BookingTold(b)'
           /\ Cleaned(b) => Cleaned(b)'
<1>1. /\ booking'[b].status = booking[b].status
      /\ bookingTrail'[b] = bookingTrail[b]
      /\ SystemOrdersTasks => CleaningOf(b)' = CleaningOf(b)
  BY DEF Beside
<1>2. QED
  BY <1>1 DEF BookingTold, Cleaned, SystemOrdersTasks

\* Requests at other rooms still know what they knew.
LEMMA BesideKnows ==
    ASSUME TypeOK, NEW r, Beside(r), NEW p \in Requests, Knows(p), req'[p] = req[p],
           Served(p) => req[p].room # r
    PROVE  Knows(p)'
<1> SUFFICES ASSUME Served(p) PROVE Knows(p)'
  BY DEF Knows, Served, KnowsCreate, KnowsExtend, KnowsStatus, KnowsTask, KnowsClean, KnowsDesk
<1> DEFINE s == req[p].room
<1>1. s \in Rooms \ {r}
  BY DEF TypeOK, BookingRequest, HousekeepingRequest, RoomDeskRequest, Served
<1>2. /\ room'[s].status = room[s].status
      /\ room'[s].deleted = room[s].deleted
      /\ roomTrail'[s] = roomTrail[s]
  BY <1>1 DEF Beside
<1>3. /\ BookedIn(s)' = BookedIn(s)
      /\ \A b \in BookedIn(s) : /\ b \in BookingIds \ Mine(r)
                                /\ booking'[b].status = booking[b].status
      /\ Hosts(s)' <=> Hosts(s)
      /\ ActiveIn(s)' = ActiveIn(s)
      /\ OpenIn(s)' <=> OpenIn(s)
  BY <1>1, BesideRoom
<1>4. Served(p)' /\ req'[p] = req[p]
  BY DEF Served
<1>5. KnowsCreate(p)' /\ KnowsExtend(p)'
  BY <1>2, <1>3, <1>4 DEF Knows, KnowsCreate, KnowsExtend
<1>6. ASSUME NEW b \in BookedIn(s), SystemOrdersTasks PROVE CleaningOf(b)' = CleaningOf(b)
  BY <1>3, <1>6 DEF Beside
<1>7. KnowsStatus(p)'
  BY <1>2, <1>3, <1>4, <1>6 DEF Knows, KnowsStatus, Ordering, SystemOrdersTasks, Served
<1>8. KnowsTask(p)' /\ KnowsDesk(p)'
  BY <1>2, <1>3, <1>4 DEF Knows, KnowsTask, KnowsDesk, At
<1>9. KnowsClean(p)'
  <2>1. CASE req[p].op # "clean"
    BY <1>4, <2>1 DEF KnowsClean
  <2>2. CASE req[p].op = "clean" /\ req[p].pc \in {"write", "release"}
    <3>1. req[p].task \in TaskIds
      BY <2>2 DEF TypeOK, BookingRequest, HousekeepingRequest, RoomDeskRequest, Served
    <3>2. task[req[p].task] # NoRow /\ task[req[p].task].room = s
      BY <2>2 DEF Knows, KnowsClean
    <3>3. /\ task'[req[p].task] # NoRow
          /\ task'[req[p].task].room = s
          /\ task'[req[p].task].status = task[req[p].task].status
      BY <1>1, <3>1, <3>2 DEF Beside
    <3>4. SetAside(s) => SetAside(s)'
      BY <1>1, BesideFacts
    <3>5. QED
      BY <1>2, <1>3, <1>4, <2>2, <3>3, <3>4 DEF Knows, KnowsClean, Answered
  <2>3. CASE req[p].op = "clean" /\ req[p].pc \notin {"write", "release"}
    BY <1>2, <1>3, <1>4, <2>3 DEF Knows, KnowsClean
  <2>4. QED
    BY <2>1, <2>2, <2>3
<1>10. QED
  BY <1>4, <1>5, <1>7, <1>8, <1>9 DEF Knows

(***************************************************************************)
(* A step of q for room r keeps the invariant if it leaves everything else *)
(* alone and the facts about r are right afterwards.                       *)
(***************************************************************************)
LEMMA StepIsLocal ==
    ASSUME TypeOK, TurnoverInv, NEW q \in Requests, NEW r \in Rooms,
           AloneAt(q, r), Served(q)' => req'[q].room = r,
           req' \in [Requests -> AnyRequest],
           \A p \in Requests \ {q} : req'[p] = req[p],
           Beside(r), OnlyCleanings', LocalSound(q, r)'
    PROVE  TurnoverInv'
<1>1. OneRequestPerRoom'
  BY DEF TurnoverInv, OneRequestPerRoom, AloneAt, Served
<1>2. ASSUME NEW s \in Rooms
      PROVE  /\ RoomTold(s)' \/ \E p \in Requests : Logging(p, s)'
             /\ Earned(s)' \/ \E p \in Requests : Leaving(p, s)'
             /\ Shown(s)' \/ \E p \in Requests : Arriving(p, s)'
             /\ SetAside(s)' \/ \E p \in Requests : Turning(p, s)'
             /\ Emptied(s)'
  <2>1. CASE s = r
    BY <2>1 DEF LocalSound
  <2>2. CASE s # r
    <3>1. ASSUME NEW p \in Requests
          PROVE  /\ Logging(p, s) => Logging(p, s)'
                 /\ Leaving(p, s) => Leaving(p, s)'
                 /\ Arriving(p, s) => Arriving(p, s)'
                 /\ Turning(p, s) => Turning(p, s)'
      <4>1. CASE p = q
        BY <2>2, <4>1 DEF Logging, Leaving, Arriving, Turning, AloneAt
      <4>2. CASE p # q
        BY <4>2 DEF Logging, Leaving, Arriving, Turning, At, Served
      <4>3. QED
        BY <4>1, <4>2
    <3>2. QED
      BY <2>2, <3>1, BesideFacts DEF TurnoverInv
  <2>3. QED
    BY <2>1, <2>2
<1>3. ASSUME NEW b \in BookingIds
      PROVE  /\ BookingTold(b)' \/ \E p \in Requests : Entering(p, b)'
             /\ Cleaned(b)' \/ \E p \in Requests : Ordering(p, b)'
  <2>1. CASE b \in Mine(r)
    <3>1. b \in Mine(r)'
      BY <2>1 DEF Beside, Mine
    <3>2. QED
      BY <3>1 DEF LocalSound
  <2>2. CASE b \notin Mine(r)
    <3>1. ASSUME NEW p \in Requests
          PROVE  /\ Entering(p, b) => Entering(p, b)'
                 /\ Ordering(p, b) => Ordering(p, b)'
      <4>1. CASE p = q
        <5>1. Entering(q, b) \/ Ordering(q, b) => booking[b].room = r
          BY DEF Entering, Ordering, AloneAt, TurnoverInv, Knows, KnowsCreate, KnowsStatus, BookedIn
        <5>2. QED
          BY <2>2, <4>1, <5>1 DEF Mine
      <4>2. CASE p # q
        BY <4>2 DEF Entering, Ordering, Served
      <4>3. QED
        BY <4>1, <4>2
    <3>2. QED
      BY <2>2, <3>1, BesideBooking DEF TurnoverInv
  <2>3. QED
    BY <2>1, <2>2
<1>4. ASSUME NEW p \in Requests PROVE Knows(p)'
  <2>1. CASE p = q
    BY <2>1 DEF LocalSound
  <2>2. CASE p # q
    BY <2>2, BesideKnows DEF TurnoverInv, AloneAt
  <2>3. QED
    BY <2>1, <2>2
<1>5. QED
  BY <1>1, <1>2, <1>3, <1>4 DEF TurnoverInv

-----------------------------------------------------------------------------
(***************************************************************************)
(* Calls that write no table.                                              *)
(***************************************************************************)
tables == <<booking, room, task, roomTrail, bookingTrail>>

\* What a step of q for room r has to show.
Right(q, r) == Beside(r) /\ OnlyCleanings' /\ LocalSound(q, r)'

LEMMA NothingWritten ==
    ASSUME TurnoverInv, UNCHANGED tables, NEW r \in Rooms
    PROVE  /\ Beside(r) /\ OnlyCleanings'
           /\ RoomTold(r)' = RoomTold(r)
           /\ Earned(r)' = Earned(r)
           /\ Shown(r)' = Shown(r)
           /\ SetAside(r)' = SetAside(r)
           /\ Emptied(r)' = Emptied(r)
           /\ Hosts(r)' = Hosts(r)
           /\ OpenIn(r)' = OpenIn(r)
           /\ ActiveIn(r)' = ActiveIn(r)
           /\ BookedIn(r)' = BookedIn(r)
           /\ Mine(r)' = Mine(r)
           /\ \A b \in BookingIds : /\ BookingTold(b)' = BookingTold(b)
                                    /\ Cleaned(b)' = Cleaned(b)
                                    /\ CleaningOf(b)' = CleaningOf(b)
<1> USE DEF tables
<1>1. /\ BookedIn(r)' = BookedIn(r) /\ ActiveIn(r)' = ActiveIn(r) /\ Mine(r)' = Mine(r)
      /\ Hosts(r)' = Hosts(r)
      /\ OpenIn(r)' = OpenIn(r)
  BY DEF BookedIn, ActiveIn, Mine, Hosts, OpenIn
<1>2. \A b \in BookingIds : CleaningOf(b)' = CleaningOf(b)
  BY DEF CleaningOf
<1>3. Beside(r)
  BY <1>2 DEF Beside, Mine
<1>4. OnlyCleanings'
  BY DEF TurnoverInv, OnlyCleanings
<1>5. \A b \in BookingIds : /\ BookingTold(b)' = BookingTold(b)
                            /\ Cleaned(b)' = Cleaned(b)
                            /\ CleaningOf(b)' = CleaningOf(b)
  BY <1>2 DEF BookingTold, Cleaned, SystemOrdersTasks
<1>6. /\ RoomTold(r)' = RoomTold(r)
      /\ Emptied(r)' = Emptied(r)
  BY <1>1 DEF RoomTold, Emptied
<1>7. /\ Earned(r)' = Earned(r)
      /\ Shown(r)' = Shown(r)
  BY <1>1 DEF Earned, Shown, SystemSetsStatus
<1>8. SetAside(r)' = SetAside(r)
  BY <1>1 DEF SetAside, SystemSetsStatus, SystemOrdersTasks
<1>9. QED
  BY <1>1, <1>3, <1>4, <1>5, <1>6, <1>7, <1>8

\* A call that writes no table, from what was so before and is excused afterwards.
LEMMA ReadSound ==
    ASSUME TurnoverInv, NEW q \in Requests, NEW r \in Rooms, UNCHANGED tables,
           RoomTold(r) \/ Logging(q, r)',
           Earned(r) \/ Leaving(q, r)',
           Shown(r) \/ Arriving(q, r)',
           SetAside(r) \/ Turning(q, r)',
           Emptied(r),
           \A b \in Mine(r) : BookingTold(b) \/ Entering(q, b)',
           \A b \in Mine(r) : Cleaned(b) \/ Ordering(q, b)',
           Knows(q)'
    PROVE  Right(q, r)
<1>1. \A b \in Mine(r)' : b \in BookingIds /\ b \in Mine(r)
  BY NothingWritten DEF Mine
<1>2. ASSUME NEW b \in Mine(r)' PROVE BookingTold(b)' \/ Entering(q, b)'
  BY <1>1, NothingWritten
<1>3. ASSUME NEW b \in Mine(r)' PROVE Cleaned(b)' \/ Ordering(q, b)'
  BY <1>1, NothingWritten
<1>4. /\ RoomTold(r)' \/ Logging(q, r)'
      /\ Earned(r)' \/ Leaving(q, r)'
      /\ Shown(r)' \/ Arriving(q, r)'
      /\ SetAside(r)' \/ Turning(q, r)'
      /\ Emptied(r)'
  BY NothingWritten
<1>5. LocalSound(q, r)'
  BY <1>2, <1>3, <1>4 DEF LocalSound
<1>6. QED
  BY <1>5, NothingWritten DEF Right

\* A request that is answered knows nothing and excuses nothing.
LEMMA AnsweredKnows ==
    ASSUME TypeOK, NEW q \in Requests, Answer(q) 
    PROVE  ~Served(q)' /\ Knows(q)'
<1>1. ~Served(q)'
  BY AnswerEnds
<1>2. QED
  BY <1>1 DEF Knows, KnowsCreate, KnowsExtend, KnowsStatus, KnowsTask, KnowsClean, KnowsDesk

LEMMA AnsweredRight ==
    ASSUME TypeOK, TurnoverInv, NEW q \in Requests, NEW r \in Rooms, Answer(q),
           UNCHANGED tables, AtRest(r)
    PROVE  Right(q, r)
<1>1. AtRest(r)'
  BY NothingWritten DEF AtRest, Mine
<1>2. LocalSound(q, r)'
  BY <1>1, AnsweredKnows DEF AtRest, LocalSound
<1>3. QED
  BY <1>2, NothingWritten DEF Right

\* Nobody is at the room for which a request is admitted.
LEMMA AdmittedAlone ==
    ASSUME RoomsTakeTurns, TypeOK, TurnoverInv, NEW q \in Requests, NEW op \in Operations,
           NEW r \in Rooms, Admit(q, op, r)
    PROVE  AloneAt(q, r) /\ ~Served(q) /\ AtRest(r) /\ op \in Ops
<1>1. ASSUME NEW p \in Requests, Served(p) PROVE req[p].op \in Operations
  BY <1>1 DEF TypeOK, BookingRequest, HousekeepingRequest, RoomDeskRequest, Served, Operations
<1>2. AloneAt(q, r) /\ ~Served(q) /\ op \in Ops
  BY <1>1 DEF Admit, AloneAt, RoomsTakeTurns
<1>3. LocalSound(q, r)
  BY <1>2, LocalView
<1>4. QED
  BY <1>2, <1>3 DEF LocalSound, AtRest, Logging, Leaving, Arriving, Turning, Entering, Ordering

\* A request that has only read so far, and knows what it has read.
LEMMA ReadRight ==
    ASSUME TurnoverInv, NEW q \in Requests, NEW r \in Rooms, UNCHANGED tables, AtRest(r),
           Knows(q)'
    PROVE  Right(q, r)
<1>1. AtRest(r)'
  BY NothingWritten DEF AtRest, Mine
<1>2. LocalSound(q, r)'
  BY <1>1 DEF AtRest, LocalSound
<1>3. QED
  BY <1>2, NothingWritten DEF Right

\* Every request begins by reading what it then knows.
LEMMA StartRight ==
    ASSUME RoomsTakeTurns, TypeOK, TurnoverInv, NEW q \in Requests, Start(q)
    PROVE  \E r \in Rooms :
              AloneAt(q, r) /\ Right(q, r) /\ (Served(q)' => req'[q].room = r)
<1> DEFINE Goal == \E r \in Rooms :
              AloneAt(q, r) /\ Right(q, r) /\ (Served(q)' => req'[q].room = r)
<1> USE DEF tables, calendarVars, trailVars
<1>0. req \in [Requests -> AnyRequest]
  BY DEF TypeOK, AnyRequest
<1>a. ASSUME NEW op \in Operations, NEW r \in Rooms, Admit(q, op, r), UNCHANGED tables,
             req'[q].op = op, req'[q].room = r,
             op \in Ops => Knows(q)'
      PROVE  Goal
  <2>1. AloneAt(q, r) /\ AtRest(r) /\ op \in Ops
    BY <1>a, AdmittedAlone
  <2>2. Right(q, r)
    BY <1>a, <2>1, ReadRight
  <2>3. QED
    BY <1>a, <2>1, <2>2
<1>1. CASE CreateRead(q)
  <2>1. PICK r \in Rooms :
           /\ Admit(q, "create", r) /\ ~room[r].deleted /\ UNCHANGED tables
           /\ req'[q].op = "create" /\ req'[q].pc = "check" /\ req'[q].room = r
    BY <1>0, <1>1 DEF CreateRead
  <2>2. "create" \in Ops => Knows(q)'
    BY <2>1 DEF Knows, KnowsCreate, KnowsExtend, KnowsStatus, KnowsTask, KnowsClean, KnowsDesk
  <2>3. QED
    BY <1>a, <2>1, <2>2 DEF Operations
<1>2. CASE StatusRead(q)
  <2>1. PICK b \in BookingIds, to \in BookingStatus :
           /\ booking[b] # NoRow
           /\ Admit(q, "status", booking[b].room)
           /\ ~room[booking[b].room].deleted
           /\ to \in AllowedTransitions[booking[b].status]
           /\ UNCHANGED tables
           /\ req'[q] = [op |-> "status", pc |-> "write", room |-> booking[b].room,
                         booking |-> b, from |-> booking[b].status, to |-> to,
                         seen |-> room[booking[b].room].status, assignee |-> Null]
    BY <1>0, <1>2 DEF StatusRead
  <2>2. booking[b].room \in Rooms
    BY <2>1 DEF TypeOK, BookingRow
  <2>3. b \in BookedIn(booking[b].room)'
    BY <2>1 DEF BookedIn
  <2>4. "status" \in Ops => Knows(q)'
    BY <2>1, <2>3 DEF Knows, KnowsCreate, KnowsExtend, KnowsStatus, KnowsTask, KnowsClean,
                      KnowsDesk, Ordering
  <2>5. QED
    BY <1>a, <2>1, <2>2, <2>4 DEF Operations
<1>3. CASE ExtendRead(q)
  <2>1. PICK b \in BookingIds :
           /\ booking[b] # NoRow
           /\ Admit(q, "extend", booking[b].room)
           /\ UNCHANGED tables
           /\ req'[q].op = "extend" /\ req'[q].room = booking[b].room /\ req'[q].booking = b
    BY <1>0, <1>3 DEF ExtendRead
  <2>2. booking[b].room \in Rooms
    BY <2>1 DEF TypeOK, BookingRow
  <2>3. b \in BookedIn(booking[b].room)'
    BY <2>1 DEF BookedIn
  <2>4. "extend" \in Ops => Knows(q)'
    BY <2>1, <2>3 DEF Knows, KnowsCreate, KnowsExtend, KnowsStatus, KnowsTask, KnowsClean,
                      KnowsDesk
  <2>5. QED
    BY <1>a, <2>1, <2>2, <2>4 DEF Operations
<1>4. CASE TaskRead(q)
  <2>1. PICK r \in Rooms :
           /\ Admit(q, "task", r) /\ ~room[r].deleted /\ UNCHANGED tables
           /\ req'[q].op = "task" /\ req'[q].pc \in {"pick", "insert"} /\ req'[q].room = r
    BY <1>0, <1>4 DEF TaskRead
  <2>2. "task" \in Ops => Knows(q)'
    BY <2>1 DEF Knows, KnowsCreate, KnowsExtend, KnowsStatus, KnowsTask, KnowsClean, KnowsDesk
  <2>3. QED
    BY <1>a, <2>1, <2>2 DEF Operations
<1>5. CASE CleanRead(q)
  <2>1. PICK t \in TaskIds, to \in TaskStatus :
           /\ task[t] # NoRow
           /\ Admit(q, "clean", task[t].room)
           /\ to \in TaskTransitions[task[t].status]
           /\ UNCHANGED tables
           /\ req'[q] = [op |-> "clean", pc |-> "write", room |-> task[t].room,
                         task |-> t, to |-> to]
    BY <1>0, <1>5 DEF CleanRead
  <2>2. task[t].room \in Rooms /\ task[t].status \in TaskStatus
    BY <2>1 DEF TypeOK, TaskRow
  <2>3. to \in {"IN_PROGRESS", "DONE"}
    BY <2>1, <2>2 DEF TaskTransitions, TaskStatus
  <2>4. "clean" \in Ops => Knows(q)'
    BY <2>1, <2>3 DEF Knows, KnowsCreate, KnowsExtend, KnowsStatus, KnowsTask, KnowsClean,
                      KnowsDesk
  <2>5. QED
    BY <1>a, <2>1, <2>2, <2>4 DEF Operations
<1>6. CASE ManualRead(q)
  <2>1. PICK r \in Rooms :
           /\ Admit(q, "manual", r) /\ ~room[r].deleted /\ UNCHANGED tables
           /\ req'[q].op = "manual" /\ req'[q].pc = "write" /\ req'[q].room = r
           /\ req'[q].seen = room[r].status
    BY <1>0, <1>6 DEF ManualRead
  <2>2. "manual" \in Ops => Knows(q)'
    BY <2>1 DEF Knows, KnowsCreate, KnowsExtend, KnowsStatus, KnowsTask, KnowsClean, KnowsDesk, At
  <2>3. QED
    BY <1>a, <2>1, <2>2 DEF Operations
<1>7. CASE ArchiveRead(q)
  <2>1. PICK r \in Rooms :
           /\ Admit(q, "archive", r) /\ ~room[r].deleted /\ UNCHANGED tables
           /\ req'[q].op = "archive" /\ req'[q].pc = "count" /\ req'[q].room = r
    BY <1>0, <1>7 DEF ArchiveRead
  <2>2. "archive" \in Ops => Knows(q)'
    BY <2>1 DEF Knows, KnowsCreate, KnowsExtend, KnowsStatus, KnowsTask, KnowsClean, KnowsDesk, At
  <2>3. QED
    BY <1>a, <2>1, <2>2 DEF Operations
<1>8. QED
  BY <1>1, <1>2, <1>3, <1>4, <1>5, <1>6, <1>7
     DEF Start, BookingStart, HousekeepingStart, RoomDeskStart

-----------------------------------------------------------------------------
(***************************************************************************)
(* The steps of updateStatus of a booking.                                 *)
(***************************************************************************)
StatusPcs == {"write", "log", "others", "room", "roomLog", "find", "pick", "order"}

\* Request q of updateStatus goes on to pc with what it has read.
StatusGoes(q, pc) ==
    /\ Served(q)'
    /\ req'[q].op = "status" /\ req'[q].pc = pc /\ req'[q].room = req[q].room
    /\ req'[q].booking = req[q].booking /\ req'[q].to = req[q].to
    /\ req'[q].from = req[q].from /\ req'[q].seen = req[q].seen

LEMMA StatusFields ==
    ASSUME TypeOK, NEW q \in Requests, Served(q), req[q].op = "status"
    PROVE  /\ req[q].room \in Rooms /\ req[q].booking \in BookingIds
           /\ req[q].to \in BookingStatus /\ req[q].from \in BookingStatus
           /\ req[q].seen \in RoomStatus /\ req[q].pc \in StatusPcs
           /\ \A pc \in StatusPcs : Goto(q, pc) => StatusGoes(q, pc)
  BY DEF Goto, StatusGoes, StatusPcs, Served, Idle, TypeOK, BookingRequest, HousekeepingRequest,
         RoomDeskRequest

\* A request of one kind knows what its kind knows.
LEMMA StatusKnows ==
    ASSUME NEW q \in Requests, req'[q].op = "status", "status" \in Ops, KnowsStatus(q)'
    PROVE  Knows(q)'
  BY DEF Knows, KnowsCreate, KnowsExtend, KnowsTask, KnowsClean, KnowsDesk

\* The calls of updateStatus that only read.
LEMMA StatusReadRight ==
    ASSUME TypeOK, TurnoverInv, NEW q \in Requests, Served(q), req[q].op = "status",
           NEW r \in Rooms, r = req[q].room, NEW b \in BookingIds, b = req[q].booking,
           LocalSound(q, r), StatusOthers(q) \/ TaskFind(q) \/ TaskPick(q)
    PROVE  Right(q, r)
<1> USE DEF tables, calendarVars, trailVars
<1>1. UNCHANGED tables
  BY DEF StatusOthers, TaskFind, TaskPick
<1>2. "status" \in Ops /\ KnowsStatus(q)
  BY DEF LocalSound, Knows
<1>3. CASE StatusOthers(q)
  <2>1. AtRest(r) \/ req[q].to = "CHECKED_OUT"
    BY <1>3 DEF LocalSound, AtRest, Logging, Leaving, Arriving, Turning, Entering, Ordering,
                StatusOthers, At
  <2>2. /\ RoomTold(r) /\ Shown(r) /\ SetAside(r) /\ Emptied(r)
        /\ \A c \in Mine(r) : BookingTold(c)
        /\ \A c \in Mine(r) \ {b} : Cleaned(c)
        /\ booking[b].status = req[q].to /\ room[r].status = req[q].seen
        /\ req[q].to \in {"CHECKED_OUT", "CANCELLED"}
        /\ ~room[r].deleted /\ b \in BookedIn(r)
    BY <1>2, <1>3 DEF LocalSound, Logging, Leaving, Arriving, Turning, Entering, Ordering,
                      StatusOthers, At, KnowsStatus
  <2>3. (\A c \in BookedIn(r) \ {b} : booking[c].status # "CHECKED_IN") <=> ~Hosts(r)
    BY <2>2 DEF Hosts
  <2>4. Earned(r) \/ Leaving(q, r)
    BY DEF LocalSound
  <2>5. CASE ~Hosts(r) /\ req[q].seen # RoomStatusAfter(req[q].to)
    <3>1. StatusGoes(q, "room")
      BY <1>3, <2>3, <2>5, StatusFields DEF StatusOthers, StatusPcs
    <3>2. KnowsStatus(q)'
      BY <1>1, <1>2, <1>3, <2>2, <2>5, <3>1, NothingWritten
         DEF KnowsStatus, StatusGoes, Ordering, StatusOthers, At, SystemOrdersTasks
    <3>3. Knows(q)'
      BY <1>2, <3>1, <3>2, StatusKnows DEF StatusGoes
    <3>4. Earned(r) \/ Leaving(q, r)'
      BY <2>4, <3>1 DEF Leaving, StatusGoes
    <3>5. \A c \in Mine(r) : Cleaned(c) \/ Ordering(q, c)'
      BY <3>1 DEF LocalSound, Ordering, StatusGoes
    <3>6. QED
      <4>1. \A c \in Mine(r) : BookingTold(c) \/ Entering(q, c)'
        BY <2>2
      <4>2. /\ RoomTold(r) \/ Logging(q, r)'
            /\ Shown(r) \/ Arriving(q, r)'
            /\ SetAside(r) \/ Turning(q, r)'
            /\ Emptied(r)
        BY <2>2
      <4>3. QED
        BY <1>1, <3>3, <3>4, <3>5, <4>1, <4>2, ReadSound
  <2>6. CASE ~(~Hosts(r) /\ req[q].seen # RoomStatusAfter(req[q].to)) /\ req[q].to = "CHECKED_OUT"
    <3>1. StatusGoes(q, "find")
      BY <1>3, <2>3, <2>6, StatusFields DEF StatusOthers, StatusPcs, AfterRoom
    <3>2. KnowsStatus(q)'
      BY <1>1, <1>2, <1>3, <2>2, <2>6, <3>1, NothingWritten
         DEF KnowsStatus, StatusGoes, Ordering, StatusOthers, At, SystemOrdersTasks
    <3>3. Knows(q)'
      BY <1>2, <3>1, <3>2, StatusKnows DEF StatusGoes
    <3>4. Earned(r)
      BY <2>2, <2>6 DEF Earned, RoomStatusAfter
    <3>5. \A c \in Mine(r) : Cleaned(c) \/ Ordering(q, c)'
      BY <3>1 DEF LocalSound, Ordering, StatusGoes
    <3>6. QED
      BY <1>1, <2>2, <3>3, <3>4, <3>5, ReadSound
  <2>7. CASE ~(~Hosts(r) /\ req[q].seen # RoomStatusAfter(req[q].to)) /\ req[q].to = "CANCELLED"
    <3>1. Answer(q)
      BY <1>3, <2>3, <2>7 DEF StatusOthers, AfterRoom
    <3>2. QED
      BY <1>1, <2>1, <2>7, <3>1, AnsweredRight
  <2>8. QED
    BY <2>2, <2>5, <2>6, <2>7
<1>4. CASE TaskFind(q)
  <2>1. /\ RoomTold(r) /\ Earned(r) /\ Shown(r) /\ Emptied(r)
        /\ \A c \in Mine(r) : BookingTold(c)
        /\ \A c \in Mine(r) \ {b} : Cleaned(c)
        /\ booking[b].status = "CHECKED_OUT" /\ req[q].to = "CHECKED_OUT"
        /\ SystemOrdersTasks => CleaningOf(b) = {}
        /\ ~room[r].deleted /\ b \in BookedIn(r)
    BY <1>2, <1>4 DEF LocalSound, Logging, Leaving, Arriving, Turning, Entering, Ordering,
                      TaskFind, At, KnowsStatus
  <2>2. CASE CleaningOf(b) # {}
    <3>1. Answer(q)
      BY <1>4, <2>2 DEF TaskFind, CleaningOf
    <3>2. ~SystemOrdersTasks
      BY <2>1, <2>2
    <3>3. AtRest(r)
      BY <2>1, <3>2 DEF AtRest, Cleaned, SetAside
    <3>4. QED
      BY <1>1, <3>1, <3>3, AnsweredRight
  <2>3. CASE CleaningOf(b) = {}
    <3>1. StatusGoes(q, "pick")
      BY <1>4, <2>3, StatusFields DEF TaskFind, CleaningOf, StatusPcs
    <3>2. KnowsStatus(q)'
      BY <1>1, <1>2, <1>4, <2>1, <2>3, <3>1, NothingWritten
         DEF KnowsStatus, StatusGoes, Ordering, TaskFind, At, SystemOrdersTasks
    <3>3. Knows(q)'
      BY <1>2, <3>1, <3>2, StatusKnows DEF StatusGoes
    <3>4. Turning(q, r)' /\ Ordering(q, b)'
      BY <2>1, <3>1 DEF Turning, Ordering, StatusGoes
    <3>5. \A c \in Mine(r) : Cleaned(c) \/ Ordering(q, c)'
      BY <2>1, <3>4
    <3>6. QED
      BY <1>1, <2>1, <3>3, <3>4, <3>5, ReadSound
  <2>4. QED
    BY <2>2, <2>3
<1>5. CASE TaskPick(q)
  <2>1. /\ RoomTold(r) /\ Earned(r) /\ Shown(r) /\ Emptied(r)
        /\ \A c \in Mine(r) : BookingTold(c)
        /\ \A c \in Mine(r) \ {b} : Cleaned(c)
        /\ booking[b].status = "CHECKED_OUT" /\ req[q].to = "CHECKED_OUT"
        /\ SystemOrdersTasks => CleaningOf(b) = {}
        /\ ~room[r].deleted /\ b \in BookedIn(r)
    BY <1>2, <1>5 DEF LocalSound, Logging, Leaving, Arriving, Turning, Entering, Ordering,
                      TaskPick, At, KnowsStatus
  <2>2. StatusGoes(q, "order")
    BY <1>5 DEF TaskPick, At, StatusGoes, Served, Idle, TypeOK, BookingRequest,
                HousekeepingRequest, RoomDeskRequest
  <2>3. KnowsStatus(q)'
    BY <1>1, <1>2, <1>5, <2>1, <2>2, NothingWritten
       DEF KnowsStatus, StatusGoes, Ordering, TaskPick, At, SystemOrdersTasks
  <2>4. Knows(q)'
    BY <1>2, <2>2, <2>3, StatusKnows DEF StatusGoes
  <2>5. Turning(q, r)' /\ Ordering(q, b)'
    BY <2>1, <2>2 DEF Turning, Ordering, StatusGoes
  <2>6. \A c \in Mine(r) : Cleaned(c) \/ Ordering(q, c)'
    BY <2>1, <2>5
  <2>7. QED
    BY <1>1, <2>1, <2>4, <2>5, <2>6, ReadSound
<1>6. QED
  BY <1>3, <1>4, <1>5

\* Every kind of change that updateStatus makes, and what it stands at.
LEMMA StatusChange ==
    ASSUME NEW q \in Requests, Served(q), req[q].op = "status", KnowsStatus(q), TypeOK,
           req[q].pc = "write"
    PROVE  /\ req[q].to = "CHECKED_IN" => req[q].from = "CONFIRMED"
           /\ req[q].to = "CHECKED_OUT" <=> req[q].from = "CHECKED_IN"
           /\ req[q].from # "CHECKED_OUT"
           /\ req[q].to \in BookingStatus \ {"PENDING"}
  BY StatusFields DEF KnowsStatus, AllowedTransitions, BookingStatus

\* UPDATE bookings: the booking has its new status, and q is to record it.
LEMMA StatusWriteRight ==
    ASSUME TypeOK, TurnoverInv, NEW q \in Requests, Served(q), req[q].op = "status",
           NEW r \in Rooms, r = req[q].room, NEW b \in BookingIds, b = req[q].booking,
           LocalSound(q, r), StatusWrite(q)
    PROVE  Right(q, r)
<1>1. "status" \in Ops /\ KnowsStatus(q) /\ req[q].pc = "write"
  BY DEF LocalSound, Knows, StatusWrite, At
<1>2. AtRest(r)
  BY <1>1 DEF LocalSound, AtRest, Logging, Leaving, Arriving, Turning, Entering, Ordering, At
<1>3. /\ booking[b] \in BookingRow /\ booking[b] # NoRow /\ booking[b].room = r
      /\ booking[b].status = req[q].from /\ ~room[r].deleted /\ room[r].status = req[q].seen
  BY <1>1 DEF KnowsStatus, BookedIn, TypeOK
<1>4. /\ booking'[b].status = req[q].to /\ booking'[b].room = r /\ booking'[b] # NoRow
      /\ \A c \in BookingIds \ {b} : booking'[c] = booking[c]
      /\ UNCHANGED <<room, task, roomTrail, bookingTrail>>
  <2>1. PICK now \in Departures :
           booking' = [booking EXCEPT ![b].status = req[q].to,
                                      ![b].actualCheckOut =
                                         IF req[q].to = "CHECKED_OUT" THEN now ELSE @]
    BY DEF StatusWrite
  <2>2. booking'[b].status = req[q].to /\ booking'[b].room = r
    BY <1>3, <2>1 DEF TypeOK, BookingRow
  <2>3. req[q].to # "NONE"
    BY StatusFields DEF BookingStatus
  <2>4. booking'[b] # NoRow
    BY <2>2, <2>3 DEF NoRow
  <2>5. QED
    BY <2>1, <2>2, <2>4 DEF StatusWrite, trailVars, TypeOK
<1>5. StatusGoes(q, "log")
  BY StatusFields DEF StatusWrite, StatusPcs
<1>6. /\ BookedIn(r)' = BookedIn(r) /\ Mine(r)' = Mine(r) /\ b \in BookedIn(r)
      /\ OpenIn(r)' = OpenIn(r)
      /\ \A c \in BookingIds : CleaningOf(c)' = CleaningOf(c)
  BY <1>3, <1>4 DEF BookedIn, Mine, OpenIn, CleaningOf
<1>7. Beside(r) /\ OnlyCleanings'
  <2>1. OnlyCleanings'
    BY <1>4 DEF TurnoverInv, OnlyCleanings
  <2>2. Beside(r)
    BY <1>3, <1>4, <1>6 DEF Beside, Mine
  <2>3. QED
    BY <2>1, <2>2
<1>8. RoomTold(r)' /\ SetAside(r)' /\ Emptied(r)'
  BY <1>2, <1>3, <1>4, <1>6
     DEF AtRest, RoomTold, SetAside, Emptied, SystemSetsStatus, SystemOrdersTasks
<1>9. Earned(r)' \/ Leaving(q, r)'
  <2>1. CASE req[q].to = "CHECKED_OUT"
    BY <1>5, <2>1 DEF Leaving, StatusGoes
  <2>2. CASE req[q].to # "CHECKED_OUT"
    <3>1. ASSUME NEW c \in BookedIn(r), booking[c].status = "CHECKED_IN"
          PROVE  c \in BookedIn(r)' /\ booking'[c].status = "CHECKED_IN"
      <4>1. c # b
        BY <1>1, <1>3, <2>2, <3>1, StatusChange
      <4>2. QED
        BY <1>4, <1>6, <3>1, <4>1 DEF BookedIn
    <3>2. QED
      BY <1>2, <1>4, <3>1 DEF AtRest, Earned, Hosts
  <2>3. QED
    BY <2>1, <2>2
<1>10. Shown(r)' \/ Arriving(q, r)'
  <2>1. CASE req[q].to = "CHECKED_IN"
    BY <1>5, <2>1 DEF Arriving, StatusGoes
  <2>2. CASE req[q].to # "CHECKED_IN"
    <3>1. ASSUME NEW c \in BookedIn(r)', booking'[c].status = "CHECKED_IN"
          PROVE  c \in BookedIn(r) /\ booking[c].status = "CHECKED_IN"
      <4>1. c # b
        BY <1>4, <2>2, <3>1
      <4>2. QED
        BY <1>4, <1>6, <3>1, <4>1 DEF BookedIn
    <3>2. Hosts(r)' => Hosts(r)
      BY <3>1 DEF Hosts
    <3>3. QED
      BY <1>2, <1>4, <3>2 DEF AtRest, Shown, SystemSetsStatus
  <2>3. QED
    BY <2>1, <2>2
<1>11. \A c \in Mine(r)' : BookingTold(c)' \/ Entering(q, c)'
  <2>1. Entering(q, b)'
    BY <1>5 DEF Entering, StatusGoes
  <2>2. ASSUME NEW c \in Mine(r) \ {b} PROVE BookingTold(c)'
    BY <1>2, <1>4 DEF AtRest, BookingTold, Mine
  <2>3. QED
    BY <1>6, <2>1, <2>2
<1>12. SystemOrdersTasks => CleaningOf(b) = {}
  BY <1>1, <1>2, <1>3, StatusChange DEF AtRest, Cleaned, Mine
<1>13. \A c \in Mine(r)' : Cleaned(c)' \/ Ordering(q, c)'
  <2>1. Cleaned(b)' \/ Ordering(q, b)'
    BY <1>4, <1>5, <1>6, <1>12 DEF Ordering, StatusGoes, Cleaned, SystemOrdersTasks
  <2>2. ASSUME NEW c \in Mine(r) \ {b} PROVE Cleaned(c)'
    BY <1>2, <1>4, <1>6 DEF AtRest, Cleaned, SystemOrdersTasks, Mine
  <2>3. QED
    BY <1>6, <2>1, <2>2
<1>14. Knows(q)'
  <2>1. KnowsStatus(q)'
    BY <1>3, <1>4, <1>5, <1>6, <1>12 DEF KnowsStatus, StatusGoes, SystemOrdersTasks
  <2>2. QED
    BY <1>1, <1>5, <2>1, StatusKnows DEF StatusGoes
<1>15. QED
  BY <1>7, <1>8, <1>9, <1>10, <1>11, <1>13, <1>14 DEF Right, LocalSound

\* The entry for the booking: the trail has caught up.
LEMMA StatusLogRight ==
    ASSUME TypeOK, TurnoverInv, NEW q \in Requests, Served(q), req[q].op = "status",
           NEW r \in Rooms, r = req[q].room, NEW b \in BookingIds, b = req[q].booking,
           LocalSound(q, r), StatusLog(q)
    PROVE  Right(q, r)
<1>1. "status" \in Ops /\ KnowsStatus(q) /\ req[q].pc = "log"
  BY DEF LocalSound, Knows, StatusLog, At
<1>2. /\ RoomTold(r) /\ SetAside(r) /\ Emptied(r)
      /\ Earned(r) \/ req[q].to = "CHECKED_OUT"
      /\ Shown(r) \/ req[q].to = "CHECKED_IN"
      /\ \A c \in Mine(r) : BookingTold(c) \/ c = b
      /\ \A c \in Mine(r) : Cleaned(c) \/ (req[q].to = "CHECKED_OUT" /\ c = b)
  <2>1. ~Logging(q, r) /\ ~Turning(q, r)
    BY <1>1 DEF Logging, Turning, At
  <2>2. /\ Leaving(q, r) => req[q].to = "CHECKED_OUT"
        /\ Arriving(q, r) => req[q].to = "CHECKED_IN"
        /\ \A c : Entering(q, c) => c = b
        /\ \A c : Ordering(q, c) => req[q].to = "CHECKED_OUT" /\ c = b
    BY DEF Leaving, Arriving, Entering, Ordering
  <2>3. QED
    BY <2>1, <2>2 DEF LocalSound
<1>3. /\ b \in BookedIn(r) /\ booking[b].status = req[q].to
      /\ ~room[r].deleted /\ room[r].status = req[q].seen
      /\ req[q].to = "CHECKED_OUT" /\ SystemOrdersTasks => CleaningOf(b) = {}
  BY <1>1 DEF KnowsStatus, Ordering
<1>4. /\ UNCHANGED <<booking, room, task, roomTrail>>
      /\ bookingTrail'[b] = req[q].to
      /\ \A c \in BookingIds \ {b} : bookingTrail'[c] = bookingTrail[c]
  BY DEF StatusLog, calendarVars, TypeOK
<1>5. /\ BookedIn(r)' = BookedIn(r) /\ Mine(r)' = Mine(r) /\ ActiveIn(r)' = ActiveIn(r)
      /\ OpenIn(r)' = OpenIn(r)
      /\ Hosts(r)' = Hosts(r)
      /\ \A c \in BookingIds : CleaningOf(c)' = CleaningOf(c)
  BY <1>4 DEF BookedIn, Mine, ActiveIn, OpenIn, Hosts, CleaningOf
<1>6. Beside(r) /\ OnlyCleanings'
  <2>1. OnlyCleanings'
    BY <1>4 DEF TurnoverInv, OnlyCleanings
  <2>2. b \in Mine(r)
    BY <1>3 DEF Mine, BookedIn
  <2>3. Beside(r)
    BY <1>4, <1>5, <2>2 DEF Beside, Mine
  <2>4. QED
    BY <2>1, <2>3
<1>7. /\ RoomTold(r)' /\ SetAside(r)' /\ Emptied(r)'
      /\ Earned(r)' = Earned(r)
      /\ Shown(r)' = Shown(r)
      /\ \A c \in Mine(r)' : BookingTold(c)'
      /\ \A c \in Mine(r)' : Cleaned(c)' = Cleaned(c)
  <2>1. /\ RoomTold(r)' /\ SetAside(r)' /\ Emptied(r)'
    BY <1>2, <1>4, <1>5 DEF RoomTold, SetAside, Emptied, SystemSetsStatus, SystemOrdersTasks
  <2>2. Earned(r)' = Earned(r) /\ Shown(r)' = Shown(r)
    BY <1>4, <1>5 DEF Earned, Shown, SystemSetsStatus
  <2>3. \A c \in Mine(r) : BookingTold(c)'
    BY <1>2, <1>3, <1>4 DEF BookingTold, Mine
  <2>4. \A c \in Mine(r) : Cleaned(c)' = Cleaned(c)
    BY <1>4, <1>5 DEF Cleaned, SystemOrdersTasks, Mine
  <2>5. QED
    BY <1>5, <2>1, <2>2, <2>3, <2>4
<1>8. CASE req[q].to = "CHECKED_IN" /\ req[q].seen # "OCCUPIED"
  <2>1. StatusGoes(q, "room")
    BY <1>8, StatusFields DEF StatusLog, StatusPcs
  <2>2. KnowsStatus(q)'
    BY <1>3, <1>4, <1>5, <1>8, <2>1 DEF KnowsStatus, StatusGoes, Ordering
  <2>3. Knows(q)'
    BY <1>1, <2>1, <2>2, StatusKnows DEF StatusGoes
  <2>4. Arriving(q, r)'
    BY <1>8, <2>1 DEF Arriving, StatusGoes
  <2>5. Earned(r) /\ \A c \in Mine(r) : Cleaned(c)
    BY <1>2, <1>8
  <2>6. QED
    BY <1>5, <1>6, <1>7, <2>3, <2>4, <2>5 DEF Right, LocalSound
<1>9. CASE req[q].to \in {"CHECKED_OUT", "CANCELLED"}
  <2>1. StatusGoes(q, "others")
    BY <1>9, StatusFields DEF StatusLog, StatusPcs
  <2>2. KnowsStatus(q)'
    BY <1>3, <1>4, <1>5, <1>9, <2>1 DEF KnowsStatus, StatusGoes, Ordering, SystemOrdersTasks
  <2>3. Knows(q)'
    BY <1>1, <2>1, <2>2, StatusKnows DEF StatusGoes
  <2>4. Earned(r) \/ Leaving(q, r)'
    BY <1>2, <2>1 DEF Leaving, StatusGoes
  <2>5. \A c \in Mine(r) : Cleaned(c) \/ Ordering(q, c)'
    BY <1>2, <2>1 DEF Ordering, StatusGoes
  <2>6. Shown(r)
    BY <1>2, <1>9
  <2>7. QED
    BY <1>5, <1>6, <1>7, <2>3, <2>4, <2>5, <2>6 DEF Right, LocalSound
<1>10. CASE /\ ~(req[q].to = "CHECKED_IN" /\ req[q].seen # "OCCUPIED")
            /\ req[q].to \notin {"CHECKED_OUT", "CANCELLED"}
  <2>1. Answer(q)
    BY <1>10 DEF StatusLog
  <2>2. Shown(r) /\ Earned(r) /\ \A c \in Mine(r) : Cleaned(c)
    BY <1>2, <1>3, <1>10 DEF Shown
  <2>3. Knows(q)'
    BY <2>1, AnsweredKnows
  <2>4. QED
    BY <1>5, <1>6, <1>7, <2>2, <2>3 DEF Right, LocalSound
<1>11. QED
  BY <1>8, <1>9, <1>10

\* UPDATE rooms: the room has the status that belongs to the booking's.
LEMMA StatusRoomRight ==
    ASSUME TypeOK, TurnoverInv, NEW q \in Requests, Served(q), req[q].op = "status",
           NEW r \in Rooms, r = req[q].room, NEW b \in BookingIds, b = req[q].booking,
           LocalSound(q, r), StatusRoom(q)
    PROVE  Right(q, r)
<1>1. "status" \in Ops /\ KnowsStatus(q) /\ req[q].pc = "room"
  BY DEF LocalSound, Knows, StatusRoom, At
<1>2. /\ RoomTold(r) /\ Emptied(r)
      /\ \A c \in Mine(r) : BookingTold(c)
      /\ \A c \in Mine(r) : Cleaned(c) \/ Ordering(q, c)
  <2>1. ~Logging(q, r) /\ \A c : ~Entering(q, c)
    BY <1>1 DEF Logging, At, Entering
  <2>2. QED
    BY <2>1 DEF LocalSound
<1>3. /\ b \in BookedIn(r) /\ booking[b].status = req[q].to
      /\ ~room[r].deleted /\ room[r].status = req[q].seen
      /\ req[q].to = "CHECKED_OUT" /\ SystemOrdersTasks => CleaningOf(b) = {}
      /\ \/ req[q].to = "CHECKED_IN"
         \/ req[q].to \in {"CHECKED_OUT", "CANCELLED"} /\ ~Hosts(r)
  BY <1>1 DEF KnowsStatus, Ordering
<1>4. /\ UNCHANGED <<booking, task, roomTrail, bookingTrail>>
      /\ room'[r].status = RoomStatusAfter(req[q].to)
      /\ room'[r].deleted = room[r].deleted
      /\ \A s \in Rooms \ {r} : room'[s] = room[s]
  BY DEF StatusRoom, SetRoomStatus, calendarVars, trailVars, TypeOK, RoomRow
<1>5. /\ BookedIn(r)' = BookedIn(r) /\ Mine(r)' = Mine(r) /\ ActiveIn(r)' = ActiveIn(r)
      /\ OpenIn(r)' = OpenIn(r)
      /\ Hosts(r)' = Hosts(r)
      /\ \A c \in BookingIds : CleaningOf(c)' = CleaningOf(c)
  BY <1>4 DEF BookedIn, Mine, ActiveIn, OpenIn, Hosts, CleaningOf
<1>6. StatusGoes(q, "roomLog")
  BY StatusFields DEF StatusRoom, StatusPcs
<1>7. Beside(r) /\ OnlyCleanings'
  <2>1. OnlyCleanings'
    BY <1>4 DEF TurnoverInv, OnlyCleanings
  <2>2. Beside(r)
    BY <1>4, <1>5 DEF Beside, Mine
  <2>3. QED
    BY <2>1, <2>2
<1>8. Logging(q, r)' /\ (req[q].to = "CHECKED_OUT" => Turning(q, r)')
  BY <1>6 DEF Logging, Turning, StatusGoes
<1>9. Earned(r)' /\ Shown(r)'
  <2>1. req[q].to = "CHECKED_IN" => Hosts(r)
    BY <1>3 DEF Hosts
  <2>2. QED
    BY <1>3, <1>4, <1>5, <2>1 DEF Earned, Shown, RoomStatusAfter
<1>10. SetAside(r)' \/ Turning(q, r)'
  BY <1>3, <1>4, <1>8 DEF SetAside, RoomStatusAfter
<1>11. Emptied(r)'
  BY <1>3, <1>4 DEF Emptied
<1>12. \A c \in Mine(r)' : BookingTold(c)'
  BY <1>2, <1>4, <1>5 DEF BookingTold, Mine
<1>13. \A c \in Mine(r)' : Cleaned(c)' \/ Ordering(q, c)'
  <2>1. ASSUME NEW c \in Mine(r) PROVE Cleaned(c)' \/ Ordering(q, c)'
    <3>1. Ordering(q, c) => Ordering(q, c)'
      BY <1>6 DEF Ordering, StatusGoes
    <3>2. Cleaned(c)' = Cleaned(c)
      BY <1>4, <1>5 DEF Cleaned, SystemOrdersTasks, Mine
    <3>3. QED
      BY <1>2, <3>1, <3>2
  <2>2. QED
    BY <1>5, <2>1
<1>14. Knows(q)'
  <2>1. KnowsStatus(q)'
    BY <1>2, <1>3, <1>4, <1>5, <1>6
       DEF KnowsStatus, StatusGoes, Ordering, SystemOrdersTasks, RoomTold
  <2>2. QED
    BY <1>1, <1>6, <2>1, StatusKnows DEF StatusGoes
<1>15. QED
  BY <1>7, <1>8, <1>9, <1>10, <1>11, <1>12, <1>13, <1>14 DEF Right, LocalSound

\* The entry for the room, and on to the cleaning when the guest has left.
LEMMA StatusRoomLogRight ==
    ASSUME TypeOK, TurnoverInv, NEW q \in Requests, Served(q), req[q].op = "status",
           NEW r \in Rooms, r = req[q].room, NEW b \in BookingIds, b = req[q].booking,
           LocalSound(q, r), StatusRoomLog(q)
    PROVE  Right(q, r)
<1>1. "status" \in Ops /\ KnowsStatus(q) /\ req[q].pc = "roomLog"
  BY DEF LocalSound, Knows, StatusRoomLog, At
<1>2. /\ Earned(r) /\ Shown(r) /\ Emptied(r)
      /\ SetAside(r) \/ req[q].to = "CHECKED_OUT"
      /\ \A c \in Mine(r) : BookingTold(c)
      /\ \A c \in Mine(r) : Cleaned(c) \/ (req[q].to = "CHECKED_OUT" /\ c = b)
  <2>1. /\ ~Leaving(q, r) /\ ~Arriving(q, r)
        /\ \A c : ~Entering(q, c)
        /\ Turning(q, r) => req[q].to = "CHECKED_OUT"
        /\ \A c : Ordering(q, c) => req[q].to = "CHECKED_OUT" /\ c = b
    BY <1>1 DEF Leaving, Arriving, Entering, Turning, Ordering
  <2>2. QED
    BY <2>1 DEF LocalSound
<1>3. /\ b \in BookedIn(r) /\ booking[b].status = req[q].to
      /\ ~room[r].deleted /\ room[r].status = RoomStatusAfter(req[q].to)
      /\ ~MayFail => roomTrail[r] = req[q].seen
      /\ req[q].to = "CHECKED_OUT" /\ SystemOrdersTasks => CleaningOf(b) = {}
  BY <1>1 DEF KnowsStatus, Ordering
<1>4. /\ UNCHANGED <<booking, room, task, bookingTrail>>
      /\ ~MayFail => roomTrail'[r] = RoomStatusAfter(req[q].to)
      /\ \A s \in Rooms \ {r} : roomTrail'[s] = roomTrail[s]
  BY <1>3 DEF StatusRoomLog, LogRoomStatus, calendarVars, TypeOK
<1>5. /\ BookedIn(r)' = BookedIn(r) /\ Mine(r)' = Mine(r) /\ ActiveIn(r)' = ActiveIn(r)
      /\ OpenIn(r)' = OpenIn(r)
      /\ Hosts(r)' = Hosts(r)
      /\ \A c \in BookingIds : CleaningOf(c)' = CleaningOf(c)
  BY <1>4 DEF BookedIn, Mine, ActiveIn, OpenIn, Hosts, CleaningOf
<1>6. Beside(r) /\ OnlyCleanings'
  <2>1. OnlyCleanings'
    BY <1>4 DEF TurnoverInv, OnlyCleanings
  <2>2. Beside(r)
    BY <1>4, <1>5 DEF Beside, Mine
  <2>3. QED
    BY <2>1, <2>2
<1>7. /\ RoomTold(r)' /\ Earned(r)' /\ Shown(r)' /\ Emptied(r)'
      /\ SetAside(r)' = SetAside(r)
      /\ \A c \in Mine(r)' : BookingTold(c)'
      /\ \A c \in Mine(r)' : Cleaned(c)' = Cleaned(c)
  <2>1. RoomTold(r)' /\ Emptied(r)'
    BY <1>2, <1>3, <1>4, <1>5 DEF RoomTold, Emptied
  <2>2. Earned(r)' /\ Shown(r)'
    BY <1>2, <1>4, <1>5 DEF Earned, Shown, SystemSetsStatus
  <2>3. SetAside(r)' = SetAside(r)
    BY <1>4, <1>5 DEF SetAside, SystemSetsStatus, SystemOrdersTasks
  <2>4. \A c \in Mine(r) : BookingTold(c)'
    BY <1>2, <1>4 DEF BookingTold, Mine
  <2>5. \A c \in Mine(r) : Cleaned(c)' = Cleaned(c)
    BY <1>4, <1>5 DEF Cleaned, SystemOrdersTasks, Mine
  <2>6. QED
    BY <1>5, <2>1, <2>2, <2>3, <2>4, <2>5
<1>8. CASE req[q].to = "CHECKED_OUT"
  <2>1. StatusGoes(q, "find")
    BY <1>8, StatusFields DEF StatusRoomLog, AfterRoom, StatusPcs
  <2>2. KnowsStatus(q)'
    BY <1>3, <1>4, <1>5, <1>8, <2>1 DEF KnowsStatus, StatusGoes, Ordering, SystemOrdersTasks
  <2>3. Knows(q)'
    BY <1>1, <2>1, <2>2, StatusKnows DEF StatusGoes
  <2>4. Turning(q, r)' /\ Ordering(q, b)'
    BY <1>8, <2>1 DEF Turning, Ordering, StatusGoes
  <2>5. \A c \in Mine(r) : Cleaned(c) \/ Ordering(q, c)'
    BY <1>2, <2>4
  <2>6. QED
    BY <1>5, <1>6, <1>7, <2>3, <2>4, <2>5 DEF Right, LocalSound
<1>9. CASE req[q].to # "CHECKED_OUT"
  <2>1. Answer(q)
    BY <1>9 DEF StatusRoomLog, AfterRoom
  <2>2. Knows(q)'
    BY <2>1, AnsweredKnows
  <2>3. SetAside(r) /\ \A c \in Mine(r) : Cleaned(c)
    BY <1>2, <1>9
  <2>4. QED
    BY <1>5, <1>6, <1>7, <2>2, <2>3 DEF Right, LocalSound
<1>10. QED
  BY <1>8, <1>9

\* The cleaning is ordered: the departed guest has one, and the room an open task.
LEMMA TaskOrderRight ==
    ASSUME TypeOK, TurnoverInv, NEW q \in Requests, Served(q), req[q].op = "status",
           NEW r \in Rooms, r = req[q].room, NEW b \in BookingIds, b = req[q].booking,
           LocalSound(q, r), TaskOrder(q)
    PROVE  Right(q, r)
<1>1. "status" \in Ops /\ KnowsStatus(q) /\ req[q].pc = "order"
  BY DEF LocalSound, Knows, TaskOrder, At
<1>2. /\ RoomTold(r) /\ Earned(r) /\ Shown(r) /\ Emptied(r)
      /\ \A c \in Mine(r) : BookingTold(c)
      /\ \A c \in Mine(r) \ {b} : Cleaned(c)
  <2>1. /\ ~Logging(q, r) /\ ~Leaving(q, r) /\ ~Arriving(q, r)
        /\ \A c : ~Entering(q, c)
        /\ \A c : Ordering(q, c) => c = b
    BY <1>1 DEF Logging, At, Leaving, Arriving, Entering, Ordering
  <2>2. QED
    BY <2>1 DEF LocalSound
<1>3. /\ b \in BookedIn(r) /\ booking[b].status = "CHECKED_OUT"
      /\ SystemOrdersTasks => CleaningOf(b) = {}
  BY <1>1 DEF KnowsStatus, Ordering
<1>4. PICK t \in TaskIds :
        /\ task[t] = NoRow
        /\ task' = [task EXCEPT ![t] = [status |-> "PENDING", room |-> r, booking |-> b,
                                        type |-> "CHECKOUT_CLEAN",
                                        assignee |-> req[q].assignee]]
  BY DEF TaskOrder
<1>5. /\ task'[t] # NoRow /\ task'[t].room = r /\ task'[t].booking = b
      /\ task'[t].status = "PENDING" /\ task'[t].type = "CHECKOUT_CLEAN"
      /\ \A u \in TaskIds \ {t} : task'[u] = task[u]
      /\ UNCHANGED <<booking, room, roomTrail, bookingTrail>>
  BY <1>4 DEF TaskOrder, calendarVars, trailVars, TypeOK, NoRow
<1>6. /\ BookedIn(r)' = BookedIn(r) /\ Mine(r)' = Mine(r) /\ ActiveIn(r)' = ActiveIn(r)
      /\ Hosts(r)' = Hosts(r)
      /\ b \in Mine(r)
  BY <1>3, <1>5 DEF BookedIn, Mine, ActiveIn, Hosts
<1>7. \A c \in BookingIds \ {b} : CleaningOf(c)' = CleaningOf(c)
  BY <1>4, <1>5 DEF CleaningOf
<1>8. SystemOrdersTasks => CleaningOf(b)' = {t}
  BY <1>3, <1>5 DEF CleaningOf
<1>9. OpenIn(r)'
  BY <1>5 DEF OpenIn, OpenTask
<1>10. Beside(r) /\ OnlyCleanings'
  <2>1. OnlyCleanings'
    BY <1>5 DEF TurnoverInv, OnlyCleanings
  <2>2. \A u \in TaskIds :
          IF task[u] = NoRow \/ task[u].room = r
          THEN task'[u] = NoRow \/ task'[u].room = r
          ELSE task'[u] = task[u] /\ task[u] # NoRow
    BY <1>4, <1>5
  <2>3. Beside(r)
    BY <1>5, <1>6, <1>7, <2>2 DEF Beside, Mine
  <2>4. QED
    BY <2>1, <2>3
<1>11. RoomTold(r)' /\ Emptied(r)'
  BY <1>2, <1>5, <1>6 DEF RoomTold, Emptied
<1>12. Earned(r)' /\ Shown(r)'
  BY <1>2, <1>5, <1>6 DEF Earned, Shown, SystemSetsStatus
<1>13. SetAside(r)'
  BY <1>9 DEF SetAside
<1>14. \A c \in Mine(r)' : BookingTold(c)'
  BY <1>2, <1>5, <1>6 DEF BookingTold, Mine
<1>15. \A c \in Mine(r)' : Cleaned(c)'
  <2>1. Cleaned(b)'
    BY <1>3, <1>5, <1>8 DEF Cleaned, SystemOrdersTasks
  <2>2. ASSUME NEW c \in Mine(r) \ {b} PROVE Cleaned(c)'
    BY <1>2, <1>5, <1>7 DEF Cleaned, SystemOrdersTasks, Mine
  <2>3. QED
    BY <1>6, <2>1, <2>2
<1>16. Knows(q)'
  BY AnsweredKnows DEF TaskOrder
<1>17. QED
  BY <1>10, <1>11, <1>12, <1>13, <1>14, <1>15, <1>16 DEF Right, LocalSound

-----------------------------------------------------------------------------
(***************************************************************************)
(* The steps of create and of the extensions.                              *)
(***************************************************************************)

\* Of the requests for a room only those of updateStatus, of a cleaning, and those that
\* are about to write an entry, excuse anything.
LEMMA NoExcuse ==
    ASSUME NEW q \in Requests, NEW r, LocalSound(q, r), Served(q),
           req[q].op \in {"create", "extend", "task", "manual", "archive"},
           req[q].pc \notin {"log", "roomLog"}
    PROVE  AtRest(r)
  BY DEF LocalSound, AtRest, Logging, Leaving, Arriving, Turning, Entering, Ordering, At

LEMMA CreateRight ==
    ASSUME TypeOK, TurnoverInv, NEW q \in Requests, Served(q), req[q].op = "create",
           NEW r \in Rooms, r = req[q].room,
           LocalSound(q, r), CreateCheck(q) \/ CreateInsert(q) \/ CreateLog(q)
    PROVE  Right(q, r)
<1>1. "create" \in Ops /\ KnowsCreate(q) /\ ~room[r].deleted
  BY DEF LocalSound, Knows, KnowsCreate
<1>2. CASE CreateCheck(q)
  <2>1. AtRest(r) /\ UNCHANGED tables
    BY <1>2, NoExcuse DEF CreateCheck, At, tables, calendarVars, trailVars
  <2>2. CASE Answer(q)
    BY <2>1, <2>2, AnsweredRight
  <2>3. CASE Goto(q, "insert")
    <3>1. req'[q].op = "create" /\ req'[q].pc = "insert" /\ req'[q].room = r
      BY <2>3, GotoKeeps
    <3>2. Knows(q)'
      BY <1>1, <2>1, <3>1 DEF Knows, KnowsCreate, KnowsExtend, KnowsStatus, KnowsTask,
                              KnowsClean, KnowsDesk, tables
    <3>3. QED
      BY <2>1, <3>2, ReadRight
  <2>4. QED
    BY <1>2, <2>2, <2>3 DEF CreateCheck
<1>3. CASE CreateInsert(q)
  <2>1. AtRest(r)
    BY <1>3, NoExcuse DEF CreateInsert, At
  <2>2. PICK b \in BookingIds :
           /\ booking[b] = NoRow
           /\ booking' = [booking EXCEPT ![b] =
                            [status |-> "CONFIRMED", room |-> req[q].room,
                             checkIn |-> req[q].checkIn, checkOut |-> req[q].checkOut,
                             actualCheckOut |-> Null]]
           /\ req' = [req EXCEPT ![q] = [op |-> "create", pc |-> "log",
                                         room |-> req[q].room, booking |-> b]]
    BY <1>3 DEF CreateInsert
  <2>3. /\ booking'[b].status = "CONFIRMED" /\ booking'[b].room = r /\ booking'[b] # NoRow
        /\ \A c \in BookingIds \ {b} : booking'[c] = booking[c]
        /\ UNCHANGED <<room, task, roomTrail, bookingTrail>>
    BY <1>3, <2>2 DEF CreateInsert, trailVars, TypeOK, NoRow
  <2>4. /\ req'[q].op = "create" /\ req'[q].pc = "log" /\ req'[q].room = r
        /\ req'[q].booking = b /\ Served(q)'
    BY <2>2 DEF TypeOK, Served, Idle
  <2>5. /\ Mine(r)' = Mine(r) /\ b \in Mine(r)
        /\ b \in BookedIn(r)'
        /\ OpenIn(r)' = OpenIn(r)
        /\ \A c \in BookingIds : CleaningOf(c)' = CleaningOf(c)
    BY <2>2, <2>3 DEF Mine, BookedIn, OpenIn, CleaningOf
  <2>6. Hosts(r)' = Hosts(r)
    <3>1. \A c \in BookingIds : c \in BookedIn(r)' /\ booking'[c].status = "CHECKED_IN"
                              <=> c \in BookedIn(r) /\ booking[c].status = "CHECKED_IN"
      BY <2>2, <2>3 DEF BookedIn
    <3>2. QED
      BY <3>1 DEF Hosts, BookedIn
  <2>7. Beside(r) /\ OnlyCleanings'
    <3>1. OnlyCleanings'
      BY <2>3 DEF TurnoverInv, OnlyCleanings
    <3>2. Beside(r)
      BY <2>3, <2>5 DEF Beside, Mine
    <3>3. QED
      BY <3>1, <3>2
  <2>8. RoomTold(r)' /\ Emptied(r)'
    BY <1>1, <2>1, <2>3 DEF AtRest, RoomTold, Emptied
  <2>9. Earned(r)' /\ Shown(r)'
    BY <2>1, <2>3, <2>6 DEF AtRest, Earned, Shown, SystemSetsStatus
  <2>10. SetAside(r)'
    BY <2>1, <2>3, <2>5 DEF AtRest, SetAside, SystemSetsStatus, SystemOrdersTasks
  <2>11. \A c \in Mine(r)' : BookingTold(c)' \/ Entering(q, c)'
    <3>1. Entering(q, b)'
      BY <2>4 DEF Entering
    <3>2. ASSUME NEW c \in Mine(r) \ {b} PROVE BookingTold(c)'
      BY <2>1, <2>3 DEF AtRest, BookingTold, Mine
    <3>3. QED
      BY <2>5, <3>1, <3>2
  <2>12. \A c \in Mine(r)' : Cleaned(c)'
    <3>1. Cleaned(b)'
      BY <2>1, <2>2, <2>3, <2>5 DEF AtRest, Cleaned, SystemOrdersTasks, NoRow
    <3>2. ASSUME NEW c \in Mine(r) \ {b} PROVE Cleaned(c)'
      BY <2>1, <2>3, <2>5 DEF AtRest, Cleaned, SystemOrdersTasks, Mine
    <3>3. QED
      BY <2>5, <3>1, <3>2
  <2>13. Knows(q)'
    BY <1>1, <2>3, <2>4, <2>5 DEF Knows, KnowsCreate, KnowsExtend, KnowsStatus, KnowsTask,
                                  KnowsClean, KnowsDesk
  <2>14. QED
    BY <2>7, <2>8, <2>9, <2>10, <2>11, <2>12, <2>13 DEF Right, LocalSound
<1>4. CASE CreateLog(q)
  <2>1. req[q].pc = "log" /\ Answer(q)
    BY <1>4 DEF CreateLog, At
  <2>2. PICK b \in BookingIds : b = req[q].booking
    BY <1>1, <2>1 DEF KnowsCreate, BookedIn
  <2>3. /\ booking[b].status = "CONFIRMED" /\ b \in BookedIn(r)
        /\ UNCHANGED <<booking, room, task, roomTrail>>
        /\ bookingTrail'[b] = "CONFIRMED"
        /\ \A c \in BookingIds \ {b} : bookingTrail'[c] = bookingTrail[c]
    BY <1>1, <1>4, <2>1, <2>2 DEF KnowsCreate, CreateLog, calendarVars, TypeOK
  <2>4. /\ RoomTold(r) /\ Earned(r) /\ Shown(r) /\ SetAside(r) /\ Emptied(r)
        /\ \A c \in Mine(r) : BookingTold(c) \/ c = b
        /\ \A c \in Mine(r) : Cleaned(c)
    BY <2>1, <2>2 DEF LocalSound, Logging, Leaving, Arriving, Turning, Entering, Ordering, At
  <2>5. /\ BookedIn(r)' = BookedIn(r) /\ Mine(r)' = Mine(r) /\ ActiveIn(r)' = ActiveIn(r)
        /\ OpenIn(r)' = OpenIn(r)
        /\ Hosts(r)' = Hosts(r)
        /\ \A c \in BookingIds : CleaningOf(c)' = CleaningOf(c)
    BY <2>3 DEF BookedIn, Mine, ActiveIn, OpenIn, Hosts, CleaningOf
  <2>6. Beside(r) /\ OnlyCleanings'
    <3>1. OnlyCleanings'
      BY <2>3 DEF TurnoverInv, OnlyCleanings
    <3>2. b \in Mine(r)
      BY <2>3 DEF Mine, BookedIn
    <3>3. Beside(r)
      BY <2>3, <2>5, <3>2 DEF Beside, Mine
    <3>4. QED
      BY <3>1, <3>3
  <2>7. RoomTold(r)' /\ Emptied(r)'
    BY <2>3, <2>4, <2>5 DEF RoomTold, Emptied
  <2>8. Earned(r)' /\ Shown(r)'
    BY <2>3, <2>4, <2>5 DEF Earned, Shown, SystemSetsStatus
  <2>9. SetAside(r)'
    BY <2>3, <2>4, <2>5 DEF SetAside, SystemSetsStatus, SystemOrdersTasks
  <2>10. \A c \in Mine(r)' : BookingTold(c)'
    BY <2>3, <2>4, <2>5 DEF BookingTold, Mine
  <2>11. \A c \in Mine(r)' : Cleaned(c)'
    BY <2>3, <2>4, <2>5 DEF Cleaned, SystemOrdersTasks, Mine
  <2>12. QED
    BY <2>1, <2>6, <2>7, <2>8, <2>9, <2>10, <2>11, AnsweredKnows DEF Right, LocalSound
<1>5. QED
  BY <1>2, <1>3, <1>4

\* An extension moves a check-out and leaves the status alone.
LEMMA ExtendRight ==
    ASSUME TypeOK, TurnoverInv, NEW q \in Requests, Served(q), req[q].op = "extend",
           NEW r \in Rooms, r = req[q].room,
           LocalSound(q, r), ExtendCheck(q) \/ ExtendWrite(q)
    PROVE  Right(q, r)
<1>1. "extend" \in Ops /\ KnowsExtend(q) /\ AtRest(r)
  BY NoExcuse DEF LocalSound, Knows, ExtendCheck, ExtendWrite, At
<1>2. CASE ExtendCheck(q)
  <2>1. UNCHANGED tables
    BY <1>2 DEF ExtendCheck, tables, calendarVars, trailVars
  <2>2. CASE Answer(q)
    BY <1>1, <2>1, <2>2, AnsweredRight
  <2>3. CASE Goto(q, "write")
    <3>1. /\ req'[q].op = "extend" /\ req'[q].room = r
          /\ req'[q].booking = req[q].booking
      BY <2>3 DEF Goto, Served, Idle, TypeOK, BookingRequest, HousekeepingRequest, RoomDeskRequest
    <3>2. Knows(q)'
      BY <1>1, <2>1, <3>1 DEF Knows, KnowsCreate, KnowsExtend, KnowsStatus, KnowsTask,
                              KnowsClean, KnowsDesk, tables, BookedIn
    <3>3. QED
      BY <1>1, <2>1, <3>2, ReadRight
  <2>4. QED
    BY <1>2, <2>2, <2>3 DEF ExtendCheck
<1>3. CASE ExtendWrite(q)
  <2>1. PICK b \in BookingIds : b = req[q].booking /\ b \in BookedIn(r)
    BY <1>1 DEF KnowsExtend, BookedIn
  <2>2. booking[b] \in BookingRow
    BY <2>1 DEF BookedIn, TypeOK
  <2>3. /\ booking'[b].status = booking[b].status /\ booking'[b].room = booking[b].room
        /\ \A c \in BookingIds \ {b} : booking'[c] = booking[c]
        /\ UNCHANGED <<room, task, roomTrail, bookingTrail>>
    BY <1>3, <2>1, <2>2 DEF ExtendWrite, trailVars, TypeOK, BookingRow
  <2>4. booking'[b] # NoRow
    BY <2>2, <2>3 DEF BookingRow, BookingStatus, NoRow
  <2>5. \A c \in BookingIds : /\ booking'[c].status = booking[c].status
                              /\ booking[c] = NoRow => booking'[c] = NoRow
                              /\ booking[c] # NoRow => /\ booking'[c] # NoRow
                                                       /\ booking'[c].room = booking[c].room
    BY <2>1, <2>3, <2>4 DEF BookedIn
  <2>6. /\ BookedIn(r)' = BookedIn(r) /\ Mine(r)' = Mine(r) /\ OpenIn(r)' = OpenIn(r)
        /\ \A c \in BookingIds : CleaningOf(c)' = CleaningOf(c)
    <3>1. ASSUME NEW c \in BookingIds
          PROVE  /\ c \in BookedIn(r)' <=> c \in BookedIn(r)
                 /\ c \in Mine(r)' <=> c \in Mine(r)
      BY <2>5 DEF BookedIn, Mine
    <3>2. BookedIn(r)' = BookedIn(r) /\ Mine(r)' = Mine(r)
      BY <3>1 DEF BookedIn, Mine
    <3>3. OpenIn(r)' = OpenIn(r) /\ \A c \in BookingIds : CleaningOf(c)' = CleaningOf(c)
      BY <2>3 DEF OpenIn, CleaningOf
    <3>4. QED
      BY <3>2, <3>3
  <2>7. ActiveIn(r)' = ActiveIn(r) /\ Hosts(r)' = Hosts(r)
    <3>1. \A c \in BookedIn(r) : booking'[c].status = booking[c].status
      BY <2>5 DEF BookedIn
    <3>2. QED
      BY <2>6, <3>1 DEF ActiveIn, Hosts
  <2>8. Beside(r) /\ OnlyCleanings'
    <3>1. OnlyCleanings'
      BY <2>3 DEF TurnoverInv, OnlyCleanings
    <3>2. Beside(r)
      BY <2>1, <2>3, <2>5, <2>6 DEF Beside, Mine, BookedIn
    <3>3. QED
      BY <3>1, <3>2
  <2>9. RoomTold(r)' /\ Emptied(r)'
    BY <1>1, <2>3, <2>7 DEF AtRest, RoomTold, Emptied
  <2>10. Earned(r)' /\ Shown(r)'
    BY <1>1, <2>3, <2>7 DEF AtRest, Earned, Shown, SystemSetsStatus
  <2>11. SetAside(r)'
    BY <1>1, <2>3, <2>6 DEF AtRest, SetAside, SystemSetsStatus, SystemOrdersTasks
  <2>12. \A c \in Mine(r)' : BookingTold(c)' /\ Cleaned(c)'
    BY <1>1, <2>3, <2>5, <2>6 DEF AtRest, BookingTold, Cleaned, SystemOrdersTasks, Mine
  <2>13. Knows(q)'
    BY <1>3, AnsweredKnows DEF ExtendWrite
  <2>14. QED
    BY <2>8, <2>9, <2>10, <2>11, <2>12, <2>13 DEF Right, LocalSound
<1>4. QED
  BY <1>2, <1>3

-----------------------------------------------------------------------------
(***************************************************************************)
(* The steps of housekeeping.                                              *)
(***************************************************************************)

\* A call that writes rooms or their trail leaves bookings and tasks as they are.
LEMMA RoomCall ==
    ASSUME TurnoverInv, NEW r \in Rooms, UNCHANGED <<booking, task, bookingTrail>>,
           \A s \in Rooms \ {r} : room'[s] = room[s] /\ roomTrail'[s] = roomTrail[s]
    PROVE  /\ Beside(r) /\ OnlyCleanings'
           /\ Hosts(r)' = Hosts(r)
           /\ OpenIn(r)' = OpenIn(r)
           /\ ActiveIn(r)' = ActiveIn(r)
           /\ Mine(r)' = Mine(r)
           /\ \A b \in Mine(r) : BookingTold(b)' = BookingTold(b) /\ Cleaned(b)' = Cleaned(b)
<1>1. /\ BookedIn(r)' = BookedIn(r) /\ ActiveIn(r)' = ActiveIn(r) /\ Mine(r)' = Mine(r)
      /\ Hosts(r)' = Hosts(r)
      /\ OpenIn(r)' = OpenIn(r)
  BY DEF BookedIn, ActiveIn, Mine, Hosts, OpenIn
<1>2. \A b \in BookingIds : CleaningOf(b)' = CleaningOf(b)
  BY DEF CleaningOf
<1>3. Beside(r)
  BY <1>2 DEF Beside, Mine
<1>4. OnlyCleanings'
  BY DEF TurnoverInv, OnlyCleanings
<1>5. \A b \in Mine(r) : BookingTold(b)' = BookingTold(b) /\ Cleaned(b)' = Cleaned(b)
  BY <1>2 DEF BookingTold, Cleaned, SystemOrdersTasks, Mine
<1>6. QED
  BY <1>1, <1>3, <1>4, <1>5

\* What is left to show of such a call when q excuses nothing about bookings.
LEMMA RoomCallRight ==
    ASSUME TurnoverInv, NEW q \in Requests, NEW r \in Rooms,
           UNCHANGED <<booking, task, bookingTrail>>,
           \A s \in Rooms \ {r} : room'[s] = room[s] /\ roomTrail'[s] = roomTrail[s],
           \A b \in Mine(r) : BookingTold(b) /\ Cleaned(b),
           RoomTold(r)' \/ Logging(q, r)', Earned(r)', Shown(r)', SetAside(r)', Emptied(r)',
           Knows(q)'
    PROVE  Right(q, r)
<1>1. \A b \in Mine(r)' : BookingTold(b)' /\ Cleaned(b)'
  BY RoomCall
<1>2. LocalSound(q, r)'
  BY <1>1 DEF LocalSound
<1>3. QED
  BY <1>2, RoomCall DEF Right

LEMMA TaskKnows ==
    ASSUME NEW q \in Requests, req'[q].op = "task", "task" \in Ops, KnowsTask(q)'
    PROVE  Knows(q)'
  BY DEF Knows, KnowsCreate, KnowsExtend, KnowsStatus, KnowsClean, KnowsDesk

\* A task ordered by hand, and the room set aside for a cleaning.
LEMMA TaskRight ==
    ASSUME TypeOK, TurnoverInv, NEW q \in Requests, Served(q), req[q].op = "task",
           NEW r \in Rooms, r = req[q].room, LocalSound(q, r),
           \/ TaskDispatch(q) \/ TaskInsert(q) \/ MarkRead(q) \/ MarkRoom(q) \/ MarkRoomLog(q)
    PROVE  Right(q, r)
<1>1. "task" \in Ops /\ KnowsTask(q) /\ ~room[r].deleted
  BY DEF LocalSound, Knows, KnowsTask
<1>2. ~SystemOrdersTasks
  BY <1>1 DEF SystemOrdersTasks
<1>3. /\ Earned(r) /\ Shown(r) /\ Emptied(r)
      /\ \A c \in Mine(r) : BookingTold(c) /\ Cleaned(c)
      /\ RoomTold(r) \/ req[q].pc = "roomLog"
  <2>1. /\ ~Leaving(q, r) /\ ~Arriving(q, r)
        /\ \A c : ~Entering(q, c) /\ ~Ordering(q, c)
        /\ Logging(q, r) => req[q].pc = "roomLog"
    BY DEF Leaving, Arriving, Entering, Ordering, Logging, At
  <2>2. QED
    BY <2>1 DEF LocalSound
<1>4. SetAside(r) /\ SetAside(r)'
  BY <1>2 DEF SetAside, SystemOrdersTasks
<1>5. CASE TaskDispatch(q)
  <2>1. AtRest(r) /\ UNCHANGED tables
    BY <1>3, <1>4, <1>5 DEF AtRest, TaskDispatch, At, tables, calendarVars, trailVars
  <2>2. req'[q].op = "task" /\ req'[q].pc = "insert" /\ req'[q].room = r
    BY <1>5 DEF TaskDispatch, At, Served, Idle, TypeOK, BookingRequest,
                HousekeepingRequest, RoomDeskRequest
  <2>3. Knows(q)'
    BY <1>1, <2>1, <2>2, TaskKnows DEF KnowsTask, tables
  <2>4. QED
    BY <2>1, <2>3, ReadRight
<1>6. CASE TaskInsert(q)
  <2>1. PICK t \in TaskIds :
          /\ task[t] = NoRow
          /\ task' = [task EXCEPT ![t] = [status |-> "PENDING", room |-> r,
                                          booking |-> req[q].booking, type |-> req[q].type,
                                          assignee |-> req[q].assignee]]
    BY <1>6 DEF TaskInsert
  <2>2. /\ task'[t] # NoRow /\ task'[t].room = r
        /\ \A u \in TaskIds \ {t} : task'[u] = task[u]
        /\ UNCHANGED <<booking, room, roomTrail, bookingTrail>>
    BY <1>6, <2>1 DEF TaskInsert, calendarVars, trailVars, TypeOK, NoRow
  <2>3. /\ BookedIn(r)' = BookedIn(r) /\ Mine(r)' = Mine(r) /\ ActiveIn(r)' = ActiveIn(r)
        /\ Hosts(r)' = Hosts(r)
    BY <2>2 DEF BookedIn, Mine, ActiveIn, Hosts
  <2>4. Beside(r) /\ OnlyCleanings'
    <3>1. OnlyCleanings'
      BY <1>1 DEF OnlyCleanings
    <3>2. \A u \in TaskIds :
            IF task[u] = NoRow \/ task[u].room = r
            THEN task'[u] = NoRow \/ task'[u].room = r
            ELSE task'[u] = task[u] /\ task[u] # NoRow
      BY <2>1, <2>2
    <3>3. Beside(r)
      BY <1>2, <2>2, <2>3, <3>2 DEF Beside, Mine
    <3>4. QED
      BY <3>1, <3>3
  <2>5. Earned(r)' /\ Shown(r)' /\ Emptied(r)'
    BY <1>3, <2>2, <2>3 DEF Earned, Shown, Emptied, SystemSetsStatus
  <2>6. RoomTold(r)'
    BY <1>3, <1>6, <2>2 DEF RoomTold, TaskInsert, At
  <2>7. \A c \in Mine(r)' : BookingTold(c)' /\ Cleaned(c)'
    BY <1>2, <1>3, <2>2, <2>3 DEF BookingTold, Cleaned, SystemOrdersTasks, Mine
  <2>8. Knows(q)'
    <3>1. CASE Answer(q)
      BY <3>1, AnsweredKnows
    <3>2. CASE Goto(q, "mark")
      <4>1. req'[q].op = "task" /\ req'[q].pc = "mark" /\ req'[q].room = r
        BY <3>2, GotoKeeps
      <4>2. QED
        BY <1>1, <2>2, <4>1, TaskKnows DEF KnowsTask
    <3>3. QED
      BY <1>6, <3>1, <3>2 DEF TaskInsert
  <2>9. QED
    BY <1>4, <2>4, <2>5, <2>6, <2>7, <2>8 DEF Right, LocalSound
<1>7. CASE MarkRead(q)
  <2>1. AtRest(r) /\ UNCHANGED tables
    BY <1>3, <1>4, <1>7 DEF AtRest, MarkRead, At, tables, calendarVars, trailVars
  <2>2. CASE room[r].deleted \/ room[r].status # "AVAILABLE"
    <3>1. Answer(q)
      BY <1>7, <2>2 DEF MarkRead
    <3>2. QED
      BY <2>1, <3>1, AnsweredRight
  <2>3. CASE ~room[r].deleted /\ room[r].status = "AVAILABLE"
    <3>1. Goto(q, "room")
      BY <1>7, <2>3 DEF MarkRead
    <3>2. req'[q].op = "task" /\ req'[q].pc = "room" /\ req'[q].room = r
      BY <3>1, GotoKeeps
    <3>3. Knows(q)'
      BY <1>1, <2>1, <2>3, <3>2, TaskKnows DEF KnowsTask, tables
    <3>4. QED
      BY <2>1, <3>3, ReadRight
  <2>4. QED
    BY <2>2, <2>3
<1>8. CASE MarkRoom(q)
  <2>1. /\ RoomTold(r) /\ room[r].status = "AVAILABLE"
        /\ UNCHANGED <<booking, task, roomTrail, bookingTrail>>
        /\ room'[r].status = "MAINTENANCE" /\ room'[r].deleted = room[r].deleted
        /\ \A s \in Rooms \ {r} : room'[s] = room[s]
    BY <1>1, <1>3, <1>8 DEF KnowsTask, MarkRoom, At, SetRoomStatus, calendarVars, trailVars, TypeOK,
                            RoomRow
  <2>2. /\ Served(q)' /\ req'[q].op = "task" /\ req'[q].pc = "roomLog" /\ req'[q].room = r
    BY <1>8, GotoKeeps DEF MarkRoom
  <2>3. Logging(q, r)'
    BY <2>2 DEF Logging
  <2>4. Hosts(r)' = Hosts(r)
    BY <2>1, RoomCall
  <2>5. Earned(r)' /\ Shown(r)' /\ Emptied(r)'
    BY <1>1, <1>3, <2>1, <2>4 DEF Earned, Shown, Emptied, SystemSetsStatus
  <2>6. Knows(q)'
    BY <1>1, <2>1, <2>2, TaskKnows DEF KnowsTask, RoomTold
  <2>7. QED
    BY <1>3, <1>4, <2>1, <2>3, <2>5, <2>6, RoomCallRight
<1>9. CASE MarkRoomLog(q)
  <2>1. /\ ~MayFail => roomTrail'[r] = "MAINTENANCE"
        /\ room[r].status = "MAINTENANCE"
        /\ UNCHANGED <<booking, task, room, bookingTrail>>
        /\ \A s \in Rooms \ {r} : roomTrail'[s] = roomTrail[s]
    BY <1>1, <1>9 DEF KnowsTask, MarkRoomLog, At, LogRoomStatus, calendarVars, TypeOK
  <2>2. Hosts(r)' = Hosts(r) /\ ActiveIn(r)' = ActiveIn(r)
    BY <2>1, RoomCall
  <2>3. Earned(r)' /\ Shown(r)' /\ Emptied(r)' /\ RoomTold(r)'
    BY <1>3, <2>1, <2>2 DEF Earned, Shown, Emptied, RoomTold, SystemSetsStatus
  <2>4. Knows(q)'
    BY <1>9, AnsweredKnows DEF MarkRoomLog
  <2>5. QED
    BY <1>3, <1>4, <2>1, <2>3, <2>4, RoomCallRight
<1>10. QED
  BY <1>5, <1>6, <1>7, <1>8, <1>9

LEMMA CleanKnows ==
    ASSUME NEW q \in Requests, req'[q].op = "clean", "clean" \in Ops, KnowsClean(q)'
    PROVE  Knows(q)'
  BY DEF Knows, KnowsCreate, KnowsExtend, KnowsStatus, KnowsTask, KnowsDesk

\* A cleaning excuses only that a room waits to be given back, or to be entered.
LEMMA CleanExcuse ==
    ASSUME NEW q \in Requests, NEW r, LocalSound(q, r), Served(q), req[q].op = "clean"
    PROVE  /\ Earned(r) /\ Shown(r) /\ Emptied(r)
           /\ \A c \in Mine(r) : BookingTold(c) /\ Cleaned(c)
           /\ RoomTold(r) \/ req[q].pc = "roomLog"
           /\ SetAside(r) \/ req[q].pc \in {"release", "room"}
<1>1. /\ ~Leaving(q, r) /\ ~Arriving(q, r)
      /\ \A c : ~Entering(q, c) /\ ~Ordering(q, c)
      /\ Logging(q, r) => req[q].pc = "roomLog"
      /\ Turning(q, r) => req[q].pc \in {"release", "room"}
  BY DEF Leaving, Arriving, Entering, Ordering, Logging, Turning, At
<1>2. QED
  BY <1>1 DEF LocalSound

\* A task moves on; when a check-out cleaning is done, the release begins.
LEMMA CleanWriteRight ==
    ASSUME TypeOK, TurnoverInv, NEW q \in Requests, Served(q), req[q].op = "clean",
           NEW r \in Rooms, r = req[q].room, LocalSound(q, r), CleanWrite(q)
    PROVE  Right(q, r)
<1>1. "clean" \in Ops /\ KnowsClean(q) /\ req[q].pc = "write"
  BY DEF LocalSound, Knows, CleanWrite, At
<1>2. /\ RoomTold(r) /\ Earned(r) /\ Shown(r) /\ Emptied(r) /\ SetAside(r)
      /\ \A c \in Mine(r) : BookingTold(c) /\ Cleaned(c)
  BY <1>1, CleanExcuse
<1>3. PICK t \in TaskIds : t = req[q].task
  BY <1>1 DEF TypeOK, BookingRequest, HousekeepingRequest, RoomDeskRequest, Served
<1>4. /\ task[t] # NoRow /\ task[t] \in TaskRow /\ task[t].room = r
      /\ req[q].to \in {"IN_PROGRESS", "DONE"}
  BY <1>1, <1>3 DEF KnowsClean, TypeOK
<1>5. /\ task'[t].status = req[q].to /\ task'[t].room = r
      /\ task'[t].booking = task[t].booking /\ task'[t].type = task[t].type
      /\ \A u \in TaskIds \ {t} : task'[u] = task[u]
      /\ UNCHANGED <<booking, room, roomTrail, bookingTrail>>
  BY <1>3, <1>4 DEF CleanWrite, calendarVars, trailVars, TypeOK, TaskRow
<1>6. task'[t] # NoRow
  BY <1>4, <1>5 DEF NoRow
<1>7. /\ BookedIn(r)' = BookedIn(r) /\ Mine(r)' = Mine(r) /\ ActiveIn(r)' = ActiveIn(r)
      /\ Hosts(r)' = Hosts(r)
  BY <1>5 DEF BookedIn, Mine, ActiveIn, Hosts
<1>8. \A c \in BookingIds : CleaningOf(c)' = CleaningOf(c)
  BY <1>4, <1>5, <1>6 DEF CleaningOf
<1>9. Beside(r) /\ OnlyCleanings'
  <2>1. OnlyCleanings'
    BY <1>4, <1>5 DEF TurnoverInv, OnlyCleanings
  <2>2. Beside(r)
    BY <1>4, <1>5, <1>6, <1>7, <1>8 DEF Beside, Mine
  <2>3. QED
    BY <2>1, <2>2
<1>10. RoomTold(r)' /\ Emptied(r)'
  BY <1>2, <1>5, <1>7 DEF RoomTold, Emptied
<1>11. Earned(r)' /\ Shown(r)'
  BY <1>2, <1>5, <1>7 DEF Earned, Shown, SystemSetsStatus
<1>12. \A c \in Mine(r)' : BookingTold(c)' /\ Cleaned(c)'
  BY <1>2, <1>5, <1>7, <1>8 DEF BookingTold, Cleaned, SystemOrdersTasks, Mine
<1>13. CASE req[q].to = "DONE" /\ task[t].type = "CHECKOUT_CLEAN"
  <2>1. req'[q] = [op |-> "clean", pc |-> "release", room |-> r, task |-> t,
                   unread |-> ReleaseQueries, release |-> TRUE]
    BY <1>3, <1>13 DEF CleanWrite, TypeOK
  <2>2. Turning(q, r)'
    BY <2>1 DEF Turning, Served, Idle
  <2>3. KnowsClean(q)'
    BY <1>5, <1>6, <1>13, <2>1 DEF KnowsClean, Answered, ReleaseQueries
  <2>4. Knows(q)'
    BY <1>1, <2>1, <2>3, CleanKnows
  <2>5. QED
    BY <1>9, <1>10, <1>11, <1>12, <2>2, <2>4 DEF Right, LocalSound
<1>14. CASE ~(req[q].to = "DONE" /\ task[t].type = "CHECKOUT_CLEAN")
  <2>1. Answer(q)
    BY <1>3, <1>14 DEF CleanWrite
  <2>2. SetAside(r)'
    <3>1. CASE req[q].to = "IN_PROGRESS"
      BY <1>5, <1>6, <3>1 DEF SetAside, OpenIn, OpenTask
    <3>2. CASE task[t].type # "CHECKOUT_CLEAN"
      BY <1>4, <3>2 DEF SetAside, SystemOrdersTasks, TurnoverInv, OnlyCleanings
    <3>3. QED
      BY <1>4, <1>14, <3>1, <3>2
  <2>3. QED
    BY <1>9, <1>10, <1>11, <1>12, <2>1, <2>2, AnsweredKnows DEF Right, LocalSound
<1>15. QED
  BY <1>13, <1>14

\* What an answer to one of the three queries says about the room.
LEMMA QueryAnswer ==
    ASSUME TypeOK, NEW q \in Requests, NEW r \in Rooms, r = req[q].room, Shown(r), Emptied(r),
           req[q].task \in TaskIds, task[req[q].task] # NoRow, task[req[q].task].status = "DONE",
           NEW query \in ReleaseQueries
    PROVE  /\ NoBlocker(q, query) =>
                 /\ query = "openTask" => ~OpenIn(r)
                 /\ query = "guest" => ~Hosts(r)
                 /\ query = "room" => ~room[r].deleted /\ room[r].status = "MAINTENANCE"
           /\ ~NoBlocker(q, query) => SetAside(r)
<1>1. CASE query = "openTask"
  <2>1. NoBlocker(q, query) <=> \A t \in TaskIds \ {req[q].task} :
          ~(task[t] # NoRow /\ task[t].room = r /\ task[t].status \in OpenTask)
    BY <1>1 DEF NoBlocker
  <2>2. NoBlocker(q, query) <=> ~OpenIn(r)
    BY <2>1 DEF OpenIn, OpenTask
  <2>3. QED
    BY <1>1, <2>2 DEF SetAside
<1>2. CASE query = "guest"
  <2>1. NoBlocker(q, query) <=> \A b \in BookedIn(r) : booking[b].status # "CHECKED_IN"
    BY <1>2 DEF NoBlocker
  <2>2. NoBlocker(q, query) <=> ~Hosts(r)
    BY <2>1 DEF Hosts
  <2>3. QED
    BY <1>2, <2>2 DEF SetAside, Shown
<1>3. CASE query = "room"
  <2>1. NoBlocker(q, query) <=> ~room[r].deleted /\ room[r].status = "MAINTENANCE"
    BY <1>3 DEF NoBlocker
  <2>2. QED
    BY <1>3, <2>1 DEF SetAside, Emptied
<1>4. QED
  BY <1>1, <1>2, <1>3 DEF ReleaseQueries

\* One of the three queries is answered; the last answer decides.
LEMMA ReleaseReadRight ==
    ASSUME TypeOK, TurnoverInv, NEW q \in Requests, Served(q), req[q].op = "clean",
           NEW r \in Rooms, r = req[q].room, LocalSound(q, r), ReleaseRead(q)
    PROVE  Right(q, r)
<1>1. "clean" \in Ops /\ KnowsClean(q) /\ req[q].pc = "release"
  BY DEF LocalSound, Knows, ReleaseRead, At
<1>2. /\ RoomTold(r) /\ Earned(r) /\ Shown(r) /\ Emptied(r)
      /\ \A c \in Mine(r) : BookingTold(c) /\ Cleaned(c)
  BY <1>1, CleanExcuse
<1>3. UNCHANGED tables
  BY DEF ReleaseRead, tables, calendarVars, trailVars
<1>4. /\ req[q] \in [op: {"clean"}, pc: {"release"}, room: Rooms, task: TaskIds,
                     unread: SUBSET ReleaseQueries, release: BOOLEAN]
  BY <1>1 DEF TypeOK, BookingRequest, HousekeepingRequest, RoomDeskRequest, Served
<1>5. PICK query \in req[q].unread :
         LET unread  == req[q].unread \ {query}
             release == req[q].release /\ NoBlocker(q, query)
         IN  IF unread # {}
             THEN req' = [req EXCEPT ![q].unread = unread, ![q].release = release]
             ELSE IF release
                  THEN req' = [req EXCEPT ![q] = [op |-> "clean", pc |-> "room",
                                                  room |-> req[q].room]]
                  ELSE Answer(q)
  BY DEF ReleaseRead
<1>6. /\ task[req[q].task] # NoRow /\ task[req[q].task].room = r
      /\ task[req[q].task].status = "DONE"
      /\ Answered(q, "openTask") => ~OpenIn(r)
      /\ Answered(q, "guest") => ~Hosts(r)
      /\ Answered(q, "room") => ~room[r].deleted /\ room[r].status = "MAINTENANCE"
      /\ ~req[q].release => SetAside(r)
  BY <1>1 DEF KnowsClean
<1>7. /\ NoBlocker(q, query) =>
            /\ query = "openTask" => ~OpenIn(r)
            /\ query = "guest" => ~Hosts(r)
            /\ query = "room" => ~room[r].deleted /\ room[r].status = "MAINTENANCE"
      /\ ~NoBlocker(q, query) => SetAside(r)
  BY <1>2, <1>4, <1>5, <1>6, QueryAnswer
<1> DEFINE unread  == req[q].unread \ {query}
           release == req[q].release /\ NoBlocker(q, query)
<1>8. /\ release /\ "openTask" \notin unread => ~OpenIn(r)
      /\ release /\ "guest" \notin unread => ~Hosts(r)
      /\ release /\ "room" \notin unread =>
            ~room[r].deleted /\ room[r].status = "MAINTENANCE"
      /\ ~release => SetAside(r)
  BY <1>4, <1>6, <1>7 DEF Answered
<1>9. CASE unread # {}
  <2>1. PICK u, rel : u = unread /\ rel = release
    OBVIOUS
  <2>2. req' = [req EXCEPT ![q].unread = u, ![q].release = rel]
    BY <1>5, <1>9, <2>1
  <2>3. /\ req'[q].op = "clean" /\ req'[q].pc = "release" /\ req'[q].room = r
        /\ req'[q].task = req[q].task /\ req'[q].unread = u /\ req'[q].release = rel
        /\ Served(q)'
    BY <1>4, <2>2 DEF TypeOK, Served, Idle
  <2>4. Turning(q, r)'
    BY <2>3 DEF Turning
  <2>5. /\ OpenIn(r)' = OpenIn(r) /\ Hosts(r)' = Hosts(r) /\ SetAside(r)' = SetAside(r)
    BY <1>3, NothingWritten
  <2>6. KnowsClean(q)'
    BY <1>3, <1>6, <1>8, <2>1, <2>3, <2>5 DEF KnowsClean, Answered, tables
  <2>7. Knows(q)'
    BY <1>1, <2>3, <2>6, CleanKnows
  <2>8. QED
    BY <1>2, <1>3, <2>4, <2>7, ReadSound
<1>10. CASE unread = {} /\ release
  <2>1. req' = [req EXCEPT ![q] = [op |-> "clean", pc |-> "room", room |-> req[q].room]]
    BY <1>5, <1>10
  <2>2. req'[q] = [op |-> "clean", pc |-> "room", room |-> r]
    BY <2>1 DEF TypeOK
  <2>3. Turning(q, r)'
    BY <2>2 DEF Turning, Served, Idle
  <2>4. /\ OpenIn(r)' = OpenIn(r) /\ Hosts(r)' = Hosts(r)
    BY <1>3, NothingWritten
  <2>5. KnowsClean(q)'
    BY <1>3, <1>8, <1>10, <2>2, <2>4 DEF KnowsClean, tables
  <2>6. Knows(q)'
    BY <1>1, <2>2, <2>5, CleanKnows
  <2>7. QED
    BY <1>2, <1>3, <2>3, <2>6, ReadSound
<1>11. CASE unread = {} /\ ~release
  <2>1. Answer(q)
    BY <1>5, <1>11
  <2>2. AtRest(r)
    BY <1>2, <1>8, <1>11 DEF AtRest
  <2>3. QED
    BY <1>3, <2>1, <2>2, AnsweredRight
<1>12. QED
  BY <1>9, <1>10, <1>11

\* The room is given back.
LEMMA ReleaseRoomRight ==
    ASSUME TypeOK, TurnoverInv, NEW q \in Requests, Served(q), req[q].op = "clean",
           NEW r \in Rooms, r = req[q].room, LocalSound(q, r),
           ReleaseRoom(q) \/ ReleaseRoomLog(q)
    PROVE  Right(q, r)
<1>1. "clean" \in Ops /\ KnowsClean(q)
  BY DEF LocalSound, Knows
<1>2. /\ Earned(r) /\ Shown(r) /\ Emptied(r)
      /\ \A c \in Mine(r) : BookingTold(c) /\ Cleaned(c)
      /\ RoomTold(r) \/ req[q].pc = "roomLog"
      /\ SetAside(r) \/ req[q].pc \in {"release", "room"}
  BY CleanExcuse
<1>3. CASE ReleaseRoom(q)
  <2>1. /\ RoomTold(r) /\ room[r].status = "MAINTENANCE" /\ ~room[r].deleted /\ ~Hosts(r)
        /\ UNCHANGED <<booking, task, roomTrail, bookingTrail>>
        /\ room'[r].status = "AVAILABLE" /\ room'[r].deleted = room[r].deleted
        /\ \A s \in Rooms \ {r} : room'[s] = room[s]
    BY <1>1, <1>2, <1>3 DEF KnowsClean, ReleaseRoom, At, SetRoomStatus, calendarVars, trailVars,
                            TypeOK, RoomRow
  <2>2. /\ Served(q)' /\ req'[q].op = "clean" /\ req'[q].pc = "roomLog" /\ req'[q].room = r
    BY <1>3, GotoKeeps DEF ReleaseRoom
  <2>3. Logging(q, r)'
    BY <2>2 DEF Logging
  <2>4. Hosts(r)' = Hosts(r)
    BY <2>1, RoomCall
  <2>5. Earned(r)' /\ Shown(r)' /\ Emptied(r)' /\ SetAside(r)'
    BY <2>1, <2>4 DEF Earned, Shown, Emptied, SetAside
  <2>6. KnowsClean(q)'
    BY <2>1, <2>2 DEF KnowsClean, RoomTold
  <2>7. Knows(q)'
    BY <1>1, <2>2, <2>6, CleanKnows
  <2>8. QED
    BY <1>2, <2>1, <2>3, <2>5, <2>7, RoomCallRight
<1>4. CASE ReleaseRoomLog(q)
  <2>1. /\ ~MayFail => roomTrail'[r] = "AVAILABLE"
        /\ room[r].status = "AVAILABLE"
        /\ UNCHANGED <<booking, task, room, bookingTrail>>
        /\ \A s \in Rooms \ {r} : roomTrail'[s] = roomTrail[s]
    BY <1>1, <1>4 DEF KnowsClean, ReleaseRoomLog, At, LogRoomStatus, calendarVars, TypeOK
  <2>2. Hosts(r)' = Hosts(r) /\ ActiveIn(r)' = ActiveIn(r)
    BY <2>1, RoomCall
  <2>3. Earned(r)' /\ Shown(r)' /\ Emptied(r)' /\ RoomTold(r)' /\ SetAside(r)'
    BY <1>2, <2>1, <2>2 DEF Earned, Shown, Emptied, RoomTold, SystemSetsStatus, SetAside
  <2>4. Knows(q)'
    BY <1>4, AnsweredKnows DEF ReleaseRoomLog
  <2>5. QED
    BY <1>2, <2>1, <2>3, <2>4, RoomCallRight
<1>5. QED
  BY <1>3, <1>4

-----------------------------------------------------------------------------
(***************************************************************************)
(* The steps of the room administration.                                   *)
(***************************************************************************)
LEMMA DeskKnows ==
    ASSUME NEW q \in Requests, req'[q].op \in {"manual", "archive"}, req'[q].op \in Ops,
           KnowsDesk(q)'
    PROVE  Knows(q)'
  BY DEF Knows, KnowsCreate, KnowsExtend, KnowsStatus, KnowsTask, KnowsClean

\* A status set by hand.
LEMMA ManualRight ==
    ASSUME TypeOK, TurnoverInv, NEW q \in Requests, Served(q), req[q].op = "manual",
           NEW r \in Rooms, r = req[q].room, LocalSound(q, r),
           ManualWrite(q) \/ ManualLog(q)
    PROVE  Right(q, r)
<1>1. "manual" \in Ops /\ KnowsDesk(q) /\ ~room[r].deleted
  BY DEF LocalSound, Knows, KnowsDesk
<1>2. ~SystemSetsStatus
  BY <1>1 DEF SystemSetsStatus
<1>3. /\ Earned(r) /\ Shown(r)' /\ SetAside(r)' /\ Emptied(r)
      /\ \A c \in Mine(r) : BookingTold(c) /\ Cleaned(c)
      /\ RoomTold(r) \/ req[q].pc = "log"
  <2>1. /\ ~Leaving(q, r)
        /\ \A c : ~Entering(q, c) /\ ~Ordering(q, c)
        /\ Logging(q, r) => req[q].pc \in {"log", "roomLog"}
    BY DEF Leaving, Entering, Ordering, Logging, At
  <2>2. req[q].pc \in {"write", "log"}
    BY DEF ManualWrite, ManualLog, At
  <2>3. Shown(r)' /\ SetAside(r)'
    BY <1>2 DEF Shown, SetAside, SystemSetsStatus
  <2>4. QED
    BY <2>1, <2>2, <2>3 DEF LocalSound
<1>4. req[q].to \in RoomStatus \ {"OCCUPIED"} /\ req[q].seen \in RoomStatus
  BY DEF TypeOK, BookingRequest, HousekeepingRequest, RoomDeskRequest, Served
<1>5. CASE ManualWrite(q)
  <2>1. /\ RoomTold(r) /\ room[r].status = req[q].seen
        /\ UNCHANGED <<booking, task, roomTrail, bookingTrail>>
        /\ room'[r].status = req[q].to /\ room'[r].deleted = room[r].deleted
        /\ \A s \in Rooms \ {r} : room'[s] = room[s]
    BY <1>1, <1>3, <1>5 DEF KnowsDesk, ManualWrite, At, SetRoomStatus, calendarVars, trailVars,
                            TypeOK, RoomRow
  <2>2. /\ Served(q)' /\ req'[q].op = "manual" /\ req'[q].pc = "log" /\ req'[q].room = r
        /\ req'[q].to = req[q].to /\ req'[q].seen = req[q].seen
    BY <1>5 DEF ManualWrite, At, Goto, Served, Idle, TypeOK, BookingRequest, HousekeepingRequest,
                RoomDeskRequest
  <2>3. Logging(q, r)'
    BY <2>2 DEF Logging, At
  <2>4. Earned(r)' /\ Emptied(r)'
    BY <1>1, <1>4, <2>1 DEF Earned, Emptied
  <2>5. KnowsDesk(q)'
    BY <1>1, <2>1, <2>2 DEF KnowsDesk, At, RoomTold
  <2>6. Knows(q)'
    BY <1>1, <2>2, <2>5, DeskKnows
  <2>7. QED
    BY <1>3, <2>1, <2>3, <2>4, <2>6, RoomCallRight
<1>6. CASE ManualLog(q)
  <2>1. /\ room[r].status = req[q].to
        /\ ~MayFail => roomTrail[r] = req[q].seen
        /\ UNCHANGED <<booking, task, room, bookingTrail>>
        /\ roomTrail' = IF req[q].seen = req[q].to THEN roomTrail
                        ELSE [roomTrail EXCEPT ![r] = req[q].to]
    BY <1>1, <1>6 DEF KnowsDesk, ManualLog, At, LogRoomStatus, calendarVars
  <2>2. /\ ~MayFail => roomTrail'[r] = req[q].to
        /\ \A s \in Rooms \ {r} : roomTrail'[s] = roomTrail[s]
    BY <2>1 DEF TypeOK
  <2>3. Hosts(r)' = Hosts(r) /\ ActiveIn(r)' = ActiveIn(r)
    BY <2>1, <2>2, RoomCall
  <2>4. Earned(r)' /\ Emptied(r)' /\ RoomTold(r)'
    BY <1>3, <2>1, <2>2, <2>3 DEF Earned, Emptied, RoomTold
  <2>5. Knows(q)'
    BY <1>6, AnsweredKnows DEF ManualLog
  <2>6. QED
    BY <1>3, <2>1, <2>2, <2>4, <2>5, RoomCallRight
<1>7. QED
  BY <1>5, <1>6

\* A room is archived when the count has found no active booking.
LEMMA ArchiveRight ==
    ASSUME TypeOK, TurnoverInv, NEW q \in Requests, Served(q), req[q].op = "archive",
           NEW r \in Rooms, r = req[q].room, LocalSound(q, r),
           ArchiveCount(q) \/ ArchiveWrite(q)
    PROVE  Right(q, r)
<1>1. "archive" \in Ops /\ KnowsDesk(q) /\ ~room[r].deleted
  BY DEF LocalSound, Knows, KnowsDesk
<1>2. AtRest(r)
  BY NoExcuse DEF ArchiveCount, ArchiveWrite, At
<1>3. CASE ArchiveCount(q)
  <2>1. UNCHANGED tables
    BY <1>3 DEF ArchiveCount, tables, calendarVars, trailVars
  <2>2. CASE Answer(q)
    BY <1>2, <2>1, <2>2, AnsweredRight
  <2>3. CASE Goto(q, "write") /\ ActiveIn(r) = {}
    <3>1. req'[q].op = "archive" /\ req'[q].pc = "write" /\ req'[q].room = r
      BY <2>3, GotoKeeps
    <3>2. ActiveIn(r)' = {}
      BY <2>1, <2>3, NothingWritten
    <3>3. KnowsDesk(q)'
      BY <1>1, <2>1, <3>1, <3>2 DEF KnowsDesk, At, tables
    <3>4. QED
      BY <1>1, <1>2, <2>1, <3>1, <3>3, DeskKnows, ReadRight
  <2>4. QED
    BY <1>3, <2>2, <2>3 DEF ArchiveCount, ActiveIn, ActiveBooking
<1>4. CASE ArchiveWrite(q)
  <2>1. /\ ActiveIn(r) = {}
        /\ UNCHANGED <<booking, task, roomTrail, bookingTrail>>
        /\ room'[r].status = "INACTIVE" /\ room'[r].deleted = TRUE
        /\ \A s \in Rooms \ {r} : room'[s] = room[s]
    BY <1>1, <1>4 DEF KnowsDesk, ArchiveWrite, At, calendarVars, trailVars, TypeOK, RoomRow
  <2>2. ~Hosts(r)
    BY <2>1 DEF Hosts, ActiveIn, ActiveBooking
  <2>3. Hosts(r)' = Hosts(r) /\ ActiveIn(r)' = ActiveIn(r)
    BY <2>1, RoomCall
  <2>4. Earned(r)' /\ Shown(r)' /\ SetAside(r)' /\ RoomTold(r)'
    BY <2>1, <2>2, <2>3 DEF Earned, Shown, SetAside, RoomTold
  <2>5. Emptied(r)'
    BY <2>1, <2>3 DEF Emptied
  <2>6. Knows(q)'
    BY <1>4, AnsweredKnows DEF ArchiveWrite
  <2>7. QED
    BY <1>2, <2>1, <2>4, <2>5, <2>6, RoomCallRight DEF AtRest
<1>5. QED
  BY <1>3, <1>4

-----------------------------------------------------------------------------
(***************************************************************************)
(* Every step.                                                             *)
(***************************************************************************)

\* When calls may be refused, nothing but archiving is promised.
LEMMA FailRight ==
    ASSUME TypeOK, TurnoverInv, NEW q \in Requests, NEW r \in Rooms, LocalSound(q, r), Fail(q)
    PROVE  Right(q, r)
<1>1. MayFail /\ Answer(q) /\ UNCHANGED tables
  BY DEF Fail, tables, calendarVars, trailVars
<1>2. AtRest(r)
  BY <1>1 DEF LocalSound, AtRest, RoomTold, Earned, Shown, SetAside, BookingTold, Cleaned,
              SystemSetsStatus, SystemOrdersTasks
<1>3. QED
  BY <1>1, <1>2, AnsweredRight

\* A request stays at the room it began with.
LEMMA StepStays ==
    ASSUME TypeOK, NEW q \in Requests, Served(q), Step(q) \/ Fail(q)
    PROVE  Served(q)' => req'[q].room = req[q].room
<1> DEFINE SameRoom == Served(q)' => req'[q].room = req[q].room
<1>0. req \in [Requests -> AnyRequest]
  BY DEF TypeOK, AnyRequest
<1>a. ASSUME NEW pc, Goto(q, pc) PROVE SameRoom
  BY <1>a, GotoKeeps
<1>b. ASSUME Answer(q) PROVE SameRoom
  BY <1>b, AnswerEnds
<1>1. ASSUME BookingStep(q) PROVE SameRoom
  <2>1. CASE CreateInsert(q)
    BY <1>0, <2>1 DEF CreateInsert
  <2>2. CASE TaskPick(q)
    BY <1>0, <2>2 DEF TaskPick, AnyRequest, BookingRequest, HousekeepingRequest,
                      RoomDeskRequest, Served, Idle
  <2>3. QED
    BY <1>1, <1>a, <1>b, <2>1, <2>2
       DEF BookingStep, CreateCheck, CreateLog, StatusWrite, StatusLog, StatusOthers,
           StatusRoom, StatusRoomLog, AfterRoom, TaskFind, TaskOrder, ExtendCheck,
           ExtendWrite
<1>2. ASSUME HousekeepingStep(q) PROVE SameRoom
  <2>1. CASE TaskDispatch(q)
    BY <1>0, <2>1 DEF TaskDispatch, AnyRequest, BookingRequest, HousekeepingRequest,
                      RoomDeskRequest, Served, Idle
  <2>2. CASE CleanWrite(q)
    BY <1>0, <1>b, <2>2 DEF CleanWrite
  <2>3. CASE ReleaseRead(q)
    BY <1>0, <1>b, <2>3 DEF ReleaseRead, AnyRequest, BookingRequest, HousekeepingRequest,
                            RoomDeskRequest, Served, Idle
  <2>4. QED
    BY <1>2, <1>a, <1>b, <2>1, <2>2, <2>3
       DEF HousekeepingStep, TaskInsert, MarkRead, MarkRoom, MarkRoomLog, ReleaseRoom,
           ReleaseRoomLog
<1>3. ASSUME RoomDeskStep(q) PROVE SameRoom
  BY <1>3, <1>a, <1>b DEF RoomDeskStep, ManualWrite, ManualLog, ArchiveCount, ArchiveWrite
<1>4. ASSUME Fail(q) PROVE SameRoom
  BY <1>4, <1>b DEF Fail
<1>5. QED
  BY <1>1, <1>2, <1>3, <1>4 DEF Step

\* A step of a request keeps the invariant.
LEMMA RequestKeepsTurnover ==
    ASSUME TypeOK, TypeOK', TurnoverInv, NEW q \in Requests, Step(q) \/ Fail(q)
    PROVE  TurnoverInv'
<1>1. Served(q) /\ req[q].room \in Rooms
  <2>1. Served(q)
    BY DEF Step, BookingStep, HousekeepingStep, RoomDeskStep, Fail, CreateCheck, CreateInsert,
           CreateLog, StatusWrite, StatusLog, StatusOthers, StatusRoom, StatusRoomLog, TaskFind,
           TaskPick, TaskOrder, ExtendCheck, ExtendWrite, TaskDispatch, TaskInsert, MarkRead,
           MarkRoom, MarkRoomLog, CleanWrite, ReleaseRead, ReleaseRoom, ReleaseRoomLog,
           ManualWrite, ManualLog, ArchiveCount, ArchiveWrite, At
  <2>2. QED
    BY <2>1 DEF TypeOK, BookingRequest, HousekeepingRequest, RoomDeskRequest, Served
<1>2. PICK r \in Rooms : r = req[q].room
  BY <1>1
<1>3. AloneAt(q, r)
  BY <1>1, <1>2 DEF AloneAt, TurnoverInv, OneRequestPerRoom
<1>4. LocalSound(q, r)
  BY <1>3, LocalView
<1>5. ASSUME BookingStep(q) PROVE Right(q, r)
  <2>1. CASE CreateCheck(q) \/ CreateInsert(q) \/ CreateLog(q)
    <3>1. req[q].op = "create"
      BY <2>1 DEF CreateCheck, CreateInsert, CreateLog, At
    <3>2. QED
      BY <1>1, <1>2, <1>4, <2>1, <3>1, CreateRight
  <2>2. CASE ExtendCheck(q) \/ ExtendWrite(q)
    <3>1. req[q].op = "extend"
      BY <2>2 DEF ExtendCheck, ExtendWrite, At
    <3>2. QED
      BY <1>1, <1>2, <1>4, <2>2, <3>1, ExtendRight
  <2>3. CASE \/ StatusWrite(q) \/ StatusLog(q) \/ StatusOthers(q) \/ StatusRoom(q)
             \/ StatusRoomLog(q) \/ TaskFind(q) \/ TaskPick(q) \/ TaskOrder(q)
    <3>1. req[q].op = "status"
      BY <2>3 DEF StatusWrite, StatusLog, StatusOthers, StatusRoom, StatusRoomLog, TaskFind,
                  TaskPick, TaskOrder, At
    <3>2. PICK b \in BookingIds : b = req[q].booking
      BY <1>1, <3>1, StatusFields
    <3>3. CASE StatusWrite(q)
      BY <1>1, <1>2, <1>4, <3>1, <3>2, <3>3, StatusWriteRight
    <3>4. CASE StatusLog(q)
      BY <1>1, <1>2, <1>4, <3>1, <3>2, <3>4, StatusLogRight
    <3>5. CASE StatusOthers(q) \/ TaskFind(q) \/ TaskPick(q)
      BY <1>1, <1>2, <1>4, <3>1, <3>2, <3>5, StatusReadRight
    <3>6. CASE StatusRoom(q)
      BY <1>1, <1>2, <1>4, <3>1, <3>2, <3>6, StatusRoomRight
    <3>7. CASE StatusRoomLog(q)
      BY <1>1, <1>2, <1>4, <3>1, <3>2, <3>7, StatusRoomLogRight
    <3>8. CASE TaskOrder(q)
      BY <1>1, <1>2, <1>4, <3>1, <3>2, <3>8, TaskOrderRight
    <3>9. QED
      BY <2>3, <3>3, <3>4, <3>5, <3>6, <3>7, <3>8
  <2>4. QED
    BY <1>5, <2>1, <2>2, <2>3 DEF BookingStep
<1>6. ASSUME HousekeepingStep(q) PROVE Right(q, r)
  <2>1. CASE \/ TaskDispatch(q) \/ TaskInsert(q) \/ MarkRead(q) \/ MarkRoom(q)
             \/ MarkRoomLog(q)
    <3>1. req[q].op = "task"
      BY <2>1 DEF TaskDispatch, TaskInsert, MarkRead, MarkRoom, MarkRoomLog, At
    <3>2. QED
      BY <1>1, <1>2, <1>4, <2>1, <3>1, TaskRight
  <2>2. CASE CleanWrite(q)
    BY <1>1, <1>2, <1>4, <2>2, CleanWriteRight DEF CleanWrite, At
  <2>3. CASE ReleaseRead(q)
    BY <1>1, <1>2, <1>4, <2>3, ReleaseReadRight DEF ReleaseRead, At
  <2>4. CASE ReleaseRoom(q) \/ ReleaseRoomLog(q)
    <3>1. req[q].op = "clean"
      BY <2>4 DEF ReleaseRoom, ReleaseRoomLog, At
    <3>2. QED
      BY <1>1, <1>2, <1>4, <2>4, <3>1, ReleaseRoomRight
  <2>5. QED
    BY <1>6, <2>1, <2>2, <2>3, <2>4 DEF HousekeepingStep
<1>7. ASSUME RoomDeskStep(q) PROVE Right(q, r)
  <2>1. CASE ManualWrite(q) \/ ManualLog(q)
    <3>1. req[q].op = "manual"
      BY <2>1 DEF ManualWrite, ManualLog, At
    <3>2. QED
      BY <1>1, <1>2, <1>4, <2>1, <3>1, ManualRight
  <2>2. CASE ArchiveCount(q) \/ ArchiveWrite(q)
    <3>1. req[q].op = "archive"
      BY <2>2 DEF ArchiveCount, ArchiveWrite, At
    <3>2. QED
      BY <1>1, <1>2, <1>4, <2>2, <3>1, ArchiveRight
  <2>3. QED
    BY <1>7, <2>1, <2>2 DEF RoomDeskStep
<1>8. Right(q, r)
  BY <1>4, <1>5, <1>6, <1>7, FailRight DEF Step
<1>9. Served(q)' => req'[q].room = r
  BY <1>1, <1>2, StepStays
<1>10. req' \in [Requests -> AnyRequest] /\ \A p \in Requests \ {q} : req'[p] = req[p]
  BY OthersWait DEF TypeOK, AnyRequest
<1>11. QED
  BY <1>3, <1>8, <1>9, <1>10, StepIsLocal DEF Right

\* Assigning a task, configuring a buffer, and steps outside the branch.
LEMMA OutsideKeepsTurnover ==
    ASSUME TypeOK, TurnoverInv, UNCHANGED <<booking, roomTrail, bookingTrail, req>>,
           \A r \in Rooms : /\ room'[r].status = room[r].status
                            /\ room'[r].deleted = room[r].deleted,
           \A t \in TaskIds : \/ task'[t] = task[t]
                             \/ /\ task[t] # NoRow /\ task'[t] # NoRow
                                /\ task'[t].status = task[t].status
                                /\ task'[t].room = task[t].room
                                /\ task'[t].booking = task[t].booking
                                /\ task'[t].type = task[t].type
    PROVE  TurnoverInv'
<1>1. ASSUME NEW r
      PROVE  /\ BookedIn(r)' = BookedIn(r) /\ ActiveIn(r)' = ActiveIn(r)
             /\ Hosts(r)' = Hosts(r)
  BY DEF BookedIn, ActiveIn, Hosts
<1>2. ASSUME NEW r PROVE OpenIn(r)' = OpenIn(r)
  BY DEF OpenIn
<1>3. \A b \in BookingIds : CleaningOf(b)' = CleaningOf(b)
  BY DEF CleaningOf
<1>4. ASSUME NEW r \in Rooms
      PROVE  /\ RoomTold(r)' = RoomTold(r) /\ Emptied(r)' = Emptied(r)
             /\ Earned(r)' = Earned(r) /\ Shown(r)' = Shown(r)
             /\ SetAside(r)' = SetAside(r)
  <2>1. RoomTold(r)' = RoomTold(r) /\ Emptied(r)' = Emptied(r)
    BY <1>1 DEF RoomTold, Emptied
  <2>2. Earned(r)' = Earned(r) /\ Shown(r)' = Shown(r)
    BY <1>1 DEF Earned, Shown, SystemSetsStatus
  <2>3. SetAside(r)' = SetAside(r)
    BY <1>2 DEF SetAside, SystemSetsStatus, SystemOrdersTasks
  <2>4. QED
    BY <2>1, <2>2, <2>3
<1>5. ASSUME NEW b \in BookingIds
      PROVE  BookingTold(b)' = BookingTold(b) /\ Cleaned(b)' = Cleaned(b)
  BY <1>3 DEF BookingTold, Cleaned, SystemOrdersTasks
<1>6. OneRequestPerRoom'
  BY DEF TurnoverInv, OneRequestPerRoom, Served
<1>7. OnlyCleanings'
  BY DEF TurnoverInv, OnlyCleanings
<1>8. ASSUME NEW q \in Requests, NEW r
      PROVE  /\ Logging(q, r) => Logging(q, r)'
             /\ Leaving(q, r) => Leaving(q, r)'
             /\ Arriving(q, r) => Arriving(q, r)'
             /\ Turning(q, r) => Turning(q, r)'
             /\ Entering(q, r) => Entering(q, r)'
             /\ Ordering(q, r) => Ordering(q, r)'
  BY DEF Logging, Leaving, Arriving, Turning, Entering, Ordering, Served, At
<1>9. ASSUME NEW q \in Requests PROVE Knows(q)'
  <2>1. Knows(q) /\ (Served(q) => req[q].room \in Rooms)
    BY DEF TurnoverInv, TypeOK, BookingRequest, HousekeepingRequest, RoomDeskRequest, Served
  <2>2. KnowsCreate(q)' /\ KnowsExtend(q)'
    BY <1>1, <2>1 DEF Knows, KnowsCreate, KnowsExtend, Served
  <2>3. KnowsStatus(q)'
    <3>1. ASSUME NEW b \in BookedIn(req[q].room) PROVE CleaningOf(b)' = CleaningOf(b)
      BY <1>3 DEF BookedIn
    <3>2. QED
      BY <1>1, <2>1, <3>1 DEF Knows, KnowsStatus, Served, Ordering, SystemOrdersTasks
  <2>4. KnowsTask(q)' /\ KnowsDesk(q)'
    BY <1>1, <2>1 DEF Knows, KnowsTask, KnowsDesk, Served, At
  <2>5. KnowsClean(q)'
    <3>1. CASE Served(q) /\ req[q].op = "clean" /\ req[q].pc \in {"write", "release"}
      <4>1. PICK t \in TaskIds : t = req[q].task
        BY <3>1 DEF TypeOK, BookingRequest, HousekeepingRequest, RoomDeskRequest, Served
      <4>2. PICK r \in Rooms : r = req[q].room
        BY <2>1, <3>1
      <4>3. task[t] # NoRow /\ task[t].room = r
        BY <2>1, <3>1, <4>1, <4>2 DEF Knows, KnowsClean
      <4>4. task'[t] # NoRow /\ task'[t].room = r /\ task'[t].status = task[t].status
        BY <4>3
      <4>5. /\ OpenIn(r)' = OpenIn(r) /\ Hosts(r)' = Hosts(r) /\ SetAside(r)' = SetAside(r)
            /\ room'[r].status = room[r].status /\ room'[r].deleted = room[r].deleted
        BY <1>1, <1>2, <1>4
      <4>6. QED
        BY <2>1, <3>1, <4>1, <4>2, <4>3, <4>4, <4>5 DEF Knows, KnowsClean, Answered, Served
    <3>2. CASE ~(Served(q) /\ req[q].op = "clean" /\ req[q].pc \in {"write", "release"})
      BY <1>1, <1>2, <2>1, <3>2 DEF Knows, KnowsClean, Served
    <3>3. QED
      BY <3>1, <3>2
  <2>6. QED
    BY <2>1, <2>2, <2>3, <2>4, <2>5 DEF Knows, Served
<1>10. ASSUME NEW r \in Rooms
       PROVE  /\ RoomTold(r)' \/ \E q \in Requests : Logging(q, r)'
              /\ Earned(r)' \/ \E q \in Requests : Leaving(q, r)'
              /\ Shown(r)' \/ \E q \in Requests : Arriving(q, r)'
              /\ SetAside(r)' \/ \E q \in Requests : Turning(q, r)'
              /\ Emptied(r)'
  BY <1>4, <1>8 DEF TurnoverInv
<1>11. ASSUME NEW b \in BookingIds
       PROVE  /\ BookingTold(b)' \/ \E q \in Requests : Entering(q, b)'
              /\ Cleaned(b)' \/ \E q \in Requests : Ordering(q, b)'
  BY <1>5, <1>8 DEF TurnoverInv
<1>12. QED
  BY <1>6, <1>7, <1>9, <1>10, <1>11 DEF TurnoverInv

LEMMA TurnoverInit == Init => TurnoverInv
<1> SUFFICES ASSUME Init PROVE TurnoverInv
  OBVIOUS
<1>1. /\ \A q \in Requests : ~Served(q)
      /\ \A b \in BookingIds : booking[b] = NoRow /\ bookingTrail[b] = "NONE"
      /\ \A t \in TaskIds : task[t] = NoRow
      /\ \A r \in Rooms : /\ room[r].status = "AVAILABLE" /\ ~room[r].deleted
                           /\ roomTrail[r] = "AVAILABLE"
  BY DEF Init, Served
<1>2. \A r : BookedIn(r) = {} /\ ~Hosts(r)
  BY <1>1 DEF BookedIn, Hosts
<1>3. \A r \in Rooms : RoomTold(r) /\ Earned(r) /\ Shown(r) /\ SetAside(r) /\ Emptied(r)
  BY <1>1, <1>2 DEF RoomTold, Earned, Shown, SetAside, Emptied
<1>4. \A b \in BookingIds : BookingTold(b) /\ Cleaned(b)
  BY <1>1 DEF BookingTold, Cleaned, CleaningOf, NoRow
<1>5. OneRequestPerRoom /\ OnlyCleanings
  BY <1>1 DEF OneRequestPerRoom, OnlyCleanings
<1>6. \A q \in Requests : Knows(q)
  BY <1>1 DEF Knows, KnowsCreate, KnowsExtend, KnowsStatus, KnowsTask, KnowsClean, KnowsDesk
<1>7. QED
  BY <1>3, <1>4, <1>5, <1>6 DEF TurnoverInv

LEMMA TurnoverStep ==
    ASSUME RoomsTakeTurns, TypeOK, RowsExist, TurnoverInv, [Next]_vars
    PROVE  TurnoverInv'
<1>0. TypeOK'
  BY TypeStep
<1>1. ASSUME NEW q \in Requests, Start(q) PROVE TurnoverInv'
  <2>1. PICK r \in Rooms :
           AloneAt(q, r) /\ Right(q, r) /\ (Served(q)' => req'[q].room = r)
    BY <1>1, StartRight
  <2>2. req' \in [Requests -> AnyRequest] /\ \A p \in Requests \ {q} : req'[p] = req[p]
    BY <1>0, <1>1, OthersWait DEF TypeOK, AnyRequest
  <2>3. QED
    BY <2>1, <2>2, StepIsLocal DEF Right
<1>2. ASSUME NEW q \in Requests, Step(q) \/ Fail(q) PROVE TurnoverInv'
  BY <1>0, <1>2, RequestKeepsTurnover
<1>3. ASSUME NEW t \in TaskIds, NEW h \in Housekeepers, Assign(t, h) PROVE TurnoverInv'
  <2>1. /\ task[t] # NoRow
        /\ task' = [task EXCEPT ![t].assignee = h]
        /\ UNCHANGED <<booking, room, roomTrail, bookingTrail, req>>
    BY <1>3 DEF Assign, calendarVars, trailVars
  <2>2. task[t] \in TaskRow
    BY <2>1 DEF TypeOK
  <2>3. /\ task'[t].status = task[t].status /\ task'[t].room = task[t].room
        /\ task'[t].booking = task[t].booking /\ task'[t].type = task[t].type
        /\ \A u \in TaskIds \ {t} : task'[u] = task[u]
    BY <2>1, <2>2 DEF TypeOK, TaskRow
  <2>4. task'[t] # NoRow
    BY <2>2, <2>3 DEF TaskRow, TaskStatus, NoRow
  <2>5. QED
    BY <2>1, <2>3, <2>4, OutsideKeepsTurnover
<1>4. ASSUME NEW r \in Rooms, NEW hours \in RoomBuffers, SetRoomBuffer(r, hours)
      PROVE  TurnoverInv'
  <2>1. \A s \in Rooms : room'[s].status = room[s].status /\ room'[s].deleted = room[s].deleted
    BY <1>4 DEF SetRoomBuffer, TypeOK, RoomRow
  <2>2. QED
    BY <1>4, <2>1, OutsideKeepsTurnover DEF SetRoomBuffer, calendarVars, trailVars
<1>5. ASSUME NEW hours \in BranchBuffers, SetBranchBuffer(hours) PROVE TurnoverInv'
  BY <1>5, OutsideKeepsTurnover DEF SetBranchBuffer, calendarVars, trailVars
<1>6. ASSUME UNCHANGED vars PROVE TurnoverInv'
  BY <1>6, OutsideKeepsTurnover DEF vars
<1>7. QED
  BY <1>1, <1>2, <1>3, <1>4, <1>5, <1>6 DEF Next

-----------------------------------------------------------------------------
(***************************************************************************)
(* The theorems.                                                           *)
(***************************************************************************)

(***************************************************************************)
(* While the requests for a room take turns, what is so of a room or a     *)
(* booking is so but for the request that is at it.                        *)
(***************************************************************************)
THEOREM TurnoverSound ==
    ASSUME RoomsTakeTurns
    PROVE  Spec => [](TypeOK /\ RowsExist /\ TurnoverInv)
<1>1. TypeOK /\ RowsExist /\ TurnoverInv /\ [Next]_vars => (TypeOK /\ RowsExist /\ TurnoverInv)'
  BY TypeStep, TurnoverStep
<1>2. QED
  BY <1>1, TypeInit, TurnoverInit, PTL DEF Spec

\* Nobody is excused when no request is at the room.
LEMMA QuietRooms ==
    ASSUME TypeOK, TurnoverInv, NEW r \in Rooms, Quiet(r)
    PROVE  /\ RoomTold(r) /\ Earned(r) /\ Shown(r) /\ SetAside(r) /\ Emptied(r)
           /\ \A b \in BookedIn(r) : BookingTold(b) /\ Cleaned(b)
<1>1. ASSUME NEW q \in Requests
      PROVE  ~Logging(q, r) /\ ~Leaving(q, r) /\ ~Arriving(q, r) /\ ~Turning(q, r)
  BY DEF Quiet, Logging, Leaving, Arriving, Turning
<1>2. ASSUME NEW q \in Requests, NEW b \in BookedIn(r)
      PROVE  ~Entering(q, b) /\ ~Ordering(q, b)
  BY DEF TurnoverInv, Knows, KnowsCreate, KnowsStatus, Entering, Ordering, Quiet, BookedIn
<1>3. QED
  BY <1>1, <1>2 DEF TurnoverInv, BookedIn

LEMMA HostsMeansCheckedIn ==
    ASSUME NEW r \in Rooms
    PROVE  Hosts(r) <=> r \in CheckedInRooms
  BY DEF Hosts, CheckedInRooms

(***************************************************************************)
(* remove and create never leave an archived room with an active booking,  *)
(* even if calls are refused half-way.                                     *)
(***************************************************************************)
THEOREM ArchivedStaysEmpty ==
    ASSUME RoomsTakeTurns
    PROVE  Spec => []ArchivedRoomsAreEmpty
<1>1. TurnoverInv => ArchivedRoomsAreEmpty
  BY DEF TurnoverInv, Emptied, ArchivedRoomsAreEmpty
<1>2. QED
  BY <1>1, TurnoverSound, PTL

(***************************************************************************)
(* When no call is refused either, the audit log ends with the status that *)
(* every room at rest and every booking of it has.                         *)
(***************************************************************************)
THEOREM TrailsAreTrue ==
    ASSUME Undisturbed
    PROVE  Spec => []TrailIsTrue
<1>1. TypeOK /\ RowsExist /\ TurnoverInv => TrailIsTrue
  <2> SUFFICES ASSUME TypeOK, TurnoverInv PROVE TrailIsTrue
    OBVIOUS
  <2>1. ASSUME NEW r \in Rooms, Quiet(r), ~room[r].deleted PROVE roomTrail[r] = room[r].status
    BY <2>1, QuietRooms DEF RoomTold, Undisturbed
  <2>2. ASSUME NEW b \in BookingIds, booking[b] # NoRow, Quiet(booking[b].room)
        PROVE  bookingTrail[b] = booking[b].status
    <3>1. booking[b].room \in Rooms /\ b \in BookedIn(booking[b].room)
      BY <2>2 DEF TypeOK, BookingRow, BookedIn
    <3>2. QED
      BY <2>2, <3>1, QuietRooms DEF BookingTold, Undisturbed
  <2>3. QED
    BY <2>1, <2>2 DEF TrailIsTrue
<1>2. QED
  BY <1>1, TurnoverSound, PTL DEF Undisturbed

(***************************************************************************)
(* Among manual changes of status as well, a room at rest shows OCCUPIED   *)
(* only with a guest in it.                                                *)
(***************************************************************************)
THEOREM OccupiedIsAlwaysEarned ==
    ASSUME Undisturbed
    PROVE  Spec => []OccupiedIsEarned
<1>1. TypeOK /\ RowsExist /\ TurnoverInv => OccupiedIsEarned
  BY QuietRooms, HostsMeansCheckedIn DEF OccupiedIsEarned, Earned, Undisturbed
<1>2. QED
  BY <1>1, TurnoverSound, PTL DEF Undisturbed

(***************************************************************************)
(* Without manual changes it shows OCCUPIED exactly then.                  *)
(***************************************************************************)
THEOREM GuestsAreShown ==
    ASSUME Undisturbed, "manual" \notin Ops
    PROVE  Spec => []OccupiedMeansGuest
<1>1. TypeOK /\ RowsExist /\ TurnoverInv => OccupiedMeansGuest
  BY QuietRooms, HostsMeansCheckedIn
     DEF OccupiedMeansGuest, Earned, Shown, SystemSetsStatus, Undisturbed
<1>2. QED
  BY <1>1, TurnoverSound, PTL DEF Undisturbed

(***************************************************************************)
(* If tasks are ordered by the check-out alone, a room set aside has an    *)
(* open task: the run stuck_room shows that other tasks may leave it none. *)
(***************************************************************************)
THEOREM SetAsideWaitsForTask ==
    ASSUME Undisturbed, "manual" \notin Ops, "task" \notin Ops
    PROVE  Spec => []SetAsideMeansOpenTask
<1>1. TypeOK /\ RowsExist /\ TurnoverInv => SetAsideMeansOpenTask
  BY QuietRooms
     DEF SetAsideMeansOpenTask, SetAside, OpenIn, SystemSetsStatus, SystemOrdersTasks, Undisturbed
<1>2. QED
  BY <1>1, TurnoverSound, PTL DEF Undisturbed

(***************************************************************************)
(* And ensureCheckoutCleaningTask orders one cleaning for every departed   *)
(* guest, and none for anybody else.                                       *)
(***************************************************************************)
THEOREM OneCleaningEach ==
    ASSUME Undisturbed, "task" \notin Ops
    PROVE  Spec => []OneCleaningPerDeparture
<1>1. TypeOK /\ RowsExist /\ TurnoverInv => OneCleaningPerDeparture
  <2> SUFFICES ASSUME TypeOK, TurnoverInv,
                      NEW b \in BookingIds, booking[b] # NoRow, Quiet(booking[b].room)
               PROVE  Cardinality(CleaningOf(b)) =
                         IF booking[b].status = "CHECKED_OUT" THEN 1 ELSE 0
    BY DEF OneCleaningPerDeparture
  <2>1. booking[b].room \in Rooms /\ b \in BookedIn(booking[b].room)
    BY DEF TypeOK, BookingRow, BookedIn
  <2>2. IF booking[b].status = "CHECKED_OUT"
        THEN \E t \in TaskIds : CleaningOf(b) = {t}
        ELSE CleaningOf(b) = {}
    BY <2>1, QuietRooms DEF Cleaned, SystemOrdersTasks, Undisturbed
  <2>3. CASE booking[b].status = "CHECKED_OUT"
    BY <2>2, <2>3, FS_Singleton
  <2>4. CASE booking[b].status # "CHECKED_OUT"
    BY <2>2, <2>4, FS_EmptySet
  <2>5. QED
    BY <2>3, <2>4
<1>2. QED
  BY <1>1, TurnoverSound, PTL DEF Undisturbed

\* The only way a check-out is answered is by ordering the cleaning.
LEMMA CheckoutEnds ==
    ASSUME Undisturbed, "task" \notin Ops, TypeOK, TurnoverInv, Next, NEW q \in Requests,
           Served(q), req[q].op = "status", req[q].to = "CHECKED_OUT", req'[q] = Idle
    PROVE  TaskOrder(q)
<1>1. Step(q)
  <2>1. ASSUME NEW p \in Requests, Start(p) \/ Step(p) \/ Fail(p) PROVE p = q
    BY <2>1, OthersWait DEF Served
  <2>2. ~Start(q)
    BY DEF Start, BookingStart, HousekeepingStart, RoomDeskStart, CreateRead, StatusRead,
           ExtendRead, TaskRead, CleanRead, ManualRead, ArchiveRead, Admit
  <2>3. ~Fail(q)
    BY DEF Fail, Undisturbed
  <2>4. UNCHANGED req => FALSE
    BY DEF Served
  <2>5. QED
    BY <2>1, <2>2, <2>3, <2>4 DEF Next, Assign, SetRoomBuffer, SetBranchBuffer
<1>2. KnowsStatus(q)
  BY DEF TurnoverInv, Knows
<1>3. \A pc \in StatusPcs : ~Goto(q, pc)
  BY StatusFields DEF StatusGoes, Served
<1>4. ~StatusWrite(q) /\ ~StatusLog(q) /\ ~StatusOthers(q) /\ ~StatusRoom(q) /\ ~StatusRoomLog(q)
  <2>1. ~StatusWrite(q) /\ ~StatusRoom(q)
    BY <1>3 DEF StatusWrite, StatusRoom, StatusPcs
  <2>2. ~StatusLog(q)
    BY <1>3 DEF StatusLog, StatusPcs
  <2>3. ~StatusOthers(q) /\ ~StatusRoomLog(q)
    BY <1>3 DEF StatusOthers, StatusRoomLog, AfterRoom, StatusPcs
  <2>4. QED
    BY <2>1, <2>2, <2>3
<1>5. ~TaskFind(q)
  <2>1. SUFFICES ASSUME TaskFind(q) PROVE FALSE
    OBVIOUS
  <2>2. CleaningOf(req[q].booking) = {}
    BY <1>2, <2>1 DEF KnowsStatus, Ordering, TaskFind, At, SystemOrdersTasks, Undisturbed
  <2>3. Goto(q, "pick")
    BY <2>1, <2>2 DEF TaskFind, CleaningOf
  <2>4. QED
    BY <1>3, <2>3 DEF StatusPcs
<1>6. ~TaskPick(q)
  <2>1. SUFFICES ASSUME TaskPick(q) PROVE FALSE
    OBVIOUS
  <2>2. req'[q].op = "status"
    BY <2>1 DEF TaskPick, At, Served, Idle, TypeOK, BookingRequest,
                HousekeepingRequest, RoomDeskRequest
  <2>3. QED
    BY <2>2 DEF Idle
<1>7. QED
  BY <1>1, <1>4, <1>5, <1>6
     DEF Step, BookingStep, HousekeepingStep, RoomDeskStep, CreateCheck, CreateInsert,
         CreateLog, ExtendCheck, ExtendWrite, TaskDispatch, TaskInsert, MarkRead,
         MarkRoom, MarkRoomLog, CleanWrite, ReleaseRead, ReleaseRoom, ReleaseRoomLog,
         ManualWrite, ManualLog, ArchiveCount, ArchiveWrite, At

(***************************************************************************)
(* A check-out that is answered has ordered its cleaning.                  *)
(***************************************************************************)
THEOREM CheckoutOrdersCleaning ==
    ASSUME Undisturbed, "task" \notin Ops
    PROVE  Spec => DepartureOrdersCleaning
<1>1. ASSUME TypeOK, TurnoverInv, Next, NEW q \in Requests,
             Served(q), req[q].op = "status", req[q].to = "CHECKED_OUT", req'[q] = Idle
      PROVE  \E t \in TaskIds : /\ task'[t] # NoRow
                                /\ task'[t].booking = req[q].booking
                                /\ task'[t].type = "CHECKOUT_CLEAN"
                                /\ task'[t].status \in OpenTask
  <2>1. TaskOrder(q)
    BY <1>1, CheckoutEnds
  <2>2. PICK t \in TaskIds :
          task' = [task EXCEPT ![t] = [status |-> "PENDING", room |-> req[q].room,
                                       booking |-> req[q].booking, type |-> "CHECKOUT_CLEAN",
                                       assignee |-> req[q].assignee]]
    BY <2>1 DEF TaskOrder
  <2>3. /\ task'[t].booking = req[q].booking /\ task'[t].type = "CHECKOUT_CLEAN"
        /\ task'[t].status = "PENDING" /\ task'[t] # NoRow
    BY <1>1, <2>2 DEF TypeOK, NoRow
  <2>4. QED
    BY <2>3 DEF OpenTask
<1>2. TypeOK /\ RowsExist /\ TurnoverInv /\ [Next]_vars =>
        [\A q \in Requests :
            /\ Served(q)
            /\ req[q].op = "status"
            /\ req[q].to = "CHECKED_OUT"
            /\ req'[q] = Idle
            => \E t \in TaskIds :
                  /\ task'[t] # NoRow
                  /\ task'[t].booking = req[q].booking
                  /\ task'[t].type = "CHECKOUT_CLEAN"
                  /\ task'[t].status \in OpenTask]_vars
  BY <1>1
<1>3. QED
  BY <1>2, TurnoverSound, PTL DEF Spec, DepartureOrdersCleaning, Undisturbed
==============================================================================
