----------------------------- MODULE Availability -----------------------------
(***************************************************************************)
(* The list algorithms of OccupancyService (sortByCheckIn,                 *)
(* findFirstConflict, getNextAvailableAt) and their three callers: the     *)
(* availability screen (rooms.service.ts checkAvailability), the check of  *)
(* a new booking (bookings.service.ts) and isRoomAvailable                 *)
(* (availability.util.ts).  The state is the list of active bookings of    *)
(* one room, in the order the database returns it; the queries are pure    *)
(* and are compared with a reference definition for every window asked and *)
(* for every row the room itself may have.                                 *)
(***************************************************************************)
EXTENDS Occupancy, Sequences, FiniteSetsExt

CONSTANTS
    Hours,        \* instants of the instance
    Buffers,      \* buffer lengths asked for
    MaxStays      \* bound on the length of the list

ASSUME AvailabilityAssumption ==
    /\ Hours \subseteq Int
    /\ Buffers \subseteq Int
    /\ MaxStays \in Nat

Stay == [checkIn : Int, checkOut : Int, actualCheckOut : Int \cup {Null}]

ASSUME NullIsNoStay == Null \notin Stay

\* What the callers read of the room itself; the branch is not archived.
RoomRow == [status  : {"AVAILABLE", "OCCUPIED", "MAINTENANCE", "INACTIVE"},
            deleted : BOOLEAN]

VARIABLE calendar    \* Seq(Stay): the CONFIRMED and CHECKED_IN bookings of the room

Windows == {w \in Hours \X Hours : w[1] < w[2]}

-----------------------------------------------------------------------------
\* The order of the sort: stays of the same hour keep the order they came in.
Earlier(stays, i, j) ==
    \/ stays[i].checkIn < stays[j].checkIn
    \/ stays[i].checkIn = stays[j].checkIn /\ i < j

\* The list of the stays whose index is in kept, by check-in.
InOrder(stays, kept) ==
    [place \in 1 .. Cardinality(kept) |->
        stays[CHOOSE i \in kept :
                Cardinality({j \in kept : Earlier(stays, j, i)}) = place - 1]]

SortByCheckIn(stays) == InOrder(stays, DOMAIN stays)

\* The array find: the first element that satisfies the test, or Null.
FindFirstConflict(stays, askedIn, askedOut, buffer) ==
    LET sorted == SortByCheckIn(stays)
        hits   == {i \in DOMAIN sorted :
                     HasOccupancyConflict(sorted[i], askedIn, askedOut, buffer)}
    IN  IF hits = {} THEN Null ELSE sorted[Min(hits)]

\* A faulty loop that visits every later booking although the chain has ended.
ChainStepNoBreak(acc, stay, buffer) ==
    [acc EXCEPT !.until = Max({acc.until, OccupiedUntil(stay, buffer)})]

\* One turn of the loop of getNextAvailableAt; done stands for its break.
ChainStep(acc, stay, buffer) ==
    IF acc.done \/ stay.checkIn > acc.until
    THEN [acc EXCEPT !.done = TRUE]
    ELSE [acc EXCEPT !.until = Max({acc.until, OccupiedUntil(stay, buffer)})]

\* The loop over the bookings that come after the index-th, the conflict found.
Chain(sorted, index, buffer) ==
    LET chain[k \in index .. Len(sorted)] ==
            IF k = index
            THEN [until |-> OccupiedUntil(sorted[index], buffer), done |-> FALSE]
            ELSE ChainStep(chain[k - 1], sorted[k], buffer)
    IN  chain[Len(sorted)].until

NextAvailableAt(stays, askedIn, askedOut, buffer) ==
    LET sorted == SortByCheckIn(stays)
        first  == FindFirstConflict(sorted, askedIn, askedOut, buffer)
    IN  IF first = Null THEN Null
        ELSE Chain(sorted, Min({i \in DOMAIN sorted : sorted[i] = first}), buffer)

\* The room query of checkAvailability.
Listed(room) ==
    /\ ~room.deleted
    /\ room.status \notin {"INACTIVE", "MAINTENANCE"}

\* checkAvailability: a listed room is available when nothing has to be awaited.
ShownAvailable(room, stays, askedIn, askedOut, buffer) ==
    /\ Listed(room)
    /\ NextAvailableAt(stays, askedIn, askedOut, buffer) = Null

\* A faulty filter that compares with the check-out and forgets the buffer.
CandidatesNoBuffer(stays, askedOut, buffer) ==
    InOrder(stays, {i \in DOMAIN stays : stays[i].checkIn < askedOut})

\* The candidate query of bookings.service.ts; availability.util.ts asks the same
\* without the order, which its test of every candidate does not see.
Candidates(stays, askedOut, buffer) ==
    InOrder(stays, {i \in DOMAIN stays :
                      stays[i].checkIn < OccupiedUntil(Asked(askedOut), buffer)})

\* createBooking finds every room that is not deleted, whatever its status.
BookingAccepted(room, stays, askedIn, askedOut, buffer) ==
    /\ ~room.deleted
    /\ FindFirstConflict(Candidates(stays, askedOut, buffer),
                         askedIn, askedOut, buffer) = Null

\* The room is found by its id alone, deleted or not.
IsRoomAvailable(stays, askedIn, askedOut, buffer) ==
    LET candidates == Candidates(stays, askedOut, buffer)
    IN  ~\E i \in DOMAIN candidates :
            HasOccupancyConflict(candidates[i], askedIn, askedOut, buffer)

-----------------------------------------------------------------------------
(***************************************************************************)
(* The list grows by any stay at either end: the database promises no      *)
(* order between stays that begin at the same hour.                        *)
(***************************************************************************)
Init == calendar = <<>>

AddStay ==
    /\ Len(calendar) < MaxStays
    /\ \E w \in Windows, extended \in Hours \cup {Null} :
         /\ extended # Null => extended > w[2]
         /\ calendar' = Append(calendar,
                               [checkIn |-> w[1], checkOut |-> w[2],
                                actualCheckOut |-> extended])

Next == AddStay

Spec == Init /\ [][Next]_calendar

-----------------------------------------------------------------------------
(***************************************************************************)
(* Reference: t is free when no stay, buffer included, covers it.          *)
(***************************************************************************)
FreeAt(t, buffer) ==
    \A i \in DOMAIN calendar :
        ~(calendar[i].checkIn <= t /\ t < OccupiedUntil(calendar[i], buffer))

(***************************************************************************)
(* The time the availability screen shows (getNextAvailableAt) is the      *)
(* first free instant after the earliest stay that stands in the way, and  *)
(* never lies before the check-in that was asked for.                      *)
(***************************************************************************)
NextAvailableIsFirstFree ==
    \A w \in Windows, buffer \in Buffers :
        LET first == FindFirstConflict(calendar, w[1], w[2], buffer)
            shown == NextAvailableAt(calendar, w[1], w[2], buffer)
        IN  first # Null =>
              /\ shown > w[1]
              /\ FreeAt(shown, buffer)
              /\ \A t \in first.checkIn .. (shown - 1) : ~FreeAt(t, buffer)

(***************************************************************************)
(* The screen, the booking form and isRoomAvailable use different queries  *)
(* (the screen reads every active booking, the other two only those that   *)
(* start before the requested end; each looks for the room in its own      *)
(* way).  On the calendar they agree with each other and with the          *)
(* reference: the window is free when no stay, lengthened by the buffer on *)
(* both sides, meets it.  On the room the screen is the strictest: what it *)
(* offers the form accepts, and what the form accepts without the screen   *)
(* offering it is a room under maintenance or out of use.                  *)
(***************************************************************************)
AnswersAgree ==
    \A w \in Windows, buffer \in Buffers :
        LET free == \A i \in DOMAIN calendar :
                        Apart(w[1], w[2] + buffer, calendar[i].checkIn,
                              OccupiedUntil(calendar[i], buffer))
        IN  /\ IsRoomAvailable(calendar, w[1], w[2], buffer) = free
            /\ \A row \in RoomRow :
                 LET offered  == ShownAvailable(row, calendar, w[1], w[2], buffer)
                     accepted == BookingAccepted(row, calendar, w[1], w[2], buffer)
                 IN  /\ accepted = (free /\ ~row.deleted)
                     /\ offered => accepted
                     /\ accepted /\ ~offered =>
                          row.status \in {"MAINTENANCE", "INACTIVE"}
==============================================================================
