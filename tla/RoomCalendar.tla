----------------------------- MODULE RoomCalendar -----------------------------
(***************************************************************************)
(* What the reservation desk promises, without requests, tables or buffer: *)
(* a room is held by one stay at a time.  A stay is entered with the       *)
(* interval it asked for, may be prolonged, and leaves the calendar for    *)
(* good when the guest departs, cancels or does not show up.               *)
(***************************************************************************)
EXTENDS Integers

CONSTANTS
    Rooms, StayIds, Times,
    NoStay              \* a row that is not on the calendar

VARIABLES
    stays,    \* id -> [room, from, until] while the room is held for it, or NoStay
    past      \* ids of the stays that have left the calendar

Held == {b \in StayIds : stays[b] # NoStay}

\* No other stay of the room has an instant in [from, until).
Vacant(r, from, until, except) ==
    \A c \in Held \ {except} :
        stays[c].room = r => stays[c].until <= from \/ until <= stays[c].from

Init ==
    /\ stays = [b \in StayIds |-> NoStay]
    /\ past = {}

Reserve(b) ==
    /\ b \notin Held \cup past
    /\ \E r \in Rooms, from, until \in Times :
         /\ from < until
         /\ Vacant(r, from, until, b)
         /\ stays' = [stays EXCEPT ![b] = [room |-> r, from |-> from, until |-> until]]
    /\ UNCHANGED past

Prolong(b) ==
    /\ b \in Held
    /\ \E until \in Times :
         /\ until > stays[b].until
         /\ Vacant(stays[b].room, stays[b].from, until, b)
         /\ stays' = [stays EXCEPT ![b].until = until]
    /\ UNCHANGED past

Release(b) ==
    /\ b \in Held
    /\ stays' = [stays EXCEPT ![b] = NoStay]
    /\ past' = past \cup {b}

Next == \E b \in StayIds : Reserve(b) \/ Prolong(b) \/ Release(b)

Spec == Init /\ [][Next]_<<stays, past>>
==============================================================================
