------------------------------ MODULE Occupancy ------------------------------
(***************************************************************************)
(* The arithmetic of src/src/common/services/occupancy.service.ts that     *)
(* bookings, extensions and the availability screen share.                 *)
(*                                                                         *)
(* Instants are whole hours (the code multiplies every duration it adds by *)
(* 60*60*1000, so an hour is the grain at which it moves a date).  A stay  *)
(* is a record with at least the fields checkIn, checkOut and              *)
(* actualCheckOut; actualCheckOut is Null until an extension or the        *)
(* check-out of the guest sets it.                                         *)
(***************************************************************************)
EXTENDS Integers

CONSTANT Null        \* the SQL null / TypeScript null

ASSUME NullAssumption == Null \notin Int

\* A faulty buffer that does not fall back on the branch.
BufferHoursOfRoom(roomBuffer, branchBuffer) == roomBuffer

(***************************************************************************)
(* roomBufferHours ?? branchBufferHours ?? 2                               *)
(***************************************************************************)
BufferHours(roomBuffer, branchBuffer) ==
    IF roomBuffer # Null THEN roomBuffer
    ELSE IF branchBuffer # Null THEN branchBuffer
    ELSE 2

EffectiveCheckOut(stay) ==
    IF stay.actualCheckOut # Null THEN stay.actualCheckOut ELSE stay.checkOut

OccupiedUntil(stay, buffer) == EffectiveCheckOut(stay) + buffer

\* The { checkOut } object the callers pass for a window that is only asked for.
Asked(checkOut) == [checkOut |-> checkOut, actualCheckOut |-> Null]

\* A faulty test that leaves no turnaround before the next stay.
HasOccupancyConflictOneSided(stay, askedIn, askedOut, buffer) ==
    /\ stay.checkIn < askedOut
    /\ OccupiedUntil(stay, buffer) > askedIn

HasOccupancyConflict(stay, askedIn, askedOut, buffer) ==
    /\ stay.checkIn < OccupiedUntil(Asked(askedOut), buffer)
    /\ OccupiedUntil(stay, buffer) > askedIn

(***************************************************************************)
(* Two half-open intervals [in, out) without a common instant: what the    *)
(* conflict test is for.                                                   *)
(***************************************************************************)
Apart(in1, out1, in2, out2) == out1 <= in2 \/ out2 <= in1
==============================================================================
