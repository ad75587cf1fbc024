------------------------------- MODULE RoomDesk -------------------------------
(***************************************************************************)
(* rooms.service.ts (updateStatus, remove, the bufferHours of update) and  *)
(* the bufferHours of branches.service.ts update.                          *)
(***************************************************************************)
EXTENDS LodgingDb

\* A manager sets any status but OCCUPIED, whatever the room's present status.
ManualRead(q) ==
    \E r \in Rooms, to \in RoomStatus \ {"OCCUPIED"} :
        /\ Admit(q, "manual", r)
        /\ ~room[r].deleted
        /\ req' = [req EXCEPT ![q] =
                     [op |-> "manual", pc |-> "write", room |-> r, to |-> to,
                      seen |-> room[r].status]]
        /\ UNCHANGED <<calendarVars, room, branchBuffer, task, trailVars>>

ManualWrite(q) ==
    /\ At(q, "manual", "write")
    /\ SetRoomStatus(req[q].room, req[q].to)
    /\ Goto(q, "log")
    /\ UNCHANGED <<calendarVars, branchBuffer, task, trailVars>>

ManualLog(q) ==
    /\ At(q, "manual", "log")
    /\ LogRoomStatus(req[q].room, req[q].seen, req[q].to)
    /\ Answer(q)
    /\ UNCHANGED <<calendarVars, room, branchBuffer, task, bookingTrail>>

-----------------------------------------------------------------------------
ArchiveRead(q) ==
    \E r \in Rooms :
        /\ Admit(q, "archive", r)
        /\ ~room[r].deleted
        /\ req' = [req EXCEPT ![q] = [op |-> "archive", pc |-> "count", room |-> r]]
        /\ UNCHANGED <<calendarVars, room, branchBuffer, task, trailVars>>

\* A faulty count of the guests who have arrived only.
ArchiveCountGuests(q) ==
    /\ At(q, "archive", "count")
    /\ IF \E b \in BookedIn(req[q].room) : booking[b].status = "CHECKED_IN"
       THEN Answer(q)
       ELSE Goto(q, "write")
    /\ UNCHANGED <<calendarVars, room, branchBuffer, task, trailVars>>

\* Cannot delete room while active bookings still exist.
ArchiveCount(q) ==
    /\ At(q, "archive", "count")
    /\ IF \E b \in BookedIn(req[q].room) :
             booking[b].status \in {"PENDING", "CONFIRMED", "CHECKED_IN"}
       THEN Answer(q)
       ELSE Goto(q, "write")
    /\ UNCHANGED <<calendarVars, room, branchBuffer, task, trailVars>>

\* remove writes no audit entry.
ArchiveWrite(q) ==
    /\ At(q, "archive", "write")
    /\ room' = [room EXCEPT ![req[q].room].status = "INACTIVE",
                            ![req[q].room].deleted = TRUE]
    /\ Answer(q)
    /\ UNCHANGED <<calendarVars, branchBuffer, task, trailVars>>

-----------------------------------------------------------------------------
(***************************************************************************)
(* The two updates look the row up and then write it; the lookup only      *)
(* refuses a row that is archived, and the buffer of an archived room is   *)
(* read by nobody, so that lookup and write are one step.                  *)
(***************************************************************************)
SetRoomBuffer(r, hours) ==
    /\ "buffer" \in Ops
    /\ ~room[r].deleted
    /\ room' = [room EXCEPT ![r].buffer = hours]
    /\ UNCHANGED <<calendarVars, branchBuffer, task, trailVars, req>>

SetBranchBuffer(hours) ==
    /\ "buffer" \in Ops
    /\ branchBuffer' = hours
    /\ UNCHANGED <<calendarVars, room, task, trailVars, req>>

RoomDeskStart(q) == ManualRead(q) \/ ArchiveRead(q)

RoomDeskStep(q) ==
    ManualWrite(q) \/ ManualLog(q) \/ ArchiveCount(q) \/ ArchiveWrite(q)

RoomDeskRequest ==
    [op: {"manual"}, pc: {"write", "log"}, room: Rooms,
     to: RoomStatus \ {"OCCUPIED"}, seen: RoomStatus]
    \cup [op: {"archive"}, pc: {"count", "write"}, room: Rooms]
==============================================================================
