----------------------------- MODULE Housekeeping -----------------------------
(***************************************************************************)
(* housekeeping.service.ts: create, updateStatus, assign, and the two      *)
(* private methods that move the room between AVAILABLE and MAINTENANCE.   *)
(***************************************************************************)
EXTENDS LodgingDb

(***************************************************************************)
(* create.  The manager may name a booking of the room and a housekeeper;  *)
(* a CHECKOUT_CLEAN without one is given to the best housekeeper.          *)
(***************************************************************************)
TaskRead(q) ==
    \E r \in Rooms, type \in TaskType, assignee \in Housekeepers \cup {Null} :
      \E b \in BookedIn(r) \cup {Null} :
        /\ Admit(q, "task", r)
        /\ RoomForTask
        /\ ~room[r].deleted
        /\ req' = [req EXCEPT ![q] =
                     [op |-> "task", room |-> r, booking |-> b, type |-> type,
                      assignee |-> assignee,
                      pc |-> IF assignee = Null /\ type = "CHECKOUT_CLEAN"
                             THEN "pick" ELSE "insert"]]
        /\ UNCHANGED <<calendarVars, room, branchBuffer, task, trailVars>>

TaskDispatch(q) ==
    /\ At(q, "task", "pick")
    /\ req' = [req EXCEPT ![q].assignee = BestHousekeeper, ![q].pc = "insert"]
    /\ UNCHANGED <<calendarVars, room, branchBuffer, task, trailVars>>

TaskInsert(q) ==
    /\ At(q, "task", "insert")
    /\ \E t \in TaskIds :
         /\ task[t] = NoRow
         /\ task' = [task EXCEPT ![t] =
                       [status |-> "PENDING", room |-> req[q].room,
                        booking |-> req[q].booking, type |-> req[q].type,
                        assignee |-> req[q].assignee]]
    /\ IF req[q].type = "CHECKOUT_CLEAN" THEN Goto(q, "mark") ELSE Answer(q)
    /\ UNCHANGED <<calendarVars, room, branchBuffer, trailVars>>

(***************************************************************************)
(* markRoomPendingCleaning: only a room read as AVAILABLE is set aside.    *)
(***************************************************************************)
MarkRead(q) ==
    /\ At(q, "task", "mark")
    /\ IF room[req[q].room].deleted \/ room[req[q].room].status # "AVAILABLE"
       THEN Answer(q)
       ELSE Goto(q, "room")
    /\ UNCHANGED <<calendarVars, room, branchBuffer, task, trailVars>>

MarkRoom(q) ==
    /\ At(q, "task", "room")
    /\ SetRoomStatus(req[q].room, "MAINTENANCE")
    /\ Goto(q, "roomLog")
    /\ UNCHANGED <<calendarVars, branchBuffer, task, trailVars>>

MarkRoomLog(q) ==
    /\ At(q, "task", "roomLog")
    /\ LogRoomStatus(req[q].room, "AVAILABLE", "MAINTENANCE")
    /\ Answer(q)
    /\ UNCHANGED <<calendarVars, room, branchBuffer, task, bookingTrail>>

-----------------------------------------------------------------------------
(***************************************************************************)
(* updateStatus.  A housekeeper may only move tasks of their own, a branch *)
(* manager any task of the branch.                                         *)
(***************************************************************************)
TaskTransitions ==
    [PENDING     |-> {"IN_PROGRESS", "DONE"},
     IN_PROGRESS |-> {"DONE"},
     DONE        |-> {},
     SKIPPED     |-> {}]

\* staff is Null for the manager.
MayMove(staff, t) == staff = Null \/ task[t].assignee = staff

CleanRead(q) ==
    \E t \in TaskIds, to \in TaskStatus, staff \in Housekeepers \cup {Null} :
        /\ task[t] # NoRow
        /\ Admit(q, "clean", task[t].room)
        /\ MayMove(staff, t)
        /\ to \in TaskTransitions[task[t].status]
        /\ req' = [req EXCEPT ![q] =
                     [op |-> "clean", pc |-> "write", room |-> task[t].room,
                      task |-> t, to |-> to]]
        /\ UNCHANGED <<calendarVars, room, branchBuffer, task, trailVars>>

\* releaseRoomIfCleaningCompleted starts its three queries together.
ReleaseQueries == {"openTask", "guest", "room"}

CleanWrite(q) ==
    /\ At(q, "clean", "write")
    /\ task' = [task EXCEPT ![req[q].task].status = req[q].to]
    /\ IF req[q].to = "DONE" /\ task[req[q].task].type = "CHECKOUT_CLEAN"
       THEN req' = [req EXCEPT ![q] =
                      [op |-> "clean", pc |-> "release", room |-> req[q].room,
                       task |-> req[q].task, unread |-> ReleaseQueries,
                       release |-> TRUE]]
       ELSE Answer(q)
    /\ UNCHANGED <<calendarVars, room, branchBuffer, trailVars>>

\* What each of the three queries must answer for the room to be released.
NoBlocker(q, query) ==
    LET r == req[q].room IN
    CASE query = "openTask" ->
           \A t \in TaskIds \ {req[q].task} :
               ~(task[t] # NoRow /\ task[t].room = r /\ task[t].status \in OpenTask)
      [] query = "guest" -> \A b \in BookedIn(r) : booking[b].status # "CHECKED_IN"
      [] query = "room"  -> ~room[r].deleted /\ room[r].status = "MAINTENANCE"

(***************************************************************************)
(* The three queries are separate statements on separate connections: they *)
(* are answered in any order, with other requests in between.  The last    *)
(* answer decides.                                                         *)
(***************************************************************************)
ReleaseRead(q) ==
    /\ At(q, "clean", "release")
    /\ \E query \in req[q].unread :
         LET unread  == req[q].unread \ {query}
             release == req[q].release /\ NoBlocker(q, query)
         IN  IF unread # {}
             THEN req' = [req EXCEPT ![q].unread = unread, ![q].release = release]
             ELSE IF release
                  THEN req' = [req EXCEPT ![q] = [op |-> "clean", pc |-> "room",
                                                  room |-> req[q].room]]
                  ELSE Answer(q)
    /\ UNCHANGED <<calendarVars, room, branchBuffer, task, trailVars>>

ReleaseRoom(q) ==
    /\ At(q, "clean", "room")
    /\ SetRoomStatus(req[q].room, "AVAILABLE")
    /\ Goto(q, "roomLog")
    /\ UNCHANGED <<calendarVars, branchBuffer, task, trailVars>>

ReleaseRoomLog(q) ==
    /\ At(q, "clean", "roomLog")
    /\ LogRoomStatus(req[q].room, "MAINTENANCE", "AVAILABLE")
    /\ Answer(q)
    /\ UNCHANGED <<calendarVars, room, branchBuffer, task, bookingTrail>>

-----------------------------------------------------------------------------
(***************************************************************************)
(* assign.  The task and the housekeeper are looked up first; neither can  *)
(* disappear in this model, so the lookup and the update are one step.     *)
(***************************************************************************)
Assign(t, h) ==
    /\ "assign" \in Ops
    /\ task[t] # NoRow
    /\ task' = [task EXCEPT ![t].assignee = h]
    /\ UNCHANGED <<calendarVars, room, branchBuffer, trailVars, req>>

HousekeepingStart(q) == TaskRead(q) \/ CleanRead(q)

HousekeepingStep(q) ==
    \/ TaskDispatch(q) \/ TaskInsert(q)
    \/ MarkRead(q) \/ MarkRoom(q) \/ MarkRoomLog(q)
    \/ CleanWrite(q) \/ ReleaseRead(q) \/ ReleaseRoom(q) \/ ReleaseRoomLog(q)

HousekeepingRequest ==
    [op: {"task"}, pc: {"pick", "insert", "mark", "room", "roomLog"}, room: Rooms,
     booking: BookingIds \cup {Null}, type: TaskType,
     assignee: Housekeepers \cup {Null}]
    \cup [op: {"clean"}, pc: {"write"}, room: Rooms, task: TaskIds, to: TaskStatus]
    \cup [op: {"clean"}, pc: {"release"}, room: Rooms, task: TaskIds,
          unread: SUBSET ReleaseQueries, release: BOOLEAN]
    \cup [op: {"clean"}, pc: {"room", "roomLog"}, room: Rooms]
==============================================================================
