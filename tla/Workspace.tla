------------------------------- MODULE Workspace -------------------------------
(***************************************************************************)
(* What the plan of the organization allows it to have: subscriptions      *)
(* upgrade, organizations updateStatus, branches create, update,           *)
(* toggleMarketplace and remove, rooms create and remove.                  *)
(***************************************************************************)
EXTENDS Access

\* upgrade puts any active plan in the place of the present one, whatever exists.
Upgrade(a, p) ==
    /\ AtOnce("plan")
    /\ MayUpgrade(a)
    /\ org' = [org EXCEPT ![Home].plan = p]
    /\ UNCHANGED <<pending, user, mail, staff, estateVars, pictureVars, review>>

\* updateStatus, by the administrator of the platform.
SetOrgStatus(s, open) ==
    /\ AtOnce("status")
    /\ org[s] # NoRow
    /\ org' = [org EXCEPT ![s].open = open]
    /\ UNCHANGED <<pending, user, mail, staff, estateVars, pictureVars, review>>

-----------------------------------------------------------------------------
\* A faulty comparison that lets one more in than the plan allows.
BelowOrAt(count, max) == max # Unlimited => count <= max

\* The comparison of the number of rows with the plan's limit.
Below(count, max) == max # Unlimited => count < max

\* create: the plan is read first, the branches are counted next.
BranchCreateRead(q) ==
    \E a \in Emails :
        /\ MayCreateBranch(a)
        /\ RoomFor(FreeBranches, {"branch"})
        /\ Begin(q, [op |-> "branch", pc |-> "count", max |-> org[Home].plan.maxBranches])
        /\ UNCHANGED <<accountVars, staff, estateVars, pictureVars, review>>

BranchCreateCount(q) ==
    /\ At(q, "branch", "count")
    /\ IF Below(Cardinality(LiveBranches), req[q].max)
       THEN Continue(q, [op |-> "branch", pc |-> "insert"])
       ELSE Answer(q)
    /\ UNCHANGED <<accountVars, staff, estateVars, pictureVars, review>>

BranchCreateInsert(q) ==
    /\ At(q, "branch", "insert")
    /\ \E b \in FreeBranches :
         branch' = [branch EXCEPT ![b] = [active |-> TRUE, listed |-> FALSE, deleted |-> FALSE]]
    /\ Answer(q)
    /\ UNCHANGED <<accountVars, staff, room, pictureVars, review>>

\* update: of its fields only isActive matters here.
BranchUpdateRead(q) ==
    \E a \in Emails, b \in LiveBranches, active \in BOOLEAN :
        /\ MayUpdateBranch(a)
        /\ InScope(a, b)
        /\ Begin(q, [op |-> "edit", pc |-> "write", actor |-> a, branch |-> b,
                     active |-> active])
        /\ UNCHANGED <<accountVars, staff, estateVars, pictureVars, review>>

BranchUpdateWrite(q) ==
    /\ At(q, "edit", "write")
    /\ branch' = [branch EXCEPT ![req[q].branch].active = req[q].active]
    /\ Answer(q)
    /\ UNCHANGED <<accountVars, staff, room, pictureVars, review>>

\* toggleMarketplace: the plan is asked only when the branch is to be listed.
ListRead(q) ==
    \E a \in Emails, b \in LiveBranches, listed \in BOOLEAN :
        /\ MayListBranch(a)
        /\ listed => org[Home].plan.listing
        /\ Begin(q, [op |-> "list", pc |-> "write", branch |-> b, listed |-> listed])
        /\ UNCHANGED <<accountVars, staff, estateVars, pictureVars, review>>

ListWrite(q) ==
    /\ At(q, "list", "write")
    /\ branch' = [branch EXCEPT ![req[q].branch].listed = req[q].listed]
    /\ Answer(q)
    /\ UNCHANGED <<accountVars, staff, room, pictureVars, review>>

(***************************************************************************)
(* remove: refused while rooms exist.  The bookings that are counted next  *)
(* are those of rooms that exist, so there are none.                       *)
(***************************************************************************)
ArchiveCount(q) ==
    \E a \in Emails, b \in LiveBranches :
        /\ MayRemoveBranch(a)
        /\ RoomsOf(b) = {}
        /\ Begin(q, [op |-> "archive", pc |-> "write", branch |-> b])
        /\ UNCHANGED <<accountVars, staff, estateVars, pictureVars, review>>

\* A faulty archiving that leaves the branch on the marketplace.
ArchiveWriteListed(q) ==
    /\ At(q, "archive", "write")
    /\ branch' = [branch EXCEPT ![req[q].branch].active = FALSE,
                                ![req[q].branch].deleted = TRUE]
    /\ Answer(q)
    /\ UNCHANGED <<accountVars, staff, room, pictureVars, review>>

ArchiveWrite(q) ==
    /\ At(q, "archive", "write")
    /\ branch' = [branch EXCEPT ![req[q].branch] =
                    [active |-> FALSE, listed |-> FALSE, deleted |-> TRUE]]
    /\ Answer(q)
    /\ UNCHANGED <<accountVars, staff, room, pictureVars, review>>

-----------------------------------------------------------------------------
RoomCreateRead(q) ==
    \E a \in Emails, b \in LiveBranches :
        /\ MayCreateRoom(a)
        /\ InScope(a, b)
        /\ RoomFor(FreeRooms, {"room"})
        /\ Begin(q, [op |-> "room", pc |-> "count", actor |-> a, branch |-> b,
                     max |-> org[Home].plan.maxRooms])
        /\ UNCHANGED <<accountVars, staff, estateVars, pictureVars, review>>

RoomCreateCount(q) ==
    /\ At(q, "room", "count")
    /\ IF Below(Cardinality(RoomsOf(req[q].branch)), req[q].max)
       THEN Continue(q, [op |-> "room", pc |-> "insert", actor |-> req[q].actor,
                         branch |-> req[q].branch])
       ELSE Answer(q)
    /\ UNCHANGED <<accountVars, staff, estateVars, pictureVars, review>>

RoomCreateInsert(q) ==
    /\ At(q, "room", "insert")
    /\ \E r \in FreeRooms :
         room' = [room EXCEPT ![r] = [branch |-> req[q].branch, deleted |-> FALSE]]
    /\ Answer(q)
    /\ UNCHANGED <<accountVars, staff, branch, pictureVars, review>>

\* remove; its count of bookings is in RoomDesk.
RoomRemove(a, r) ==
    /\ AtOnce("room")
    /\ MayRemoveRoom(a)
    /\ r \in LiveRooms
    /\ room' = [room EXCEPT ![r].deleted = TRUE]
    /\ UNCHANGED <<accountVars, staff, branch, pictureVars, review>>

-----------------------------------------------------------------------------
WorkspaceStart(q) ==
    \/ BranchCreateRead(q) \/ BranchUpdateRead(q) \/ ListRead(q) \/ ArchiveCount(q)
    \/ RoomCreateRead(q)

WorkspaceStep(q) ==
    \/ BranchCreateCount(q) \/ BranchCreateInsert(q) \/ BranchUpdateWrite(q)
    \/ ListWrite(q) \/ ArchiveWrite(q)
    \/ RoomCreateCount(q) \/ RoomCreateInsert(q)

WorkspaceWrites ==
    \/ \E a \in Emails, p \in Plans : Upgrade(a, p)
    \/ \E s \in Slugs, open \in BOOLEAN : SetOrgStatus(s, open)
    \/ \E a \in Emails, r \in Rooms : RoomRemove(a, r)

WorkspaceRequest ==
    [op: {"branch"}, pc: {"count"}, max: Int]
    \cup [op: {"branch"}, pc: {"insert"}]
    \cup [op: {"edit"}, pc: {"write"}, actor: Emails, branch: Branches, active: BOOLEAN]
    \cup [op: {"list"}, pc: {"write"}, branch: Branches, listed: BOOLEAN]
    \cup [op: {"archive"}, pc: {"write"}, branch: Branches]
    \cup [op: {"room"}, pc: {"count"}, actor: Emails, branch: Branches, max: Int]
    \cup [op: {"room"}, pc: {"insert"}, actor: Emails, branch: Branches]
==============================================================================
