------------------------------- MODULE TenantDb -------------------------------
(***************************************************************************)
(* The tables of the back office: registrations, users, organizations, and *)
(* the staff, branches, rooms, images and reviews of one organization,     *)
(* Home.  Every query on the latter is confined to the organization of the *)
(* caller, so organizations do not meet there.  As in LodgingDb a request  *)
(* is a chain of awaited calls, and req[q] holds where request q stands    *)
(* and what it has read and still uses.                                    *)
(***************************************************************************)
EXTENDS Integers, FiniteSets

CONSTANTS
    Emails,      \* addresses of people; a user never changes theirs
    Slugs,       \* names of organizations
    Owner, Home, \* the owner and the slug of the organization looked at
    Links,       \* bound: verification tokens drawn (32 random bytes each)
    Branches, Rooms, Images, Reviews,   \* bounds: rows of these tables
    Plans,       \* rows of subscription_plans that are active
    TrialPlan,   \* the one among them that verifyEmail starts with
    Requests,    \* bound: requests in flight at the same time
    Openings,    \* environment: the kinds of clients an instance looks at
    MayFail,     \* environment: an awaited call may be rejected
    Unsent,      \* a field that the body of a request does not have
    Null

Unlimited == -1

\* ACCOUNTANT is refused wherever a role is given.
StaffRole == {"ORG_MANAGER", "BRANCH_MANAGER", "RECEPTIONIST", "HOUSEKEEPER"}

Plan == [maxBranches: Int, maxRooms: Int, listing: BOOLEAN]

Endpoints == {"register", "resend", "verify", "hire", "staff", "plan", "status",
              "branch", "edit", "list", "archive", "room", "upload", "cover", "delete",
              "reply", "publish"}

ASSUME HomeAssumption == Owner \in Emails /\ Home \in Slugs
ASSUME PlanAssumption == Plans \subseteq Plan /\ TrialPlan \in Plans
ASSUME OpeningAssumption ==
    \A o \in Openings :
        /\ DOMAIN o = {"ops", "turns", "people", "plan"}
        /\ o.ops \subseteq Endpoints /\ o.turns \in BOOLEAN
        /\ o.people \subseteq Emails /\ o.plan \in Plans
ASSUME BoundsAssumption == IsFiniteSet(Branches) /\ IsFiniteSet(Rooms)
ASSUME NullAssumption ==
    Null \notin Emails \cup Slugs \cup Links \cup Branches
ASSUME UnsentAssumption ==
    Unsent \notin Branches \cup {Null} /\ Unsent \notin BOOLEAN /\ Unsent \notin StaffRole

VARIABLES
    pending,   \* email -> row of table pending_owner_registrations
    user,      \* email -> row of table users
    org,       \* slug -> row of table organizations and its subscription
    mail,      \* history: link -> what the message that carried it said
    staff,     \* email -> the user's row of table staff
    branch,    \* id -> row of table branches
    room,      \* id -> row of table rooms
    image,     \* id -> row of table branch_images or room_images
    file,      \* the files Cloudinary keeps, named by the image they belong to
    review,    \* id -> row of table reviews
    clients,   \* the endpoints they call (ops), whether they take turns, the
               \* addresses they enter (people), and the plan Home is on at first
    req        \* the requests being served

accountVars == <<pending, user, org, mail>>
estateVars  == <<branch, room>>
pictureVars == <<image, file>>

vars == <<accountVars, staff, estateVars, pictureVars, review, clients, req>>

-----------------------------------------------------------------------------
UserRole  == StaffRole \cup {"ORG_OWNER"}

NoRow == [kind |-> "none"]
Gone  == [kind |-> "gone"]

\* A row is known by the link it was created with; no two have the same.
PendingRow == [id: Links, slug: Slugs, link: Links]
UserRow    == [role: UserRole, active: BOOLEAN, verified: BOOLEAN,
               link: Links \cup {Null}]
\* open: isWorkspaceAccessibleStatus of the status.
OrgRow     == [owner: Emails, open: BOOLEAN, plan: Plans]
StaffRow   == [role: StaffRole, branch: Branches \cup {Null}, active: BOOLEAN]
BranchRow  == [active: BOOLEAN, listed: BOOLEAN, deleted: BOOLEAN]
RoomRow    == [branch: Branches, deleted: BOOLEAN]
\* of: the branch or the room in the picture.
ImageRow   == [of: Branches \cup Rooms, cover: BOOLEAN]
ReviewRow  == [branch: Branches, published: BOOLEAN, replied: BOOLEAN,
               by: Emails \cup {Null}]

OwnerRow == [role |-> "ORG_OWNER", active |-> TRUE, verified |-> TRUE, link |-> Null]

OrgOf(owner, plan) == [owner |-> owner, open |-> TRUE, plan |-> plan]

LiveBranches == {b \in Branches : branch[b] # NoRow /\ ~branch[b].deleted}

LiveRooms == {r \in Rooms : room[r] # NoRow /\ ~room[r].deleted}

RoomsOf(b) == {r \in LiveRooms : room[r].branch = b}

Pictures == {i \in Images : image[i] \notin {NoRow, Gone}}

-----------------------------------------------------------------------------
Idle == [op |-> "idle"]

Served(q) == req[q] # Idle

At(q, op, pc) == Served(q) /\ req[q].op = op /\ req[q].pc = pc

AtRest == \A q \in Requests : ~Served(q)

\* A client calls endpoint first.op; q is a free slot.
Begin(q, first) ==
    /\ first.op \in clients.ops
    /\ clients.turns => AtRest
    /\ ~Served(q)
    /\ req' = [req EXCEPT ![q] = first]
    /\ UNCHANGED clients

\* A request of a single write that decides on nothing it has read before.
AtOnce(op) ==
    /\ op \in clients.ops
    /\ clients.turns => AtRest
    /\ UNCHANGED <<clients, req>>

Continue(q, next) == req' = [req EXCEPT ![q] = next] /\ UNCHANGED clients

Goto(q, pc) == Continue(q, [req[q] EXCEPT !.pc = pc])

Answer(q) == Continue(q, Idle)

Fail(q) ==
    /\ MayFail
    /\ Served(q)
    /\ Answer(q)
    /\ UNCHANGED <<accountVars, staff, estateVars, pictureVars, review>>

\* An id that no row has had and, of those that are drawn before, no request holds.
FreeBranches == {b \in Branches : branch[b] = NoRow}
FreeRooms    == {r \in Rooms : room[r] = NoRow}

FreshLinks ==
    {l \in Links :
        /\ mail[l] = NoRow
        /\ \A e \in Emails : pending[e] # NoRow => l \notin {pending[e].id, pending[e].link}
        /\ \A e \in Emails : user[e] # NoRow => user[e].link # l
        /\ \A q \in Requests : Served(q) /\ req[q].pc = "mail" => req[q].link # l}

FreshImages == {i \in Images : image[i] = NoRow /\ i \notin file}

\* Every row that the requests in flight may still insert fits below the bound.
RoomFor(free, ops) ==
    Cardinality(free) > Cardinality({p \in Requests : Served(p) /\ req[p].op \in ops})

-----------------------------------------------------------------------------
(***************************************************************************)
(* What verifyEmail leaves behind when the owner's registration is done,   *)
(* and perhaps an upgrade.                                                 *)
(***************************************************************************)
Init ==
    /\ clients \in Openings
    /\ pending = [e \in Emails |-> NoRow]
    /\ user = [[e \in Emails |-> NoRow] EXCEPT ![Owner] = OwnerRow]
    /\ org = [[s \in Slugs |-> NoRow] EXCEPT ![Home] = OrgOf(Owner, clients.plan)]
    /\ mail = [l \in Links |-> NoRow]
    /\ staff = [e \in Emails |-> NoRow]
    /\ branch = [b \in Branches |-> NoRow]
    /\ room = [r \in Rooms |-> NoRow]
    /\ image = [i \in Images |-> NoRow]
    /\ file = {}
    /\ review = [v \in Reviews |-> NoRow]
    /\ req = [q \in Requests |-> Idle]
==============================================================================
