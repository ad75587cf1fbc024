------------------------------- MODULE BackOffice -------------------------------
(***************************************************************************)
(* Registration, staffing, the plan's limits, pictures and reviews         *)
(* together.  What holds only while requests take turns says so by         *)
(* clients.turns; the rest holds however they overlap.                     *)
(***************************************************************************)
EXTENDS Registration, Staffing, Workspace, Gallery, ReviewDesk

Start(q) ==
    \/ RegistrationStart(q) \/ StaffingStart(q) \/ WorkspaceStart(q)
    \/ GalleryStart(q) \/ ReviewStart(q)

Step(q) ==
    \/ RegistrationStep(q) \/ StaffingStep(q) \/ WorkspaceStep(q)
    \/ GalleryStep(q) \/ ReviewStep(q)

World ==
    \/ Toggles
    \/ WorkspaceWrites
    \/ \E v \in Reviews, b \in Branches : ReviewArrives(v, b)

Next == World \/ \E q \in Requests : Start(q) \/ Step(q) \/ Fail(q)

Spec == Init /\ [][Next]_vars

-----------------------------------------------------------------------------
TypeOK ==
    /\ pending \in [Emails -> PendingRow \cup {NoRow}]
    /\ user \in [Emails -> UserRow \cup {NoRow}]
    /\ org \in [Slugs -> OrgRow \cup {NoRow}]
    /\ mail \in [Links -> [to: Emails, slug: Slugs \cup {Null}] \cup {NoRow}]
    /\ staff \in [Emails -> StaffRow \cup {NoRow}]
    /\ branch \in [Branches -> BranchRow \cup {NoRow}]
    /\ room \in [Rooms -> RoomRow \cup {NoRow}]
    /\ image \in [Images -> ImageRow \cup {NoRow, Gone}]
    /\ file \subseteq Images
    /\ review \in [Reviews -> ReviewRow \cup {NoRow}]
    /\ clients \in Openings
    /\ req \in [Requests -> {Idle} \cup RegistrationRequest \cup StaffingRequest
                   \cup WorkspaceRequest \cup GalleryRequest \cup ReviewRequest]

-----------------------------------------------------------------------------
(***************************************************************************)
(* Registration.                                                           *)
(***************************************************************************)

(***************************************************************************)
(* A link opens the account it was mailed for: verifyEmail makes the       *)
(* addressee, and nobody else, the owner of the organization that the      *)
(* message named, however often the registration was repeated, resent or   *)
(* left with a message unsent.                                             *)
(***************************************************************************)
LinkOpensItsAccount ==
    [][\A q \in Requests :
          clients.turns /\ At(q, "verify", "commit") /\ ~Served(q)' /\ org' # org =>
              LET message == mail[req[q].link]
              IN  /\ user'[message.to] = OwnerRow
                  /\ org' = [org EXCEPT ![message.slug] = OrgOf(message.to, TrialPlan)]]_vars

(***************************************************************************)
(* However verifications, registrations and the entry of staff overlap or  *)
(* fail: an owner has one organization, and nobody else has any.           *)
(***************************************************************************)
OneOrganizationPerOwner ==
    \A e \in Emails :
        Cardinality({s \in Slugs : org[s] # NoRow /\ org[s].owner = e}) =
            IF user[e] # NoRow /\ user[e].role = "ORG_OWNER" THEN 1 ELSE 0

(***************************************************************************)
(* A registration that waits can be completed: register and verifyEmail    *)
(* leave none behind whose address or slug is taken.  Only an address that *)
(* a manager has meanwhile entered as staff is lost.                       *)
(***************************************************************************)
PendingCanBeVerified ==
    clients.turns =>
        \A e \in Emails :
            pending[e] # NoRow =>
                /\ org[pending[e].slug] = NoRow
                /\ user[e] = NoRow \/ staff[e] # NoRow

\* What the registrations leave in the tables: the two above.
RegistrationSound == OneOrganizationPerOwner /\ PendingCanBeVerified

-----------------------------------------------------------------------------
(***************************************************************************)
(* Staff.                                                                  *)
(***************************************************************************)

(***************************************************************************)
(* The guard goes by the role of the user, the access context by the staff *)
(* record: the two agree however updates overlap or fail.  While requests  *)
(* take turns, a role that is tied to a branch has one, through any        *)
(* sequence of updates of the role, the branch or both.                    *)
(***************************************************************************)
RolesAgree ==
    \A e \in Emails :
        staff[e] # NoRow =>
            /\ user[e] # NoRow
            /\ user[e].role = staff[e].role
            /\ clients.turns /\ staff[e].role \in BranchScoped => staff[e].branch # Null

(***************************************************************************)
(* A branch manager changes nothing outside the branch of their staff      *)
(* record: its fields, rooms, pictures and reviews.                        *)
(***************************************************************************)
ManagersStayInBranch ==
    [][\A q \in Requests :
          /\ clients.turns
          /\ Served(q) /\ "actor" \in DOMAIN req[q] /\ req'[q] # req[q]
          /\ <<estateVars, image, review>>' # <<estateVars, image, review>>
          => LET a == req[q].actor
             IN  staff[a] # NoRow /\ staff[a].role = "BRANCH_MANAGER" =>
                    staff[a].active /\ staff[a].branch = req[q].branch]_vars

-----------------------------------------------------------------------------
(***************************************************************************)
(* The plan.                                                               *)
(***************************************************************************)

(***************************************************************************)
(* What comes into being is allowed by the plan the organization has at    *)
(* that moment, not only by one it had: a branch, a room, an entry on the  *)
(* marketplace.                                                            *)
(***************************************************************************)
PlanLimitsKept ==
    [][clients.turns =>
          LET plan == org[Home].plan
              Within(count, max) == max = Unlimited \/ count <= max
              grown == LiveBranches' \ LiveBranches
          IN  /\ grown # {} => Within(Cardinality(LiveBranches'), plan.maxBranches)
              /\ \A b \in Branches :
                    ~(RoomsOf(b)' \subseteq RoomsOf(b)) =>
                        Within(Cardinality(RoomsOf(b)'), plan.maxRooms)
              /\ \A b \in LiveBranches :
                    branch'[b].listed /\ ~branch[b].listed => plan.listing]_vars

(***************************************************************************)
(* An archived branch is out of business for good: it is off the           *)
(* marketplace, inactive, and no room of it is left or comes back.         *)
(***************************************************************************)
ArchivedIsClosed ==
    clients.turns =>
        \A b \in Branches :
            branch[b] # NoRow /\ branch[b].deleted =>
                ~branch[b].active /\ ~branch[b].listed /\ RoomsOf(b) = {}

-----------------------------------------------------------------------------
(***************************************************************************)
(* Pictures.                                                               *)
(***************************************************************************)

(***************************************************************************)
(* Two stores, no transaction around both: however uploads and deletions   *)
(* overlap or die, every picture that is listed has its file.              *)
(***************************************************************************)
PicturesHaveFiles == Pictures \subseteq file

(***************************************************************************)
(* A branch or a room has one cover at most, as uploads, updates and       *)
(* deletions take turns.                                                   *)
(***************************************************************************)
OneCover ==
    clients.turns =>
        \A i, j \in Pictures :
            image[i].cover /\ image[j].cover /\ image[i].of = image[j].of => i = j

\* What the gallery leaves in the two stores: the two above.
GallerySound == PicturesHaveFiles /\ OneCover
================================================================================
