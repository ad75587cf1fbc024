-------------------------------- MODULE Access --------------------------------
(***************************************************************************)
(* Who may do what: the JWT strategy and the roles guard in front of every *)
(* endpoint, the access context behind it, and the roles that the          *)
(* controllers ask for.                                                    *)
(*                                                                         *)
(* The checks are awaited calls of their own, all of them before the       *)
(* method reads what it decides on.  They are one step with that reading:  *)
(* a check that was passed earlier lets the request through just as one    *)
(* that is passed now and outdated before the write.                       *)
(***************************************************************************)
EXTENDS TenantDb

\* Of a staff member only the active row counts, of an owner the organization owned.
OrganizationOf(e) ==
    IF staff[e] # NoRow /\ staff[e].active THEN {Home}
    ELSE {s \in Slugs : org[s] # NoRow /\ org[s].owner = e}

\* JwtAccessStrategy.validate: an active user in an accessible workspace.
Admitted(e) ==
    /\ user[e] # NoRow
    /\ user[e].active
    /\ \E s \in OrganizationOf(e) : org[s].open

\* Admitted to Home with one of the roles.
MayCall(e, roles) ==
    /\ Admitted(e)
    /\ Home \in OrganizationOf(e)
    /\ user[e].role \in roles

\* A faulty check that takes any branch manager of the organization.
InAnyBranch(e, b) ==
    user[e].role = "BRANCH_MANAGER" =>
        /\ staff[e] # NoRow
        /\ staff[e].active
        /\ staff[e].role = "BRANCH_MANAGER"

(***************************************************************************)
(* ensureBranchManagerAccessToBranch: the role that the guard has read     *)
(* from the user decides whether the staff row is looked at.               *)
(***************************************************************************)
InScope(e, b) ==
    user[e].role = "BRANCH_MANAGER" =>
        /\ staff[e] # NoRow
        /\ staff[e].active
        /\ staff[e].role = "BRANCH_MANAGER"
        /\ staff[e].branch = b

-----------------------------------------------------------------------------
(***************************************************************************)
(* The handlers of the controllers.  Each stands behind both guards, looks *)
(* up the organization of the caller and hands over to the service; what   *)
(* they differ in are the roles that they admit.                           *)
(***************************************************************************)
Managers   == {"ORG_OWNER", "ORG_MANAGER"}
AnyManager == {"ORG_OWNER", "ORG_MANAGER", "BRANCH_MANAGER"}

MayUpgrade(a)       == MayCall(a, {"ORG_OWNER"})
MayCreateBranch(a)  == MayCall(a, Managers)
MayUpdateBranch(a)  == MayCall(a, AnyManager)
MayListBranch(a)    == MayCall(a, {"ORG_OWNER"})
MayRemoveBranch(a)  == MayCall(a, {"ORG_OWNER"})
MayCreateRoom(a)    == MayCall(a, AnyManager)
MayRemoveRoom(a)    == MayCall(a, Managers)
MayCreateStaff(a)   == MayCall(a, Managers)
MayUpdateStaff(a)   == MayCall(a, Managers)
MayToggleStaff(a)   == MayCall(a, Managers)
MayReply(a)         == MayCall(a, AnyManager)
MayPublish(a)       == MayCall(a, {"ORG_OWNER", "BRANCH_MANAGER"})
MayUploadForBranch(a) == MayCall(a, AnyManager)
MayUploadForRoom(a)   == MayCall(a, AnyManager)
MayUpdateImage(a)     == MayCall(a, AnyManager)
MayDeleteImage(a)     == MayCall(a, AnyManager)
=====
