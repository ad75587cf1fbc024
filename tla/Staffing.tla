------------------------------- MODULE Staffing -------------------------------
(***************************************************************************)
(* staff.service.ts and users.service.ts: a member of the staff is a user  *)
(* and a row of staff, entered and changed in one transaction that begins  *)
(* with the user's row and so keeps other transactions off both.           *)
(***************************************************************************)
EXTENDS Access

BranchScoped == {"BRANCH_MANAGER", "RECEPTIONIST", "HOUSEKEEPER"}

\* ensureValidBranchAssignment.
ValidAssignment(role, b) ==
    /\ role \in BranchScoped => b # Null
    /\ b # Null => b \in LiveBranches

StaffCreateRead(q) ==
    \E a \in Emails, e \in clients.people, role \in StaffRole, b \in Branches \cup {Null} :
        /\ MayCreateStaff(a)
        /\ ValidAssignment(role, b)
        /\ user[e] = NoRow
        /\ Begin(q, [op |-> "hire", pc |-> "insert", email |-> e, role |-> role, branch |-> b])
        /\ UNCHANGED <<accountVars, staff, estateVars, pictureVars, review>>

\* The address has been looked up before the hashing; the column is unique.
StaffCreateInsert(q) ==
    /\ At(q, "hire", "insert")
    /\ LET e == req[q].email
       IN  IF user[e] = NoRow
           THEN /\ user' = [user EXCEPT ![e] = [role |-> req[q].role, active |-> TRUE,
                                                verified |-> FALSE, link |-> Null]]
                /\ staff' = [staff EXCEPT ![e] = [role |-> req[q].role, active |-> TRUE,
                                                  branch |-> req[q].branch]]
           ELSE UNCHANGED <<user, staff>>
    /\ Answer(q)
    /\ UNCHANGED <<pending, org, mail, estateVars, pictureVars, review>>

-----------------------------------------------------------------------------
\* The value after an update whose dto has v for a column that holds old.
Merge(v, old) == IF v = Unsent THEN old ELSE v

\* A faulty update that checks the branch only when the dto names one.
StaffUpdateReadDtoOnly(q) ==
    \E a, e \in Emails, role \in StaffRole \cup {Unsent},
       b \in Branches \cup {Null, Unsent}, active \in BOOLEAN \cup {Unsent} :
        /\ MayUpdateStaff(a)
        /\ staff[e] # NoRow
        /\ b # Unsent => ValidAssignment(Merge(role, staff[e].role), b)
        /\ Begin(q, [op |-> "staff", pc |-> "write", email |-> e,
                     role |-> role, branch |-> b, active |-> active])
        /\ UNCHANGED <<accountVars, staff, estateVars, pictureVars, review>>

\* update: the role and the branch that result are judged by the row as it is now.
StaffUpdateRead(q) ==
    \E a, e \in Emails, role \in StaffRole \cup {Unsent},
       b \in Branches \cup {Null, Unsent}, active \in BOOLEAN \cup {Unsent} :
        /\ MayUpdateStaff(a)
        /\ staff[e] # NoRow
        /\ ValidAssignment(Merge(role, staff[e].role), Merge(b, staff[e].branch))
        /\ Begin(q, [op |-> "staff", pc |-> "write", email |-> e,
                     role |-> role, branch |-> b, active |-> active])
        /\ UNCHANGED <<accountVars, staff, estateVars, pictureVars, review>>

\* A faulty update that writes what the dto does not have.
StaffUpdateWriteUnsent(q) ==
    /\ At(q, "staff", "write")
    /\ LET e == req[q].email
           dto == req[q]
       IN  /\ user' = [user EXCEPT ![e].active = Merge(dto.active, @)]
           /\ staff' = [staff EXCEPT ![e] = [role   |-> dto.role,
                                             branch |-> Merge(dto.branch, @.branch),
                                             active |-> Merge(dto.active, @.active)]]
    /\ Answer(q)
    /\ UNCHANGED <<pending, org, mail, estateVars, pictureVars, review>>

StaffUpdateWrite(q) ==
    /\ At(q, "staff", "write")
    /\ LET e == req[q].email
           dto == req[q]
       IN  /\ user' = [user EXCEPT ![e].role = Merge(dto.role, @),
                                   ![e].active = Merge(dto.active, @)]
           /\ staff' = [staff EXCEPT ![e] = [role   |-> Merge(dto.role, @.role),
                                             branch |-> Merge(dto.branch, @.branch),
                                             active |-> Merge(dto.active, @.active)]]
    /\ Answer(q)
    /\ UNCHANGED <<pending, org, mail, estateVars, pictureVars, review>>

-----------------------------------------------------------------------------
\* staff toggleActive decides on nothing it reads but the existence of the row.
StaffToggle(a, e, active) ==
    /\ AtOnce("staff")
    /\ MayToggleStaff(a)
    /\ staff[e] # NoRow
    /\ user' = [user EXCEPT ![e].active = active]
    /\ staff' = [staff EXCEPT ![e].active = active]
    /\ UNCHANGED <<pending, org, mail, estateVars, pictureVars, review>>

\* users toggleActive, by the administrator of the platform, leaves the staff row alone.
UserToggle(e, active) ==
    /\ AtOnce("staff")
    /\ user[e] # NoRow
    /\ user' = [user EXCEPT ![e].active = active]
    /\ UNCHANGED <<pending, org, mail, staff, estateVars, pictureVars, review>>

StaffingStart(q) == StaffCreateRead(q) \/ StaffUpdateRead(q)

StaffingStep(q) == StaffCreateInsert(q) \/ StaffUpdateWrite(q)

Toggles ==
    \/ \E a, e \in Emails, active \in BOOLEAN : StaffToggle(a, e, active)
    \/ \E e \in Emails, active \in BOOLEAN : UserToggle(e, active)

StaffingRequest ==
    [op: {"hire"}, pc: {"insert"}, email: Emails, role: StaffRole,
     branch: Branches \cup {Null}]
    \cup [op: {"staff"}, pc: {"write"}, email: Emails, role: StaffRole \cup {Unsent},
          branch: Branches \cup {Null, Unsent}, active: BOOLEAN \cup {Unsent}]
==============================================================================
