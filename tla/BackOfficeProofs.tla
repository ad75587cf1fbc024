--------------------------- MODULE BackOfficeProofs ---------------------------
(***************************************************************************)
(* What holds in the back office however requests overlap or fail: the     *)
(* tables keep their types, rows that a request still writes are there,    *)
(* roles agree, owners have one organization, pictures have files.         *)
(***************************************************************************)
EXTENDS BackOffice, FiniteSetTheorems, TLAPS

RequestRow ==
    RegistrationRequest \cup StaffingRequest \cup WorkspaceRequest
        \cup GalleryRequest \cup ReviewRequest

Stores ==
    /\ pending \in [Emails -> PendingRow \cup {NoRow}]
    /\ user \in [Emails -> UserRow \cup {NoRow}]
    /\ org \in [Slugs -> OrgRow \cup {NoRow}]
    /\ mail \in [Links -> [to: Emails, slug: Slugs \cup {Null}] \cup {NoRow}]
    /\ staff \in [Emails -> StaffRow \cup {NoRow}]
    /\ branch \in [Branches -> BranchRow \cup {NoRow}]
    /\ room \in [Rooms -> RoomRow \cup {NoRow}]
    /\ image \in [Images -> ImageRow \cup {NoRow, Gone}]
    /\ file \subseteq Images
    /\ review \in [Reviews -> ReviewRow \cup {NoRow}]
    /\ clients \in Openings

\* The row that request r is going to write by id is there.
RowFor(r) ==
    r # Idle =>
        /\ r.pc = "user" => user[r.email] # NoRow
        /\ r.op = "staff" => staff[r.email] # NoRow
        /\ r.op \in {"edit", "list", "archive"} => branch[r.branch] # NoRow
        /\ r.op \in {"reply", "publish"} => review[r.review] # NoRow

RowsThere ==
    /\ org[Home] # NoRow
    /\ \A e \in Emails : staff[e] # NoRow => user[e] # NoRow
    /\ \A q \in Requests : RowFor(req[q])

TypeInv == TypeOK /\ RowsThere

\* Rows of these tables are never deleted.
RowsStay ==
    /\ org[Home] # NoRow => org'[Home] # NoRow
    /\ \A e \in Emails : user[e] # NoRow => user'[e] # NoRow
    /\ \A e \in Emails : staff[e] # NoRow => staff'[e] # NoRow
    /\ \A b \in Branches : branch[b] # NoRow => branch'[b] # NoRow
    /\ \A v \in Reviews : review[v] # NoRow => review'[v] # NoRow

LEMMA Parts == TypeOK <=> Stores /\ req \in [Requests -> RequestRow \cup {Idle}]
  BY DEF TypeOK, Stores, RequestRow

\* No row is mistaken for the absence of one.
LEMMA RowKinds ==
    /\ NoRow \notin PendingRow /\ NoRow \notin UserRow /\ NoRow \notin OrgRow
    /\ NoRow \notin StaffRow /\ NoRow \notin BranchRow /\ NoRow \notin RoomRow
    /\ NoRow \notin ImageRow /\ Gone \notin ImageRow /\ NoRow \notin ReviewRow
    /\ NoRow \notin [to: Emails, slug: Slugs \cup {Null}]
    /\ NoRow # Gone
  BY DEF NoRow, Gone, PendingRow, UserRow, OrgRow, StaffRow, BranchRow, RoomRow,
     ImageRow, ReviewRow

\* What request r looks like, by where it stands.
LEMMA Requested ==
    ASSUME NEW r \in RequestRow
    PROVE  /\ r # Idle
           /\ r.op = "register" /\ r.pc = "pending" =>
                r.email \in Emails /\ r.slug \in Slugs
           /\ r.op = "register" /\ r.pc = "write" =>
                r.email \in Emails /\ r.slug \in Slugs /\ r.id \in Links \cup {Null}
           /\ r.op = "resend" /\ r.pc = "pending" =>
                r.email \in Emails /\ r.slug \in Slugs /\ r.id \in Links
           /\ r.pc = "user" => r.email \in Emails /\ r.op \in {"resend", "verify"}
           /\ r.op = "verify" /\ r.pc = "commit" =>
                r.email \in Emails /\ r.slug \in Slugs /\ r.link \in Links /\ r.id \in Links
           /\ r.pc = "mail" =>
                r.email \in Emails /\ r.slug \in Slugs \cup {Null} /\ r.link \in Links
           /\ r.op = "hire" =>
                r.email \in Emails /\ r.role \in StaffRole /\ r.branch \in Branches \cup {Null}
           /\ r.op = "staff" =>
                /\ r.email \in Emails
                /\ r.role \in StaffRole \cup {Unsent}
                /\ r.branch \in Branches \cup {Null, Unsent}
                /\ r.active \in BOOLEAN \cup {Unsent}
           /\ r.op = "branch" /\ r.pc = "count" => r.max \in Int
           /\ r.op = "edit" =>
                r.actor \in Emails /\ r.branch \in Branches /\ r.active \in BOOLEAN
           /\ r.op = "list" => r.branch \in Branches /\ r.listed \in BOOLEAN
           /\ r.op = "archive" => r.branch \in Branches
           /\ r.op = "room" => r.actor \in Emails /\ r.branch \in Branches
           /\ r.op = "room" /\ r.pc = "count" => r.max \in Int
           /\ r.op \in {"upload", "cover"} =>
                /\ r.actor \in Emails /\ r.of \in Branches \cup Rooms
                /\ r.branch \in Branches /\ r.cover \in BOOLEAN
           /\ r.op \in {"upload", "cover"} /\ r.pc \in {"covers", "insert"} =>
                r.image \in Images /\ r.hits \in SUBSET Images
           /\ r.op = "delete" => r.actor \in Emails /\ r.branch \in Branches /\ r.image \in Images
           /\ r.op \in {"reply", "publish"} =>
                r.actor \in Emails /\ r.review \in Reviews /\ r.branch \in Branches
           /\ r.op = "reply" => r.by \in Emails \cup {Null}
           /\ r.op = "publish" => r.published \in BOOLEAN
  BY DEF RequestRow, RegistrationRequest, StaffingRequest, WorkspaceRequest,
     GalleryRequest, ReviewRequest, DrawsLink, Idle

-----------------------------------------------------------------------------
(***************************************************************************)
(* Types.                                                                  *)
(***************************************************************************)
LEMMA TypeInit == Init => TypeInv
<1> SUFFICES ASSUME Init PROVE TypeInv
  OBVIOUS
<1>1. clients.plan \in Plans
  BY OpeningAssumption DEF Init
<1>2. OwnerRow \in UserRow /\ OrgOf(Owner, clients.plan) \in OrgRow
  BY <1>1, HomeAssumption DEF OwnerRow, UserRow, UserRole, OrgOf, OrgRow
<1>3. Stores
  BY <1>2 DEF Init, Stores
<1>4. RowsThere
  BY <1>2, RowKinds, HomeAssumption DEF Init, RowsThere, RowFor
<1>5. QED
  BY <1>3, <1>4, Parts DEF Init, TypeInv

\* A step of request q, taken apart: what it does to the tables and to req[q].
LEMMA Assemble ==
    ASSUME TypeInv, Stores', RowsStay, NEW q \in Requests,
           NEW r \in RequestRow \cup {Idle}, RowFor(r),
           req' = [req EXCEPT ![q] = r],
           \A e \in Emails : staff'[e] # NoRow => user'[e] # NoRow
    PROVE  TypeInv'
<1>1. req' \in [Requests -> RequestRow \cup {Idle}]
  BY Parts DEF TypeInv
<1>2. ASSUME NEW p \in Requests PROVE RowFor(req[p])'
  <2>1. CASE p = q
    BY <2>1, Parts, Requested DEF TypeInv, RowFor, RowsStay
  <2>2. CASE p # q
    <3>1. req'[p] = req[p] /\ RowFor(req[p]) /\ req[p] \in RequestRow \cup {Idle}
      BY <2>2, Parts DEF TypeInv, RowsThere
    <3>2. QED
      BY <3>1, Requested DEF RowFor, RowsStay
  <2>3. QED
    BY <2>1, <2>2
<1>3. RowsThere'
  BY <1>2 DEF TypeInv, RowsThere, RowsStay
<1>4. QED
  BY <1>1, <1>3 DEF TypeInv, TypeOK, Stores, RequestRow

\* The same for a step that leaves the requests as they are.
LEMMA AssembleAtOnce ==
    ASSUME TypeInv, Stores', RowsStay, UNCHANGED req,
           \A e \in Emails : staff'[e] # NoRow => user'[e] # NoRow
    PROVE  TypeInv'
<1>1. ASSUME NEW p \in Requests PROVE RowFor(req[p])'
  <2>1. RowFor(req[p]) /\ req[p] \in RequestRow \cup {Idle}
    BY Parts DEF TypeInv, RowsThere
  <2>2. QED
    BY <2>1, Requested DEF RowFor, RowsStay
<1>2. RowsThere'
  BY <1>1 DEF TypeInv, RowsThere, RowsStay
<1>3. (req \in [Requests -> RequestRow \cup {Idle}])'
  BY Parts DEF TypeInv
<1>4. QED
  BY <1>2, <1>3 DEF TypeInv, TypeOK, Stores, RequestRow

\* A step that changes no table and leaves request q at r.
LEMMA Reads ==
    ASSUME TypeInv, NEW q \in Requests, NEW r \in RequestRow \cup {Idle}, RowFor(r),
           req' = [req EXCEPT ![q] = r],
           UNCHANGED <<accountVars, staff, estateVars, pictureVars, review, clients>>
    PROVE  TypeInv'
<1>1. Stores' /\ RowsStay
  BY Parts DEF TypeInv, Stores, RowsStay, accountVars, estateVars, pictureVars
<1>2. \A e \in Emails : staff'[e] # NoRow => user'[e] # NoRow
  BY DEF TypeInv, RowsThere, accountVars
<1>3. QED
  BY <1>1, <1>2, Assemble

LEMMA RegistrationStartTypes ==
    ASSUME TypeInv, NEW q \in Requests, RegistrationStart(q)
    PROVE  TypeInv'
<1> USE DEF accountVars, estateVars, pictureVars
<1>1. CASE RegisterLook(q)
  <2>1. PICK e \in clients.people, s \in Slugs :
          /\ Begin(q, [op |-> "register", pc |-> "pending", email |-> e, slug |-> s])
          /\ UNCHANGED <<accountVars, staff, estateVars, pictureVars, review>>
    BY <1>1 DEF RegisterLook
  <2> DEFINE r == [op |-> "register", pc |-> "pending", email |-> e, slug |-> s]
  <2>2. e \in Emails
    BY OpeningAssumption, Parts DEF TypeInv, Stores
  <2>3. r \in RequestRow /\ RowFor(r)
    BY <2>2 DEF RequestRow, RegistrationRequest, RowFor
  <2>4. QED
    BY <2>1, <2>3, Reads DEF Begin
<1>2. CASE ResendRead(q)
  <2>1. PICK e \in Emails :
          /\ \/ /\ pending[e] # NoRow
                /\ Begin(q, [op |-> "resend", pc |-> "pending", email |-> e,
                             slug |-> pending[e].slug, id |-> pending[e].id])
             \/ /\ user[e] # NoRow
                /\ Begin(q, [op |-> "resend", pc |-> "user", email |-> e])
          /\ UNCHANGED <<accountVars, staff, estateVars, pictureVars, review>>
    BY <1>2 DEF ResendRead
  <2>2. CASE pending[e] # NoRow /\ Begin(q, [op |-> "resend", pc |-> "pending", email |-> e,
                             slug |-> pending[e].slug, id |-> pending[e].id])
    <3> DEFINE r == [op |-> "resend", pc |-> "pending", email |-> e,
                     slug |-> pending[e].slug, id |-> pending[e].id]
    <3>1. pending[e] \in PendingRow
      BY <2>2, Parts DEF TypeInv, Stores
    <3>2. r \in RequestRow /\ RowFor(r)
      BY <3>1 DEF RequestRow, RegistrationRequest, RowFor, PendingRow
    <3>3. QED
      BY <2>1, <2>2, <3>2, Reads DEF Begin
  <2>3. CASE user[e] # NoRow /\ Begin(q, [op |-> "resend", pc |-> "user", email |-> e])
    <3> DEFINE r == [op |-> "resend", pc |-> "user", email |-> e]
    <3>1. r \in RequestRow /\ RowFor(r)
      BY <2>3 DEF RequestRow, RegistrationRequest, RowFor
    <3>2. QED
      BY <2>1, <2>3, <3>1, Reads DEF Begin
  <2>4. QED
    BY <2>1, <2>2, <2>3
<1>3. CASE VerifyRead(q)
  <2>1. PICK l \in Links, e \in Emails :
          /\ \/ /\ pending[e] # NoRow
                /\ Begin(q, [op |-> "verify", pc |-> "commit", email |-> e, link |-> l,
                             slug |-> pending[e].slug, id |-> pending[e].id])
             \/ /\ user[e] # NoRow
                /\ Begin(q, [op |-> "verify", pc |-> "user", email |-> e])
          /\ UNCHANGED <<accountVars, staff, estateVars, pictureVars, review>>
    BY <1>3 DEF VerifyRead
  <2>2. CASE pending[e] # NoRow /\ Begin(q, [op |-> "verify", pc |-> "commit", email |-> e,
                             link |-> l, slug |-> pending[e].slug, id |-> pending[e].id])
    <3> DEFINE r == [op |-> "verify", pc |-> "commit", email |-> e, link |-> l,
                     slug |-> pending[e].slug, id |-> pending[e].id]
    <3>1. pending[e] \in PendingRow
      BY <2>2, Parts DEF TypeInv, Stores
    <3>2. r \in RequestRow /\ RowFor(r)
      BY <3>1 DEF RequestRow, RegistrationRequest, RowFor, PendingRow
    <3>3. QED
      BY <2>1, <2>2, <3>2, Reads DEF Begin
  <2>3. CASE user[e] # NoRow /\ Begin(q, [op |-> "verify", pc |-> "user", email |-> e])
    <3> DEFINE r == [op |-> "verify", pc |-> "user", email |-> e]
    <3>1. r \in RequestRow /\ RowFor(r)
      BY <2>3 DEF RequestRow, RegistrationRequest, RowFor
    <3>2. QED
      BY <2>1, <2>3, <3>1, Reads DEF Begin
  <2>4. QED
    BY <2>1, <2>2, <2>3
<1>4. QED
  BY <1>1, <1>2, <1>3 DEF RegistrationStart

\* What At(q, op, pc) says of the request.
LEMMA AtRequest ==
    ASSUME TypeInv, NEW q \in Requests, Served(q)
    PROVE  req[q] \in RequestRow /\ RowFor(req[q])
  BY Parts DEF TypeInv, RowsThere, Served

LEMMA IdleFits == Idle \in RequestRow \cup {Idle} /\ RowFor(Idle)
  BY DEF RowFor

LEMMA RegistrationStepTypes ==
    ASSUME TypeInv, NEW q \in Requests, RegistrationStep(q)
    PROVE  TypeInv'
<1> USE DEF accountVars, estateVars, pictureVars, Continue, Answer
<1> DEFINE e == req[q].email
<1>0. /\ Served(q) => req[q] \in RequestRow
      /\ Stores
      /\ NoRow \notin UserRow /\ NoRow \notin OrgRow
  BY Parts, AtRequest, RowKinds DEF TypeInv
<1>1. CASE RegisterPending(q)
  <2>1. e \in Emails /\ req[q].slug \in Slugs
    BY <1>0, <1>1, Requested DEF RegisterPending, At
  <2> DEFINE r == [op |-> "register", pc |-> "write", email |-> e, slug |-> req[q].slug,
                   id |-> IF pending[e] = NoRow THEN Null ELSE pending[e].id]
  <2>2. pending[e] # NoRow => pending[e].id \in Links
    BY <1>0, <2>1 DEF Stores, PendingRow
  <2>3. r \in RequestRow /\ RowFor(r)
    BY <2>1, <2>2 DEF RequestRow, RegistrationRequest, RowFor
  <2>4. /\ req' = [req EXCEPT ![q] = Idle] \/ req' = [req EXCEPT ![q] = r]
        /\ UNCHANGED <<accountVars, staff, estateVars, pictureVars, review, clients>>
    BY <1>1 DEF RegisterPending
  <2>5. QED
    BY <2>3, <2>4, IdleFits, Reads
<1>2. CASE RegisterWrite(q)
  <2>1. /\ e \in Emails /\ req[q].slug \in Slugs
        /\ req[q].id \in Links \cup {Null}
    BY <1>0, <1>2, Requested DEF RegisterWrite, At
  <2>2. CASE UNCHANGED pending /\ Answer(q)
    BY <1>2, <2>2, IdleFits, Reads DEF RegisterWrite
  <2>3. CASE ~(UNCHANGED pending /\ Answer(q))
    <3> DEFINE inserts == req[q].id = Null /\ pending[e] = NoRow
               updates == req[q].id # Null /\ pending[e] # NoRow /\ pending[e].id = req[q].id
    <3>1. PICK l \in FreshLinks :
            /\ inserts \/ updates
            /\ pending' = [pending EXCEPT ![e] = [id |-> IF inserts THEN l ELSE req[q].id,
                                                  slug |-> req[q].slug, link |-> l]]
            /\ Continue(q, [op |-> "register", pc |-> "mail", email |-> e,
                            slug |-> req[q].slug, link |-> l])
      BY <1>2, <2>3 DEF RegisterWrite
    <3> DEFINE r == [op |-> "register", pc |-> "mail", email |-> e,
                     slug |-> req[q].slug, link |-> l]
    <3>2. l \in Links
      BY <3>1 DEF FreshLinks
    <3>3. r \in RequestRow
      BY <2>1, <3>2 DEF RequestRow, RegistrationRequest, DrawsLink
    <3>4. [id |-> IF inserts THEN l ELSE req[q].id, slug |-> req[q].slug, link |-> l]
            \in PendingRow
      BY <2>1, <3>1, <3>2 DEF PendingRow
    <3>5. Stores'
      BY <1>0, <1>2, <2>1, <3>1, <3>4 DEF Stores, RegisterWrite
    <3>6. RowsStay /\ \A x \in Emails : staff'[x] # NoRow => user'[x] # NoRow
      BY <1>2 DEF RegisterWrite, RowsStay, TypeInv, RowsThere
    <3>7. RowFor(r)
      BY DEF RowFor
    <3>8. QED
      BY <3>1, <3>3, <3>5, <3>6, <3>7, Assemble
  <2>4. QED
    BY <2>2, <2>3
<1>3. CASE SendMail(q)
  <2>1. e \in Emails /\ req[q].slug \in Slugs \cup {Null} /\ req[q].link \in Links
    BY <1>0, <1>3, Requested DEF SendMail
  <2>2. Stores'
    BY <1>0, <1>3, <2>1 DEF Stores, SendMail
  <2>3. RowsStay /\ \A x \in Emails : staff'[x] # NoRow => user'[x] # NoRow
    BY <1>3 DEF SendMail, RowsStay, TypeInv, RowsThere
  <2>4. RowFor(Idle)
    BY DEF RowFor
  <2>5. QED
    BY <1>3, <2>2, <2>3, <2>4, Assemble DEF SendMail
<1>4. CASE ResendPending(q)
  <2>1. e \in Emails /\ req[q].slug \in Slugs
    BY <1>0, <1>4, Requested DEF ResendPending, At
  <2>2. CASE UNCHANGED pending /\ Answer(q)
    BY <1>4, <2>2, IdleFits, Reads DEF ResendPending
  <2>3. CASE ~(UNCHANGED pending /\ Answer(q))
    <3>1. PICK l \in FreshLinks :
            /\ pending[e] # NoRow
            /\ pending' = [pending EXCEPT ![e].link = l]
            /\ Continue(q, [op |-> "resend", pc |-> "mail", email |-> e,
                            slug |-> req[q].slug, link |-> l])
      BY <1>4, <2>3 DEF ResendPending
    <3> DEFINE r == [op |-> "resend", pc |-> "mail", email |-> e,
                     slug |-> req[q].slug, link |-> l]
    <3>2. l \in Links
      BY <3>1 DEF FreshLinks
    <3>3. r \in RequestRow
      BY <2>1, <3>2 DEF RequestRow, RegistrationRequest, DrawsLink
    <3>4. [pending[e] EXCEPT !.link = l] \in PendingRow
      BY <1>0, <2>1, <3>1, <3>2 DEF Stores, PendingRow
    <3>5. Stores'
      BY <1>0, <1>4, <2>1, <3>1, <3>4 DEF Stores, ResendPending
    <3>6. RowsStay /\ \A x \in Emails : staff'[x] # NoRow => user'[x] # NoRow
      BY <1>4 DEF ResendPending, RowsStay, TypeInv, RowsThere
    <3>7. RowFor(r)
      BY DEF RowFor
    <3>8. QED
      BY <3>1, <3>3, <3>5, <3>6, <3>7, Assemble
  <2>4. QED
    BY <2>2, <2>3
<1>5. CASE ResendUser(q)
  <2>1. e \in Emails /\ user[e] # NoRow /\ user[e] \in UserRow
    BY <1>0, <1>5, Requested, AtRequest DEF ResendUser, At, RowFor, Stores
  <2>2. PICK l \in FreshLinks :
          /\ user' = [user EXCEPT ![e].link = l]
          /\ Continue(q, [op |-> "resend", pc |-> "mail", email |-> e, slug |-> Null, link |-> l])
    BY <1>5 DEF ResendUser
  <2> DEFINE r == [op |-> "resend", pc |-> "mail", email |-> e, slug |-> Null, link |-> l]
  <2>3. l \in Links
    BY <2>2 DEF FreshLinks
  <2>4. r \in RequestRow
    BY <2>1, <2>3 DEF RequestRow, RegistrationRequest, DrawsLink
  <2>5. [user[e] EXCEPT !.link = l] \in UserRow
    BY <2>1, <2>3 DEF UserRow
  <2>6. Stores'
    BY <1>0, <1>5, <2>1, <2>2, <2>5 DEF Stores, ResendUser
  <2>7. RowsStay /\ \A x \in Emails : staff'[x] # NoRow => user'[x] # NoRow
    BY <1>0, <1>5, <2>1, <2>2, <2>5 DEF ResendUser, RowsStay, TypeInv, RowsThere, Stores
  <2>8. RowFor(r)
    BY DEF RowFor
  <2>9. QED
    BY <2>2, <2>4, <2>6, <2>7, <2>8, Assemble
<1>6. CASE VerifyCommit(q)
  <2>1. e \in Emails /\ req[q].slug \in Slugs
    BY <1>0, <1>6, Requested DEF VerifyCommit, At
  <2>2. OwnerRow \in UserRow /\ OrgOf(e, TrialPlan) \in OrgRow
    BY <2>1, PlanAssumption DEF OwnerRow, UserRow, UserRole, OrgOf, OrgRow
  <2>3. Stores'
    BY <1>0, <1>6, <2>1, <2>2 DEF Stores, VerifyCommit
  <2>4. RowsStay /\ \A x \in Emails : staff'[x] # NoRow => user'[x] # NoRow
    BY <1>0, <1>6, <2>1, <2>2, HomeAssumption
       DEF VerifyCommit, RowsStay, TypeInv, RowsThere, Stores
  <2>5. RowFor(Idle)
    BY DEF RowFor
  <2>6. QED
    BY <1>6, <2>3, <2>4, <2>5, Assemble DEF VerifyCommit
<1>7. CASE VerifyUser(q)
  <2>1. e \in Emails /\ user[e] # NoRow /\ user[e] \in UserRow
    BY <1>0, <1>7, Requested, AtRequest DEF VerifyUser, At, RowFor, Stores
  <2>2. [user[e] EXCEPT !.verified = TRUE, !.link = Null] \in UserRow
    BY <2>1 DEF UserRow
  <2>3. Stores'
    BY <1>0, <1>7, <2>1, <2>2 DEF Stores, VerifyUser
  <2>4. RowsStay /\ \A x \in Emails : staff'[x] # NoRow => user'[x] # NoRow
    BY <1>0, <1>7, <2>1, <2>2 DEF VerifyUser, RowsStay, TypeInv, RowsThere, Stores
  <2>5. RowFor(Idle)
    BY DEF RowFor
  <2>6. QED
    BY <1>7, <2>3, <2>4, <2>5, Assemble DEF VerifyUser
<1>8. QED
  BY <1>1, <1>2, <1>3, <1>4, <1>5, <1>6, <1>7 DEF RegistrationStep

LEMMA StaffingTypes ==
    ASSUME TypeInv, NEW q \in Requests, StaffingStart(q) \/ StaffingStep(q)
    PROVE  TypeInv'
<1> USE DEF accountVars, estateVars, pictureVars, Continue, Answer
<1>0. /\ Served(q) => req[q] \in RequestRow
      /\ Stores
      /\ NoRow \notin UserRow /\ NoRow \notin StaffRow
  BY Parts, AtRequest, RowKinds DEF TypeInv
<1>1. CASE StaffCreateRead(q)
  <2>1. PICK e \in clients.people, role \in StaffRole, b \in Branches \cup {Null} :
          /\ Begin(q, [op |-> "hire", pc |-> "insert", email |-> e, role |-> role, branch |-> b])
          /\ UNCHANGED <<accountVars, staff, estateVars, pictureVars, review>>
    BY <1>1 DEF StaffCreateRead
  <2> DEFINE r == [op |-> "hire", pc |-> "insert", email |-> e, role |-> role, branch |-> b]
  <2>2. e \in Emails
    BY <1>0, OpeningAssumption DEF Stores
  <2>3. r \in RequestRow /\ RowFor(r)
    BY <2>2 DEF RequestRow, StaffingRequest, RowFor
  <2>4. QED
    BY <2>1, <2>3, Reads DEF Begin
<1>2. CASE StaffCreateInsert(q)
  <2> DEFINE e == req[q].email
             account == [role |-> req[q].role, active |-> TRUE, verified |-> FALSE, link |-> Null]
             member == [role |-> req[q].role, active |-> TRUE, branch |-> req[q].branch]
  <2>1. e \in Emails /\ account \in UserRow /\ member \in StaffRow
    BY <1>0, <1>2, Requested DEF StaffCreateInsert, At, UserRow, UserRole, StaffRow
  <2>2. Stores'
    BY <1>0, <1>2, <2>1 DEF Stores, StaffCreateInsert
  <2>3. RowsStay /\ \A x \in Emails : staff'[x] # NoRow => user'[x] # NoRow
    BY <1>0, <1>2, <2>1 DEF Stores, StaffCreateInsert, RowsStay, TypeInv, RowsThere
  <2>4. QED
    BY <1>2, <2>2, <2>3, IdleFits, Assemble DEF StaffCreateInsert
<1>3. CASE StaffUpdateRead(q)
  <2>1. PICK e \in Emails, role \in StaffRole \cup {Unsent},
             b \in Branches \cup {Null, Unsent}, active \in BOOLEAN \cup {Unsent} :
          /\ staff[e] # NoRow
          /\ Begin(q, [op |-> "staff", pc |-> "write", email |-> e,
                       role |-> role, branch |-> b, active |-> active])
          /\ UNCHANGED <<accountVars, staff, estateVars, pictureVars, review>>
    BY <1>3 DEF StaffUpdateRead
  <2> DEFINE r == [op |-> "staff", pc |-> "write", email |-> e,
                   role |-> role, branch |-> b, active |-> active]
  <2>2. r \in RequestRow /\ RowFor(r)
    BY <2>1 DEF RequestRow, StaffingRequest, RowFor
  <2>3. QED
    BY <2>1, <2>2, Reads DEF Begin
<1>4. CASE StaffUpdateWrite(q)
  <2> DEFINE e == req[q].email
             dto == req[q]
             account == [user[e] EXCEPT !.role = Merge(dto.role, @),
                                        !.active = Merge(dto.active, @)]
             member == [role   |-> Merge(dto.role, staff[e].role),
                        branch |-> Merge(dto.branch, staff[e].branch),
                        active |-> Merge(dto.active, staff[e].active)]
  <2>1. /\ e \in Emails
        /\ dto.role \in StaffRole \cup {Unsent}
        /\ dto.branch \in Branches \cup {Null, Unsent}
        /\ dto.active \in BOOLEAN \cup {Unsent}
    BY <1>0, <1>4, Requested DEF StaffUpdateWrite, At
  <2>2. staff[e] # NoRow /\ user[e] # NoRow
    BY <1>4, <2>1, AtRequest, Requested, <1>0
       DEF StaffUpdateWrite, At, RowFor, TypeInv, RowsThere
  <2>3. staff[e] \in StaffRow /\ user[e] \in UserRow
    BY <1>0, <2>1, <2>2 DEF Stores
  <2>4. member \in StaffRow
    BY <2>1, <2>3 DEF StaffRow, Merge
  <2>5. account \in UserRow
    BY <2>1, <2>3 DEF UserRow, UserRole, Merge
  <2>6. Stores'
    BY <1>0, <1>4, <2>1, <2>4, <2>5 DEF Stores, StaffUpdateWrite
  <2>7. RowsStay /\ \A x \in Emails : staff'[x] # NoRow => user'[x] # NoRow
    BY <1>0, <1>4, <2>1, <2>4, <2>5 DEF Stores, StaffUpdateWrite, RowsStay, TypeInv, RowsThere
  <2>8. QED
    BY <1>4, <2>6, <2>7, IdleFits, Assemble DEF StaffUpdateWrite
<1>5. QED
  BY <1>1, <1>2, <1>3, <1>4 DEF StaffingStart, StaffingStep

LEMMA TogglesTypes ==
    ASSUME TypeInv, Toggles
    PROVE  TypeInv'
<1> USE DEF accountVars, estateVars, pictureVars
<1>0. Stores /\ NoRow \notin UserRow /\ NoRow \notin StaffRow
  BY Parts, RowKinds DEF TypeInv
<1>1. ASSUME NEW a \in Emails, NEW e \in Emails, NEW active \in BOOLEAN,
             StaffToggle(a, e, active)
      PROVE  TypeInv'
  <2>1. /\ [user[e] EXCEPT !.active = active] \in UserRow
        /\ [staff[e] EXCEPT !.active = active] \in StaffRow
    BY <1>0, <1>1 DEF Stores, StaffToggle, TypeInv, RowsThere, UserRow, StaffRow
  <2>2. Stores'
    BY <1>0, <1>1, <2>1 DEF Stores, StaffToggle, AtOnce
  <2>3. RowsStay /\ \A x \in Emails : staff'[x] # NoRow => user'[x] # NoRow
    BY <1>0, <1>1, <2>1 DEF Stores, StaffToggle, RowsStay, TypeInv, RowsThere
  <2>4. QED
    BY <1>1, <2>2, <2>3, AssembleAtOnce DEF StaffToggle, AtOnce
<1>2. ASSUME NEW e \in Emails, NEW active \in BOOLEAN, UserToggle(e, active)
      PROVE  TypeInv'
  <2>1. [user[e] EXCEPT !.active = active] \in UserRow
    BY <1>0, <1>2 DEF Stores, UserToggle, UserRow
  <2>2. Stores'
    BY <1>0, <1>2, <2>1 DEF Stores, UserToggle, AtOnce
  <2>3. RowsStay /\ \A x \in Emails : staff'[x] # NoRow => user'[x] # NoRow
    BY <1>0, <1>2, <2>1 DEF Stores, UserToggle, RowsStay, TypeInv, RowsThere
  <2>4. QED
    BY <1>2, <2>2, <2>3, AssembleAtOnce DEF UserToggle, AtOnce
<1>3. QED
  BY <1>1, <1>2 DEF Toggles

LEMMA PlanTyped ==
    ASSUME TypeInv
    PROVE  org[Home].plan.maxBranches \in Int /\ org[Home].plan.maxRooms \in Int
<1>1. org[Home] \in OrgRow
  BY Parts, HomeAssumption DEF TypeInv, RowsThere, Stores
<1>2. QED
  BY <1>1, PlanAssumption DEF OrgRow, Plan

LEMMA WorkspaceStartTypes ==
    ASSUME TypeInv, NEW q \in Requests, WorkspaceStart(q)
    PROVE  TypeInv'
<1>1. CASE BranchCreateRead(q)
  <2> DEFINE r == [op |-> "branch", pc |-> "count", max |-> org[Home].plan.maxBranches]
  <2>1. r \in RequestRow /\ RowFor(r)
    BY PlanTyped DEF RequestRow, WorkspaceRequest, RowFor
  <2>2. QED
    BY <1>1, <2>1, Reads DEF BranchCreateRead, Begin
<1>2. CASE BranchUpdateRead(q)
  <2>1. PICK a \in Emails, b \in LiveBranches, active \in BOOLEAN :
          /\ Begin(q, [op |-> "edit", pc |-> "write", actor |-> a, branch |-> b,
                       active |-> active])
          /\ UNCHANGED <<accountVars, staff, estateVars, pictureVars, review>>
    BY <1>2 DEF BranchUpdateRead
  <2> DEFINE r == [op |-> "edit", pc |-> "write", actor |-> a, branch |-> b, active |-> active]
  <2>2. r \in RequestRow /\ RowFor(r)
    BY DEF RequestRow, WorkspaceRequest, RowFor, LiveBranches
  <2>3. QED
    BY <2>1, <2>2, Reads DEF Begin
<1>3. CASE ListRead(q)
  <2>1. PICK b \in LiveBranches, listed \in BOOLEAN :
          /\ Begin(q, [op |-> "list", pc |-> "write", branch |-> b, listed |-> listed])
          /\ UNCHANGED <<accountVars, staff, estateVars, pictureVars, review>>
    BY <1>3 DEF ListRead
  <2> DEFINE r == [op |-> "list", pc |-> "write", branch |-> b, listed |-> listed]
  <2>2. r \in RequestRow /\ RowFor(r)
    BY DEF RequestRow, WorkspaceRequest, RowFor, LiveBranches
  <2>3. QED
    BY <2>1, <2>2, Reads DEF Begin
<1>4. CASE ArchiveCount(q)
  <2>1. PICK b \in LiveBranches :
          /\ Begin(q, [op |-> "archive", pc |-> "write", branch |-> b])
          /\ UNCHANGED <<accountVars, staff, estateVars, pictureVars, review>>
    BY <1>4 DEF ArchiveCount
  <2> DEFINE r == [op |-> "archive", pc |-> "write", branch |-> b]
  <2>2. r \in RequestRow /\ RowFor(r)
    BY DEF RequestRow, WorkspaceRequest, RowFor, LiveBranches
  <2>3. QED
    BY <2>1, <2>2, Reads DEF Begin
<1>5. CASE RoomCreateRead(q)
  <2>1. PICK a \in Emails, b \in LiveBranches :
          /\ Begin(q, [op |-> "room", pc |-> "count", actor |-> a, branch |-> b,
                       max |-> org[Home].plan.maxRooms])
          /\ UNCHANGED <<accountVars, staff, estateVars, pictureVars, review>>
    BY <1>5 DEF RoomCreateRead
  <2> DEFINE r == [op |-> "room", pc |-> "count", actor |-> a, branch |-> b,
                   max |-> org[Home].plan.maxRooms]
  <2>2. r \in RequestRow /\ RowFor(r)
    BY PlanTyped DEF RequestRow, WorkspaceRequest, RowFor, LiveBranches
  <2>3. QED
    BY <2>1, <2>2, Reads DEF Begin
<1>6. QED
  BY <1>1, <1>2, <1>3, <1>4, <1>5 DEF WorkspaceStart

LEMMA WorkspaceStepTypes ==
    ASSUME TypeInv, NEW q \in Requests, WorkspaceStep(q)
    PROVE  TypeInv'
<1> USE DEF accountVars, estateVars, pictureVars, Continue, Answer
<1>0. /\ Served(q) => req[q] \in RequestRow
      /\ Stores
      /\ NoRow \notin BranchRow /\ NoRow \notin RoomRow
  BY Parts, AtRequest, RowKinds DEF TypeInv
\* A write to a branch that request q has found before, or to a new one.
<1>a. ASSUME NEW b \in Branches, NEW row \in BranchRow, branch' = [branch EXCEPT ![b] = row],
             UNCHANGED <<accountVars, staff, room, pictureVars, review>>, Answer(q)
      PROVE  TypeInv'
  <2>1. Stores'
    BY <1>0, <1>a DEF Stores
  <2>2. RowsStay /\ \A x \in Emails : staff'[x] # NoRow => user'[x] # NoRow
    BY <1>0, <1>a DEF Stores, RowsStay, TypeInv, RowsThere
  <2>3. QED
    BY <1>a, <2>1, <2>2, IdleFits, Assemble
<1>1. CASE BranchCreateCount(q)
  <2> DEFINE r == [op |-> "branch", pc |-> "insert"]
  <2>1. r \in RequestRow /\ RowFor(r)
    BY DEF RequestRow, WorkspaceRequest, RowFor
  <2>2. QED
    BY <1>1, <2>1, IdleFits, Reads DEF BranchCreateCount
<1>2. CASE BranchCreateInsert(q)
  <2>1. [active |-> TRUE, listed |-> FALSE, deleted |-> FALSE] \in BranchRow
    BY DEF BranchRow
  <2>2. QED
    BY <1>2, <2>1, <1>a DEF BranchCreateInsert, FreeBranches
<1>3. CASE BranchUpdateWrite(q)
  <2>1. req[q].branch \in Branches /\ req[q].active \in BOOLEAN /\ branch[req[q].branch] # NoRow
    BY <1>0, <1>3, Requested, AtRequest DEF BranchUpdateWrite, At, RowFor
  <2>2. [branch[req[q].branch] EXCEPT !.active = req[q].active] \in BranchRow
    BY <1>0, <2>1 DEF Stores, BranchRow
  <2>3. QED
    BY <1>3, <2>1, <2>2, <1>a DEF BranchUpdateWrite
<1>4. CASE ListWrite(q)
  <2>1. req[q].branch \in Branches /\ req[q].listed \in BOOLEAN /\ branch[req[q].branch] # NoRow
    BY <1>0, <1>4, Requested, AtRequest DEF ListWrite, At, RowFor
  <2>2. [branch[req[q].branch] EXCEPT !.listed = req[q].listed] \in BranchRow
    BY <1>0, <2>1 DEF Stores, BranchRow
  <2>3. QED
    BY <1>4, <2>1, <2>2, <1>a DEF ListWrite
<1>5. CASE ArchiveWrite(q)
  <2>1. req[q].branch \in Branches
    BY <1>0, <1>5, Requested DEF ArchiveWrite, At
  <2>2. [active |-> FALSE, listed |-> FALSE, deleted |-> TRUE] \in BranchRow
    BY DEF BranchRow
  <2>3. QED
    BY <1>5, <2>1, <2>2, <1>a DEF ArchiveWrite
<1>6. CASE RoomCreateCount(q)
  <2> DEFINE r == [op |-> "room", pc |-> "insert", actor |-> req[q].actor,
                   branch |-> req[q].branch]
  <2>1. r \in RequestRow /\ RowFor(r)
    BY <1>0, <1>6, Requested DEF RoomCreateCount, At, RequestRow, WorkspaceRequest, RowFor
  <2>2. QED
    BY <1>6, <2>1, IdleFits, Reads DEF RoomCreateCount
<1>7. CASE RoomCreateInsert(q)
  <2>1. [branch |-> req[q].branch, deleted |-> FALSE] \in RoomRow
    BY <1>0, <1>7, Requested DEF RoomCreateInsert, At, RoomRow
  <2>2. Stores'
    BY <1>0, <1>7, <2>1 DEF Stores, RoomCreateInsert, FreeRooms
  <2>3. RowsStay /\ \A x \in Emails : staff'[x] # NoRow => user'[x] # NoRow
    BY <1>7 DEF RoomCreateInsert, RowsStay, TypeInv, RowsThere
  <2>4. QED
    BY <1>7, <2>2, <2>3, IdleFits, Assemble DEF RoomCreateInsert
<1>8. QED
  BY <1>1, <1>2, <1>3, <1>4, <1>5, <1>6, <1>7 DEF WorkspaceStep

LEMMA WorkspaceWritesTypes ==
    ASSUME TypeInv, WorkspaceWrites
    PROVE  TypeInv'
<1> USE DEF accountVars, estateVars, pictureVars
<1>0. Stores /\ NoRow \notin OrgRow /\ NoRow \notin RoomRow
  BY Parts, RowKinds DEF TypeInv
<1>1. ASSUME NEW a \in Emails, NEW p \in Plans, Upgrade(a, p) PROVE TypeInv'
  <2>1. [org[Home] EXCEPT !.plan = p] \in OrgRow
    BY <1>0, HomeAssumption DEF TypeInv, RowsThere, Stores, OrgRow
  <2>2. Stores'
    BY <1>0, <1>1, <2>1 DEF Stores, Upgrade, AtOnce
  <2>3. RowsStay /\ \A x \in Emails : staff'[x] # NoRow => user'[x] # NoRow
    BY <1>0, <1>1, <2>1, HomeAssumption DEF Stores, Upgrade, RowsStay, TypeInv, RowsThere
  <2>4. QED
    BY <1>1, <2>2, <2>3, AssembleAtOnce DEF Upgrade, AtOnce
<1>2. ASSUME NEW s \in Slugs, NEW open \in BOOLEAN, SetOrgStatus(s, open) PROVE TypeInv'
  <2>1. [org[s] EXCEPT !.open = open] \in OrgRow
    BY <1>0, <1>2 DEF SetOrgStatus, Stores, OrgRow
  <2>2. Stores'
    BY <1>0, <1>2, <2>1 DEF Stores, SetOrgStatus, AtOnce
  <2>3. RowsStay /\ \A x \in Emails : staff'[x] # NoRow => user'[x] # NoRow
    BY <1>0, <1>2, <2>1, HomeAssumption DEF Stores, SetOrgStatus, RowsStay, TypeInv, RowsThere
  <2>4. QED
    BY <1>2, <2>2, <2>3, AssembleAtOnce DEF SetOrgStatus, AtOnce
<1>3. ASSUME NEW a \in Emails, NEW r \in Rooms, RoomRemove(a, r) PROVE TypeInv'
  <2>1. [room[r] EXCEPT !.deleted = TRUE] \in RoomRow
    BY <1>0, <1>3 DEF RoomRemove, LiveRooms, Stores, RoomRow
  <2>2. Stores'
    BY <1>0, <1>3, <2>1 DEF Stores, RoomRemove, AtOnce
  <2>3. RowsStay /\ \A x \in Emails : staff'[x] # NoRow => user'[x] # NoRow
    BY <1>3 DEF RoomRemove, RowsStay, TypeInv, RowsThere
  <2>4. QED
    BY <1>3, <2>2, <2>3, AssembleAtOnce DEF RoomRemove, AtOnce
<1>4. QED
  BY <1>1, <1>2, <1>3 DEF WorkspaceWrites

\* What Shown says of the object of a picture.
LEMMA ShownTypes ==
    ASSUME TypeInv, NEW of \in Branches \cup Rooms, Shown(of)
    PROVE  BranchOf(of) \in Branches
<1>1. CASE of \in Branches
  BY <1>1 DEF BranchOf
<1>2. CASE of \notin Branches
  <2>1. room[of] \in RoomRow
    BY <1>2, Parts DEF Shown, LiveRooms, TypeInv, Stores
  <2>2. QED
    BY <1>2, <2>1 DEF BranchOf, RoomRow
<1>3. QED
  BY <1>1, <1>2

LEMMA GalleryStartTypes ==
    ASSUME TypeInv, NEW q \in Requests, GalleryStart(q)
    PROVE  TypeInv'
<1>0. /\ Stores
      /\ \A i \in Pictures : i \in Images /\ image[i] \in ImageRow
  BY Parts DEF TypeInv, Stores, Pictures
<1>1. CASE UploadRead(q)
  <2>1. PICK a \in Emails, of \in Branches \cup Rooms, cover \in BOOLEAN :
          /\ Shown(of)
          /\ Begin(q, [op |-> "upload", pc |-> "store", actor |-> a, of |-> of,
                       branch |-> BranchOf(of), cover |-> cover])
          /\ UNCHANGED <<accountVars, staff, estateVars, pictureVars, review>>
    BY <1>1 DEF UploadRead
  <2> DEFINE r == [op |-> "upload", pc |-> "store", actor |-> a, of |-> of,
                   branch |-> BranchOf(of), cover |-> cover]
  <2>2. BranchOf(of) \in Branches
    BY <2>1, ShownTypes
  <2>3. r \in RequestRow /\ RowFor(r)
    <3> HIDE DEF r
    <3>1. r \in GalleryRequest
      BY <2>2 DEF r, GalleryRequest
    <3>2. RowFor(r)
      BY DEF r, RowFor
    <3>3. QED
      BY <3>1, <3>2 DEF RequestRow
  <2>4. QED
    BY <2>1, <2>3, Reads DEF Begin
<1>2. CASE CoverRead(q)
  <2>1. PICK a \in Emails, i \in Images, cover \in BOOLEAN :
          /\ Editable(a, i)
          /\ Begin(q, [op |-> "cover", pc |-> IF cover THEN "covers" ELSE "insert",
                       actor |-> a, of |-> image[i].of, branch |-> BranchOf(image[i].of),
                       cover |-> cover, image |-> i, hits |-> {}])
          /\ UNCHANGED <<accountVars, staff, estateVars, pictureVars, review>>
    BY <1>2 DEF CoverRead
  <2> DEFINE r == [op |-> "cover", pc |-> IF cover THEN "covers" ELSE "insert",
                   actor |-> a, of |-> image[i].of, branch |-> BranchOf(image[i].of),
                   cover |-> cover, image |-> i, hits |-> {}]
  <2>2. image[i].of \in Branches \cup Rooms /\ Shown(image[i].of)
    BY <1>0, <2>1 DEF Editable, ImageRow
  <2>3. BranchOf(image[i].of) \in Branches
    BY <2>2, ShownTypes
  <2>4. r \in RequestRow /\ RowFor(r)
    <3> HIDE DEF r
    <3>1. r \in GalleryRequest
      BY <2>2, <2>3 DEF r, GalleryRequest
    <3>2. RowFor(r)
      BY DEF r, RowFor
    <3>3. QED
      BY <3>1, <3>2 DEF RequestRow
  <2>5. QED
    BY <2>1, <2>4, Reads DEF Begin
<1>3. CASE DeleteRead(q)
  <2>1. PICK a \in Emails, i \in Images :
          /\ Editable(a, i)
          /\ Begin(q, [op |-> "delete", pc |-> "row", actor |-> a,
                       branch |-> BranchOf(image[i].of), image |-> i])
          /\ UNCHANGED <<accountVars, staff, estateVars, pictureVars, review>>
    BY <1>3 DEF DeleteRead
  <2> DEFINE r == [op |-> "delete", pc |-> "row", actor |-> a,
                   branch |-> BranchOf(image[i].of), image |-> i]
  <2>2. image[i].of \in Branches \cup Rooms /\ Shown(image[i].of)
    BY <1>0, <2>1 DEF Editable, ImageRow
  <2>3. BranchOf(image[i].of) \in Branches
    BY <2>2, ShownTypes
  <2>4. r \in RequestRow /\ RowFor(r)
    <3> HIDE DEF r
    <3>1. r \in GalleryRequest
      BY <2>3 DEF r, GalleryRequest
    <3>2. RowFor(r)
      BY DEF r, RowFor
    <3>3. QED
      BY <3>1, <3>2 DEF RequestRow
  <2>5. QED
    BY <2>1, <2>4, Reads DEF Begin
<1>4. QED
  BY <1>1, <1>2, <1>3 DEF GalleryStart

LEMMA UncoveredTypes ==
    ASSUME TypeInv, NEW hits \in SUBSET Images
    PROVE  /\ Uncovered(hits) \in [Images -> ImageRow \cup {NoRow, Gone}]
           /\ \A i \in Images : Uncovered(hits)[i] \in ImageRow <=> image[i] \in ImageRow
           /\ \A i \in Images : Uncovered(hits)[i] = NoRow <=> image[i] = NoRow
           /\ \A i \in Images : Uncovered(hits)[i] = Gone <=> image[i] = Gone
<1>1. \A i \in Images : image[i] \in ImageRow \cup {NoRow, Gone}
  BY Parts DEF TypeInv, Stores
<1>2. ASSUME NEW i \in Pictures PROVE [image[i] EXCEPT !.cover = FALSE] \in ImageRow
  BY <1>1 DEF Pictures, ImageRow
<1>3. QED
  BY <1>1, <1>2, RowKinds DEF Uncovered, Pictures

LEMMA GalleryStepTypes ==
    ASSUME TypeInv, NEW q \in Requests, GalleryStep(q)
    PROVE  TypeInv'
<1> USE DEF accountVars, estateVars, pictureVars, Continue, Answer
<1> DEFINE r == req[q]
<1>0. /\ Served(q) => r \in RequestRow
      /\ Stores
  BY Parts, AtRequest DEF TypeInv
\* A write of the two stores.
<1>a. ASSUME NEW next \in GalleryRequest \cup {Idle}, req' = [req EXCEPT ![q] = next],
             UNCHANGED <<accountVars, staff, estateVars, review, clients>>,
             image' \in [Images -> ImageRow \cup {NoRow, Gone}], file' \subseteq Images
      PROVE  TypeInv'
  <2>1. Stores' /\ RowsStay
    BY <1>0, <1>a DEF Stores, RowsStay
  <2>2. \A x \in Emails : staff'[x] # NoRow => user'[x] # NoRow
    BY <1>a DEF TypeInv, RowsThere
  <2>3. next \in RequestRow \cup {Idle} /\ RowFor(next)
    BY <1>a DEF RequestRow, GalleryRequest, RowFor
  <2>4. QED
    BY <1>a, <2>1, <2>2, <2>3, Assemble
<1>1. CASE UploadStore(q)
  <2>1. r.actor \in Emails /\ r.of \in Branches \cup Rooms /\ r.branch \in Branches
          /\ r.cover \in BOOLEAN
    BY <1>0, <1>1, Requested DEF UploadStore, At
  <2>2. PICK i \in FreshImages :
          /\ file' = file \cup {i}
          /\ Continue(q, [op |-> "upload", pc |-> IF r.cover THEN "covers" ELSE "insert",
                          actor |-> r.actor, of |-> r.of, branch |-> r.branch,
                          cover |-> r.cover, image |-> i, hits |-> {}])
    BY <1>1 DEF UploadStore
  <2> DEFINE next == [op |-> "upload", pc |-> IF r.cover THEN "covers" ELSE "insert",
                      actor |-> r.actor, of |-> r.of, branch |-> r.branch,
                      cover |-> r.cover, image |-> i, hits |-> {}]
  <2>3. i \in Images
    BY <2>2 DEF FreshImages
  <2>4. next \in GalleryRequest
    BY <2>1, <2>3 DEF GalleryRequest
  <2>5. QED
    BY <1>0, <1>1, <1>a, <2>2, <2>3, <2>4 DEF UploadStore, Stores
<1>2. CASE ListCovers(q)
  <2>1. r \in [op: {"upload", "cover"}, pc: {"covers", "insert"}, actor: Emails,
               of: Branches \cup Rooms, branch: Branches, cover: BOOLEAN, image: Images,
               hits: SUBSET Images]
    BY <1>0, <1>2 DEF ListCovers, RequestRow, RegistrationRequest, StaffingRequest,
       WorkspaceRequest, GalleryRequest, ReviewRequest, DrawsLink
  <2> DEFINE next == [r EXCEPT !.pc = "insert", !.hits = CoversOf(r.of) \ {r.image}]
  <2>2. next \in GalleryRequest
    BY <2>1 DEF GalleryRequest, CoversOf, Pictures
  <2>3. QED
    BY <1>0, <1>2, <1>a, <2>2 DEF ListCovers, Stores
<1>3. CASE UploadInsert(q)
  <2>1. /\ r.of \in Branches \cup Rooms /\ r.cover \in BOOLEAN
        /\ r.image \in Images /\ r.hits \in SUBSET Images
    BY <1>0, <1>3, Requested DEF UploadInsert, At
  <2>2. [of |-> r.of, cover |-> r.cover] \in ImageRow
    BY <2>1 DEF ImageRow
  <2>3. image' \in [Images -> ImageRow \cup {NoRow, Gone}]
    BY <1>3, <2>1, <2>2, UncoveredTypes DEF UploadInsert
  <2>4. QED
    BY <1>0, <1>3, <1>a, <2>3 DEF UploadInsert, Stores
<1>4. CASE CoverWrite(q)
  <2>1. /\ r.cover \in BOOLEAN /\ r.image \in Images /\ r.hits \in SUBSET Images
    BY <1>0, <1>4, Requested DEF CoverWrite, At
  <2>2. r.image \in Pictures =>
          [Uncovered(r.hits)[r.image] EXCEPT !.cover = r.cover] \in ImageRow
    BY <1>0, <2>1, UncoveredTypes DEF Stores, ImageRow, Pictures
  <2>3. image' \in [Images -> ImageRow \cup {NoRow, Gone}]
    BY <1>0, <1>4, <2>1, <2>2, UncoveredTypes DEF CoverWrite, Stores
  <2>4. QED
    BY <1>0, <1>4, <1>a, <2>3 DEF CoverWrite, Stores
<1>5. CASE DeleteRow(q)
  <2>1. /\ r \in [op: {"delete"}, pc: {"row", "file"}, actor: Emails, branch: Branches,
                  image: Images]
        /\ r.image \in Images
    BY <1>0, <1>5 DEF DeleteRow, At, RequestRow, RegistrationRequest, StaffingRequest,
       WorkspaceRequest, GalleryRequest, ReviewRequest, DrawsLink
  <2>2. [r EXCEPT !.pc = "file"] \in GalleryRequest
    BY <2>1 DEF GalleryRequest
  <2>3. image' \in [Images -> ImageRow \cup {NoRow, Gone}]
    BY <1>0, <1>5, <2>1 DEF DeleteRow, Stores
  <2>4. QED
    BY <1>0, <1>5, <1>a, <2>2, <2>3 DEF DeleteRow, Goto, Stores
<1>6. CASE DeleteFile(q)
  BY <1>0, <1>6, <1>a DEF DeleteFile, Stores
<1>7. QED
  BY <1>1, <1>2, <1>3, <1>4, <1>5, <1>6 DEF GalleryStep

LEMMA ReviewTypes ==
    ASSUME TypeInv, NEW q \in Requests, ReviewStart(q) \/ ReviewStep(q)
    PROVE  TypeInv'
<1> USE DEF accountVars, estateVars, pictureVars, Continue, Answer
<1>0. /\ Served(q) => req[q] \in RequestRow
      /\ Stores
      /\ NoRow \notin ReviewRow
      /\ \A v \in Reviews : review[v] # NoRow => review[v] \in ReviewRow
  BY Parts, AtRequest, RowKinds DEF TypeInv, Stores
<1>1. CASE ReplyRead(q)
  <2>1. PICK a \in Emails, v \in Reviews :
          /\ review[v] # NoRow
          /\ Begin(q, [op |-> "reply", pc |-> "write", actor |-> a, review |-> v,
                       branch |-> review[v].branch,
                       by |-> IF user[a].role = "ORG_OWNER" THEN Null ELSE a])
          /\ UNCHANGED <<accountVars, staff, estateVars, pictureVars, review>>
    BY <1>1 DEF ReplyRead
  <2> DEFINE r == [op |-> "reply", pc |-> "write", actor |-> a, review |-> v,
                   branch |-> review[v].branch,
                   by |-> IF user[a].role = "ORG_OWNER" THEN Null ELSE a]
  <2>2. r \in ReviewRequest
    BY <1>0, <2>1 DEF ReviewRequest, ReviewRow
  <2>3. r \in RequestRow /\ RowFor(r)
    BY <2>1, <2>2 DEF RequestRow, RowFor
  <2>4. QED
    BY <2>1, <2>3, Reads DEF Begin
<1>2. CASE PublishRead(q)
  <2>1. PICK a \in Emails, v \in Reviews, published \in BOOLEAN :
          /\ review[v] # NoRow
          /\ Begin(q, [op |-> "publish", pc |-> "write", actor |-> a, review |-> v,
                       branch |-> review[v].branch, published |-> published])
          /\ UNCHANGED <<accountVars, staff, estateVars, pictureVars, review>>
    BY <1>2 DEF PublishRead
  <2> DEFINE r == [op |-> "publish", pc |-> "write", actor |-> a, review |-> v,
                   branch |-> review[v].branch, published |-> published]
  <2>2. r \in ReviewRequest
    BY <1>0, <2>1 DEF ReviewRequest, ReviewRow
  <2>3. r \in RequestRow /\ RowFor(r)
    BY <2>1, <2>2 DEF RequestRow, RowFor
  <2>4. QED
    BY <2>1, <2>3, Reads DEF Begin
<1>a. ASSUME NEW v \in Reviews, NEW row \in ReviewRow, review' = [review EXCEPT ![v] = row],
             UNCHANGED <<accountVars, staff, estateVars, pictureVars>>, Answer(q)
      PROVE  TypeInv'
  <2>1. Stores'
    BY <1>0, <1>a DEF Stores
  <2>2. RowsStay /\ \A x \in Emails : staff'[x] # NoRow => user'[x] # NoRow
    BY <1>0, <1>a DEF Stores, RowsStay, TypeInv, RowsThere
  <2>3. QED
    BY <1>a, <2>1, <2>2, IdleFits, Assemble
<1>3. CASE ReplyWrite(q)
  <2>1. /\ req[q].review \in Reviews /\ req[q].by \in Emails \cup {Null}
        /\ review[req[q].review] # NoRow
    BY <1>0, <1>3, Requested, AtRequest DEF ReplyWrite, At, RowFor
  <2>2. [review[req[q].review] EXCEPT !.replied = TRUE, !.by = req[q].by] \in ReviewRow
    BY <1>0, <2>1 DEF ReviewRow
  <2>3. review' = [review EXCEPT ![req[q].review] =
                     [review[req[q].review] EXCEPT !.replied = TRUE, !.by = req[q].by]]
    BY <1>0, <1>3, <2>1 DEF ReplyWrite, Stores
  <2>4. QED
    BY <1>3, <2>1, <2>2, <2>3, <1>a DEF ReplyWrite
<1>4. CASE PublishWrite(q)
  <2>1. /\ req[q].review \in Reviews /\ req[q].published \in BOOLEAN
        /\ review[req[q].review] # NoRow
    BY <1>0, <1>4, Requested, AtRequest DEF PublishWrite, At, RowFor
  <2>2. [review[req[q].review] EXCEPT !.published = req[q].published] \in ReviewRow
    BY <1>0, <2>1 DEF ReviewRow
  <2>3. QED
    BY <1>0, <1>4, <2>1, <2>2, <1>a DEF PublishWrite, Stores
<1>5. QED
  BY <1>1, <1>2, <1>3, <1>4 DEF ReviewStart, ReviewStep

LEMMA ReviewArrivesTypes ==
    ASSUME TypeInv, NEW v \in Reviews, NEW b \in Branches, ReviewArrives(v, b)
    PROVE  TypeInv'
<1> USE DEF accountVars, estateVars, pictureVars
<1>1. [branch |-> b, published |-> TRUE, replied |-> FALSE, by |-> Null] \in ReviewRow
  BY DEF ReviewRow
<1>2. Stores'
  BY <1>1, Parts DEF TypeInv, Stores, ReviewArrives
<1>3. RowsStay /\ \A x \in Emails : staff'[x] # NoRow => user'[x] # NoRow
  BY <1>1, Parts, RowKinds DEF TypeInv, RowsThere, RowsStay, Stores, ReviewArrives
<1>4. QED
  BY <1>2, <1>3, AssembleAtOnce DEF ReviewArrives

LEMMA FailTypes ==
    ASSUME TypeInv, NEW q \in Requests, Fail(q)
    PROVE  TypeInv'
  BY IdleFits, Reads DEF Fail, Answer, Continue

LEMMA StutterTypes ==
    ASSUME TypeInv, UNCHANGED vars
    PROVE  TypeInv'
  BY DEF TypeInv, TypeOK, RowsThere, RowFor, vars, accountVars, estateVars, pictureVars

LEMMA TypeStep == TypeInv /\ [Next]_vars => TypeInv'
<1> SUFFICES ASSUME TypeInv, [Next]_vars PROVE TypeInv'
  OBVIOUS
<1>1. CASE World
  BY <1>1, TogglesTypes, WorkspaceWritesTypes, ReviewArrivesTypes DEF World
<1>2. ASSUME NEW q \in Requests, Start(q) PROVE TypeInv'
  BY <1>2, RegistrationStartTypes, StaffingTypes, WorkspaceStartTypes, GalleryStartTypes,
     ReviewTypes DEF Start
<1>3. ASSUME NEW q \in Requests, Step(q) PROVE TypeInv'
  BY <1>3, RegistrationStepTypes, StaffingTypes, WorkspaceStepTypes, GalleryStepTypes,
     ReviewTypes DEF Step
<1>4. QED
  BY <1>1, <1>2, <1>3, FailTypes, StutterTypes DEF Next

(***************************************************************************)
(* Every table and every request keeps its type, although a request uses   *)
(* what it has read before others wrote.                                   *)
(***************************************************************************)
THEOREM BackOfficeTypeInv == Spec => []TypeInv
  BY TypeInit, TypeStep, PTL DEF Spec

\* The same of the types alone: whatever overlaps or dies, no column gets a foreign value.
THEOREM BackOfficeTypeCorrect == Spec => []TypeOK
<1>1. TypeInv => TypeOK
  BY DEF TypeInv
<1>2. QED
  BY <1>1, BackOfficeTypeInv, PTL

-----------------------------------------------------------------------------
(***************************************************************************)
(* What holds in the back office however requests overlap or die: the      *)
(* roles of users and staff, the owners of organizations, the slugs of     *)
(* registrations, and the two stores of pictures.                          *)
(***************************************************************************)
RolesMatch == \A e \in Emails : staff[e] # NoRow => user[e].role = staff[e].role

IsOwner(e) == user[e] # NoRow /\ user[e].role = "ORG_OWNER"

Owns(e, s) == org[s] # NoRow /\ org[s].owner = e

OwnersApart ==
    /\ \A s \in Slugs : org[s] # NoRow => IsOwner(org[s].owner)
    /\ \A e \in Emails : IsOwner(e) => \E s \in Slugs : Owns(e, s)
    /\ \A e \in Emails, s, t \in Slugs : Owns(e, s) /\ Owns(e, t) => s = t

\* The unique column slug of the registrations.
SlugsApart ==
    \A e, f \in Emails :
        pending[e] # NoRow /\ pending[f] # NoRow /\ pending[e].slug = pending[f].slug
            => e = f

AccountInv == RolesMatch /\ OwnersApart /\ SlugsApart

\* Between the two stores: the file is there, the row not yet.
Uploading(r) == r # Idle /\ r.op = "upload" /\ r.pc \in {"covers", "insert"}

\* What the rows say of the picture that request r is about.
PictureFor(r) ==
    /\ Uploading(r) => r.image \in file /\ image[r.image] = NoRow
    /\ r # Idle /\ r.op = "cover" => image[r.image] # NoRow
    /\ r # Idle /\ r.op = "delete" => image[r.image] # NoRow
    /\ r # Idle /\ r.op = "delete" /\ r.pc = "file" => image[r.image] = Gone

UploadsApart ==
    \A p, q \in Requests :
        Uploading(req[p]) /\ Uploading(req[q]) /\ req[p].image = req[q].image => p = q

FilesInv ==
    /\ PicturesHaveFiles
    /\ \A q \in Requests : PictureFor(req[q])
    /\ UploadsApart

-----------------------------------------------------------------------------
(***************************************************************************)
(* Frames.                                                                 *)
(***************************************************************************)
\* A request that begins has only read.
LEMMA StartFrame ==
    ASSUME NEW q \in Requests, Start(q)
    PROVE  /\ UNCHANGED <<accountVars, staff, estateVars, pictureVars, review, clients>>
           /\ clients.turns => AtRest
           /\ ~Served(q)
<1>1. CASE RegistrationStart(q)
  BY <1>1 DEF RegistrationStart, RegisterLook, ResendRead, VerifyRead, Begin
<1>2. CASE StaffingStart(q)
  BY <1>2 DEF StaffingStart, StaffCreateRead, StaffUpdateRead, Begin
<1>3. CASE WorkspaceStart(q)
  BY <1>3 DEF WorkspaceStart, BranchCreateRead, BranchUpdateRead, ListRead, ArchiveCount,
     RoomCreateRead, Begin
<1>4. CASE GalleryStart(q)
  BY <1>4 DEF GalleryStart, UploadRead, CoverRead, DeleteRead, Begin
<1>5. CASE ReviewStart(q)
  BY <1>5 DEF ReviewStart, ReplyRead, PublishRead, Begin
<1>6. QED
  BY <1>1, <1>2, <1>3, <1>4, <1>5 DEF Start

\* Only registrations and the staff desk, apart from the status and the plan of an
\* organization, write to the accounts.
LEMMA EstateFrame ==
    ASSUME NEW q \in Requests, WorkspaceStep(q) \/ GalleryStep(q) \/ ReviewStep(q) \/ Fail(q)
    PROVE  UNCHANGED <<accountVars, staff>>
<1>1. CASE WorkspaceStep(q)
  BY <1>1 DEF WorkspaceStep, BranchCreateCount, BranchCreateInsert, BranchUpdateWrite,
     ListWrite, ArchiveWrite, RoomCreateCount, RoomCreateInsert
<1>2. CASE GalleryStep(q)
  BY <1>2 DEF GalleryStep, UploadStore, ListCovers, UploadInsert, CoverWrite, DeleteRow,
     DeleteFile
<1>3. CASE ReviewStep(q)
  BY <1>3 DEF ReviewStep, ReplyWrite, PublishWrite
<1>4. CASE Fail(q)
  BY <1>4 DEF Fail
<1>5. QED
  BY <1>1, <1>2, <1>3, <1>4

\* Only the gallery writes to the pictures.
LEMMA PictureFrame ==
    ASSUME NEW q \in Requests,
           RegistrationStep(q) \/ StaffingStep(q) \/ WorkspaceStep(q) \/ ReviewStep(q) \/ Fail(q)
    PROVE  UNCHANGED pictureVars
<1>1. CASE RegistrationStep(q)
  BY <1>1 DEF RegistrationStep, RegisterPending, RegisterWrite, SendMail, ResendPending,
     ResendUser, VerifyCommit, VerifyUser
<1>2. CASE StaffingStep(q)
  BY <1>2 DEF StaffingStep, StaffCreateInsert, StaffUpdateWrite
<1>3. CASE WorkspaceStep(q)
  BY <1>3 DEF WorkspaceStep, BranchCreateCount, BranchCreateInsert, BranchUpdateWrite,
     ListWrite, ArchiveWrite, RoomCreateCount, RoomCreateInsert
<1>4. CASE ReviewStep(q)
  BY <1>4 DEF ReviewStep, ReplyWrite, PublishWrite
<1>5. CASE Fail(q)
  BY <1>5 DEF Fail
<1>6. QED
  BY <1>1, <1>2, <1>3, <1>4, <1>5

\* A write outside of any request.
LEMMA WorldFrame ==
    ASSUME World
    PROVE  /\ UNCHANGED <<pending, mail, pictureVars, clients, req>>
           /\ clients.turns => AtRest
<1>1. CASE Toggles
  BY <1>1 DEF Toggles, StaffToggle, UserToggle, AtOnce
<1>2. CASE WorkspaceWrites
  BY <1>2 DEF WorkspaceWrites, Upgrade, SetOrgStatus, RoomRemove, AtOnce, accountVars,
     pictureVars
<1>3. CASE \E v \in Reviews, b \in Branches : ReviewArrives(v, b)
  BY <1>3 DEF ReviewArrives, accountVars, pictureVars
<1>4. QED
  BY <1>1, <1>2, <1>3 DEF World

\* A request that takes a step or begins leaves the others where they are.
LEMMA OneSlot ==
    ASSUME TypeInv, NEW q \in Requests, Start(q) \/ Step(q) \/ Fail(q)
    PROVE  \A p \in Requests \ {q} : req'[p] = req[p]
<1> USE DEF Begin, Continue, Answer, Goto
<1>0. req \in [Requests -> RequestRow \cup {Idle}]
  BY Parts DEF TypeInv
<1>1. CASE RegistrationStart(q) \/ RegistrationStep(q)
  BY <1>0, <1>1 DEF RegistrationStart, RegisterLook, ResendRead, VerifyRead,
     RegistrationStep, RegisterPending, RegisterWrite, SendMail, ResendPending,
     ResendUser, VerifyCommit, VerifyUser
<1>2. CASE StaffingStart(q) \/ StaffingStep(q)
  BY <1>0, <1>2 DEF StaffingStart, StaffCreateRead, StaffUpdateRead, StaffingStep,
     StaffCreateInsert, StaffUpdateWrite
<1>3. CASE WorkspaceStart(q) \/ WorkspaceStep(q)
  BY <1>0, <1>3 DEF WorkspaceStart, BranchCreateRead, BranchUpdateRead, ListRead,
     ArchiveCount, RoomCreateRead, WorkspaceStep, BranchCreateCount, BranchCreateInsert,
     BranchUpdateWrite, ListWrite, ArchiveWrite, RoomCreateCount, RoomCreateInsert
<1>4. CASE GalleryStart(q) \/ GalleryStep(q)
  BY <1>0, <1>4 DEF GalleryStart, UploadRead, CoverRead, DeleteRead, GalleryStep,
     UploadStore, ListCovers, UploadInsert, CoverWrite, DeleteRow, DeleteFile
<1>5. CASE ReviewStart(q) \/ ReviewStep(q)
  BY <1>0, <1>5 DEF ReviewStart, ReplyRead, PublishRead, ReviewStep, ReplyWrite,
     PublishWrite
<1>6. CASE Fail(q)
  BY <1>0, <1>6 DEF Fail
<1>7. QED
  BY <1>1, <1>2, <1>3, <1>4, <1>5, <1>6 DEF Start, Step

\* Where a request stands after a step of a component is that component's.
RegistrationOps == {"register", "resend", "verify"}
StaffingOps     == {"hire", "staff"}
WorkspaceOps    == {"branch", "edit", "list", "archive", "room"}
GalleryOps      == {"upload", "cover", "delete"}
ReviewOps       == {"reply", "publish"}

InOps(r, ops) == r = Idle \/ r.op \in ops

LEMMA StartOps ==
    ASSUME TypeInv, NEW q \in Requests
    PROVE  /\ RegistrationStart(q) => InOps(req'[q], RegistrationOps)
           /\ StaffingStart(q) => InOps(req'[q], StaffingOps)
           /\ WorkspaceStart(q) => InOps(req'[q], WorkspaceOps)
           /\ GalleryStart(q) => InOps(req'[q], GalleryOps)
           /\ ReviewStart(q) => InOps(req'[q], ReviewOps)
<1> USE DEF InOps, RegistrationOps, StaffingOps, WorkspaceOps, GalleryOps, ReviewOps, Begin
<1>0. q \in DOMAIN req
  BY Parts DEF TypeInv
<1>1. ASSUME RegistrationStart(q) PROVE InOps(req'[q], RegistrationOps)
  <2>1. RegisterLook(q) => req'[q].op = "register"
    BY <1>0 DEF RegisterLook
  <2>2. ResendRead(q) => req'[q].op = "resend"
    BY <1>0 DEF ResendRead
  <2>3. VerifyRead(q) => req'[q].op = "verify"
    BY <1>0 DEF VerifyRead
  <2>4. QED
    BY <1>1, <2>1, <2>2, <2>3 DEF RegistrationStart
<1>2. ASSUME StaffingStart(q) PROVE InOps(req'[q], StaffingOps)
  <2>1. StaffCreateRead(q) => req'[q].op = "hire"
    BY <1>0 DEF StaffCreateRead
  <2>2. StaffUpdateRead(q) => req'[q].op = "staff"
    BY <1>0 DEF StaffUpdateRead
  <2>3. QED
    BY <1>2, <2>1, <2>2 DEF StaffingStart
<1>3. ASSUME WorkspaceStart(q) PROVE InOps(req'[q], WorkspaceOps)
  <2>1. BranchCreateRead(q) => req'[q].op = "branch"
    BY <1>0 DEF BranchCreateRead
  <2>2. BranchUpdateRead(q) => req'[q].op = "edit"
    BY <1>0 DEF BranchUpdateRead
  <2>3. ListRead(q) => req'[q].op = "list"
    BY <1>0 DEF ListRead
  <2>4. ArchiveCount(q) => req'[q].op = "archive"
    BY <1>0 DEF ArchiveCount
  <2>5. RoomCreateRead(q) => req'[q].op = "room"
    BY <1>0 DEF RoomCreateRead
  <2>6. QED
    BY <1>3, <2>1, <2>2, <2>3, <2>4, <2>5 DEF WorkspaceStart
<1>4. ASSUME ReviewStart(q) PROVE InOps(req'[q], ReviewOps)
  <2>1. ReplyRead(q) => req'[q].op = "reply"
    BY <1>0 DEF ReplyRead
  <2>2. PublishRead(q) => req'[q].op = "publish"
    BY <1>0 DEF PublishRead
  <2>3. QED
    BY <1>4, <2>1, <2>2 DEF ReviewStart
<1>5. ASSUME GalleryStart(q) PROVE InOps(req'[q], GalleryOps)
  <2>1. UploadRead(q) => req'[q].op = "upload"
    BY <1>0 DEF UploadRead
  <2>2. CoverRead(q) => req'[q].op = "cover"
    BY <1>0 DEF CoverRead
  <2>3. DeleteRead(q) => req'[q].op = "delete"
    BY <1>0 DEF DeleteRead
  <2>4. QED
    BY <1>5, <2>1, <2>2, <2>3 DEF GalleryStart
<1>6. QED
  BY <1>1, <1>2, <1>3, <1>4, <1>5

LEMMA StepOps ==
    ASSUME TypeInv, NEW q \in Requests
    PROVE  /\ RegistrationStep(q) => InOps(req'[q], RegistrationOps)
           /\ StaffingStep(q) \/ Fail(q) => req'[q] = Idle
           /\ WorkspaceStep(q) => InOps(req'[q], WorkspaceOps)
           /\ GalleryStep(q) => InOps(req'[q], GalleryOps)
           /\ ReviewStep(q) => req'[q] = Idle
<1> USE DEF InOps, RegistrationOps, StaffingOps, WorkspaceOps, GalleryOps, ReviewOps,
        Continue, Answer
<1>0. q \in DOMAIN req
  BY Parts DEF TypeInv
<1>1. ASSUME RegistrationStep(q) PROVE InOps(req'[q], RegistrationOps)
  <2>1. ASSUME RegisterPending(q) \/ RegisterWrite(q)
        PROVE  req'[q] = Idle \/ req'[q].op = "register"
    <3>1. Answer(q) \/ \E l, id : \/ Continue(q, [op |-> "register", pc |-> "write",
                                       email |-> req[q].email, slug |-> req[q].slug, id |-> id])
                                \/ Continue(q, [op |-> "register", pc |-> "mail",
                                       email |-> req[q].email, slug |-> req[q].slug, link |-> l])
      BY <2>1 DEF RegisterPending, RegisterWrite
    <3>2. QED
      BY <1>0, <3>1
  <2>2. ASSUME ResendPending(q) \/ ResendUser(q)
        PROVE  req'[q] = Idle \/ req'[q].op = "resend"
    <3>1. Answer(q) \/ \E l, slug : Continue(q, [op |-> "resend", pc |-> "mail",
                                       email |-> req[q].email, slug |-> slug, link |-> l])
      BY <2>2 DEF ResendPending, ResendUser
    <3>2. QED
      BY <1>0, <3>1
  <2>3. SendMail(q) \/ VerifyCommit(q) \/ VerifyUser(q) => req'[q] = Idle
    BY <1>0 DEF SendMail, VerifyCommit, VerifyUser
  <2>4. QED
    BY <1>1, <2>1, <2>2, <2>3 DEF RegistrationStep
<1>2. ASSUME StaffingStep(q) PROVE req'[q] = Idle
  BY <1>0, <1>2 DEF StaffingStep, StaffCreateInsert, StaffUpdateWrite
<1>3. ASSUME WorkspaceStep(q) PROVE InOps(req'[q], WorkspaceOps)
  <2>1. BranchCreateCount(q) =>
          req'[q] = Idle \/ req'[q].op = "branch"
    BY <1>0 DEF BranchCreateCount
  <2>2. RoomCreateCount(q) =>
          req'[q] = Idle \/ req'[q].op = "room"
    BY <1>0 DEF RoomCreateCount
  <2>3. BranchCreateInsert(q) \/ BranchUpdateWrite(q) \/ ListWrite(q) \/ ArchiveWrite(q)
          \/ RoomCreateInsert(q) => req'[q] = Idle
    BY <1>0 DEF BranchCreateInsert, BranchUpdateWrite, ListWrite, ArchiveWrite, RoomCreateInsert
  <2>4. QED
    BY <1>3, <2>1, <2>2, <2>3 DEF WorkspaceStep
<1>4. ASSUME ReviewStep(q) PROVE req'[q] = Idle
  BY <1>0, <1>4 DEF ReviewStep, ReplyWrite, PublishWrite
<1>5. ASSUME Fail(q) PROVE req'[q] = Idle
  BY <1>0, <1>5 DEF Fail
<1>6. ASSUME GalleryStep(q) PROVE InOps(req'[q], GalleryOps)
  <2>1. Served(q) => req[q] \in RequestRow
    BY AtRequest
  <2>2. UploadInsert(q) \/ CoverWrite(q) \/ DeleteFile(q) => req'[q] = Idle
    BY <1>0 DEF UploadInsert, CoverWrite, DeleteFile
  <2>3. UploadStore(q) => req'[q].op = "upload"
    BY <1>0 DEF UploadStore
  <2>4. ASSUME ListCovers(q) PROVE req'[q].op \in {"upload", "cover"}
    <3>1. req[q] \in [op: {"upload", "cover"}, pc: {"covers", "insert"}, actor: Emails,
                      of: Branches \cup Rooms, branch: Branches, cover: BOOLEAN,
                      image: Images, hits: SUBSET Images]
      BY <2>1, <2>4 DEF ListCovers, RequestRow, RegistrationRequest, StaffingRequest,
         WorkspaceRequest, GalleryRequest, ReviewRequest, DrawsLink
    <3>2. QED
      BY <1>0, <2>4, <3>1 DEF ListCovers
  <2>5. ASSUME DeleteRow(q) PROVE req'[q] = Idle \/ req'[q].op = "delete"
    <3>1. req[q] \in [op: {"delete"}, pc: {"row", "file"}, actor: Emails,
                      branch: Branches, image: Images]
      BY <2>1, <2>5 DEF DeleteRow, At, RequestRow, RegistrationRequest, StaffingRequest,
         WorkspaceRequest, GalleryRequest, ReviewRequest, DrawsLink
    <3>2. QED
      BY <1>0, <2>5, <3>1 DEF DeleteRow, Goto
  <2>6. QED
    BY <1>6, <2>2, <2>3, <2>4, <2>5 DEF GalleryStep
<1>7. QED
  BY <1>1, <1>2, <1>3, <1>4, <1>5, <1>6

-----------------------------------------------------------------------------
(***************************************************************************)
(* Accounts.                                                               *)
(***************************************************************************)
LEMMA AccountInit == Init => AccountInv
<1> SUFFICES ASSUME Init PROVE AccountInv
  OBVIOUS
<1>1. OwnerRow # NoRow /\ OrgOf(Owner, clients.plan) # NoRow
  BY DEF OwnerRow, OrgOf, NoRow
<1>2. OwnersApart
  BY <1>1, HomeAssumption DEF Init, OwnersApart, IsOwner, Owns, OwnerRow, OrgOf, NoRow
<1>3. QED
  BY <1>2 DEF Init, AccountInv, RolesMatch, SlugsApart

\* What the invariant depends on.
LEMMA AccountFrame ==
    ASSUME AccountInv, UNCHANGED <<pending, user, org, staff>>
    PROVE  AccountInv'
  BY DEF AccountInv, RolesMatch, OwnersApart, IsOwner, Owns, SlugsApart

LEMMA RegistrationAccounts ==
    ASSUME TypeInv, AccountInv, NEW q \in Requests, RegistrationStep(q)
    PROVE  AccountInv'
<1> DEFINE e == req[q].email
<1> USE DEF AccountInv, RolesMatch, OwnersApart, IsOwner, Owns, SlugsApart, accountVars
<1>0. /\ Served(q) => req[q] \in RequestRow /\ RowFor(req[q])
      /\ Stores
      /\ NoRow \notin UserRow /\ NoRow \notin OrgRow /\ NoRow \notin PendingRow
  BY Parts, AtRequest, RowKinds DEF TypeInv
<1>1. CASE RegisterPending(q)
  BY <1>1 DEF RegisterPending
<1>2. CASE RegisterWrite(q)
  <2>1. e \in Emails
    BY <1>0, <1>2, Requested DEF RegisterWrite, At
  <2>2. CASE UNCHANGED pending
    BY <1>2, <2>2 DEF RegisterWrite
  <2>3. CASE pending' # pending
    <3>1. PICK l \in FreshLinks :
            /\ pending' = [pending EXCEPT ![e] =
                             [id |-> IF req[q].id = Null /\ pending[e] = NoRow THEN l
                                     ELSE req[q].id,
                              slug |-> req[q].slug, link |-> l]]
            /\ ~SlugHeld(req[q].slug, e)
      BY <1>2, <2>3 DEF RegisterWrite
    <3>2. SlugsApart'
      BY <1>0, <2>1, <3>1 DEF SlugHeld, Stores
    <3>3. QED
      BY <1>2, <3>2 DEF RegisterWrite
  <2>4. QED
    BY <2>2, <2>3
<1>3. CASE SendMail(q)
  BY <1>3 DEF SendMail
<1>4. CASE ResendPending(q)
  <2>1. CASE UNCHANGED pending
    BY <1>4, <2>1 DEF ResendPending
  <2>2. CASE pending' # pending
    <3>1. /\ e \in Emails /\ pending[e] # NoRow
          /\ \E l \in FreshLinks : pending' = [pending EXCEPT ![e].link = l]
      BY <1>0, <1>4, <2>2, Requested DEF ResendPending, At
    <3>2. \A f \in Emails : /\ pending'[f] # NoRow => pending[f] # NoRow
                            /\ pending'[f] # NoRow => pending'[f].slug = pending[f].slug
      BY <1>0, <3>1 DEF Stores, PendingRow
    <3>3. QED
      BY <1>4, <3>2 DEF ResendPending
  <2>3. QED
    BY <2>1, <2>2
<1>5. CASE ResendUser(q)
  <2>1. e \in Emails /\ user[e] \in UserRow
    BY <1>0, <1>5, Requested DEF ResendUser, At, RowFor, Stores
  <2>2. \A f \in Emails : /\ user'[f] # NoRow <=> user[f] # NoRow
                          /\ user[f] # NoRow => user'[f].role = user[f].role
    BY <1>0, <1>5, <2>1 DEF ResendUser, Stores, UserRow, NoRow
  <2>3. \A f \in Emails : staff[f] # NoRow => user[f] # NoRow
    BY DEF TypeInv, RowsThere
  <2>4. \A s \in Slugs : org[s] # NoRow => org[s].owner \in Emails
    BY <1>0 DEF Stores, OrgRow
  <2>5. QED
    BY <1>5, <2>2, <2>3, <2>4 DEF ResendUser
<1>6. CASE VerifyCommit(q)
  <2>1. e \in Emails /\ req[q].slug \in Slugs
    BY <1>0, <1>6, Requested DEF VerifyCommit, At
  <2>2. CASE UNCHANGED <<pending, user, org>>
    BY <1>6, <2>2 DEF VerifyCommit
  <2>3. CASE ~UNCHANGED <<pending, user, org>>
    <3> DEFINE s == req[q].slug
    <3>1. /\ user[e] = NoRow /\ org[s] = NoRow
          /\ user' = [user EXCEPT ![e] = OwnerRow]
          /\ org' = [org EXCEPT ![s] = OrgOf(e, TrialPlan)]
          /\ pending' = [pending EXCEPT ![e] = NoRow]
          /\ UNCHANGED staff
      BY <1>6, <2>3 DEF VerifyCommit
    <3>2. /\ OwnerRow # NoRow /\ OwnerRow.role = "ORG_OWNER"
          /\ OrgOf(e, TrialPlan) # NoRow /\ OrgOf(e, TrialPlan).owner = e
      BY DEF OwnerRow, OrgOf, NoRow
    <3>3. staff[e] = NoRow
      BY <2>1, <3>1 DEF TypeInv, RowsThere
    <3>4. \A x \in Slugs : org[x] # NoRow => org[x].owner \in Emails /\ org[x].owner # e
      BY <1>0, <2>1, <3>1 DEF Stores, OrgRow
    <3>5. RolesMatch'
      BY <1>0, <2>1, <3>1, <3>3 DEF Stores
    <3>6. OwnersApart'
      <4>1. \A x \in Slugs : /\ x = s => org'[x] # NoRow /\ org'[x].owner = e
                             /\ x # s => org'[x] = org[x]
        BY <1>0, <2>1, <3>1, <3>2 DEF Stores
      <4>2. \A f \in Emails : /\ f = e => user'[f] = OwnerRow
                              /\ f # e => user'[f] = user[f]
        BY <1>0, <2>1, <3>1 DEF Stores
      <4>3. \A x \in Slugs : org'[x] # NoRow => IsOwner(org[x].owner)'
        BY <2>1, <3>2, <3>4, <4>1, <4>2
      <4>4. ASSUME NEW f \in Emails, IsOwner(f)' PROVE \E x \in Slugs : Owns(f, x)'
        BY <2>1, <3>1, <4>1, <4>2, <4>4
      <4>5. ASSUME NEW f \in Emails, NEW x \in Slugs, NEW y \in Slugs,
                   Owns(f, x)', Owns(f, y)'
            PROVE  x = y
        BY <2>1, <3>4, <4>1, <4>5
      <4>6. QED
        BY <4>3, <4>4, <4>5
    <3>7. SlugsApart'
      BY <1>0, <2>1, <3>1 DEF Stores
    <3>8. QED
      BY <3>5, <3>6, <3>7
  <2>4. QED
    BY <2>2, <2>3
<1>7. CASE VerifyUser(q)
  <2>1. e \in Emails /\ user[e] \in UserRow
    BY <1>0, <1>7, Requested DEF VerifyUser, At, RowFor, Stores
  <2>2. \A f \in Emails : /\ user'[f] # NoRow <=> user[f] # NoRow
                          /\ user[f] # NoRow => user'[f].role = user[f].role
    BY <1>0, <1>7, <2>1 DEF VerifyUser, Stores, UserRow, NoRow
  <2>3. \A f \in Emails : staff[f] # NoRow => user[f] # NoRow
    BY DEF TypeInv, RowsThere
  <2>4. \A s \in Slugs : org[s] # NoRow => org[s].owner \in Emails
    BY <1>0 DEF Stores, OrgRow
  <2>5. QED
    BY <1>7, <2>2, <2>3, <2>4, ZenonT(30) DEF VerifyUser
<1>8. QED
  BY <1>1, <1>2, <1>3, <1>4, <1>5, <1>6, <1>7 DEF RegistrationStep

LEMMA StaffingAccounts ==
    ASSUME TypeInv, AccountInv, NEW q \in Requests, StaffingStep(q)
    PROVE  AccountInv'
<1> DEFINE e == req[q].email
<1>0. /\ Served(q) => req[q] \in RequestRow /\ RowFor(req[q])
      /\ Stores
      /\ NoRow \notin UserRow /\ NoRow \notin StaffRow
      /\ \A f \in Emails : staff[f] # NoRow => user[f] # NoRow
      /\ \A s \in Slugs : org[s] # NoRow => org[s].owner \in Emails
  BY Parts, AtRequest, RowKinds DEF TypeInv, RowsThere, Stores, OrgRow
\* Whatever a member of the staff becomes, it is not an owner.
<1>a. ASSUME NEW account \in UserRow, NEW member \in StaffRow, e \in Emails, ~IsOwner(e),
             account.role = member.role,
             user' = [user EXCEPT ![e] = account], staff' = [staff EXCEPT ![e] = member],
             UNCHANGED <<pending, org>>
      PROVE  AccountInv'
  <2>1. /\ \A f \in Emails \ {e} : user'[f] = user[f] /\ staff'[f] = staff[f]
        /\ user'[e] = account /\ staff'[e] = member
    BY <1>0, <1>a DEF Stores
  <2>2. account.role # "ORG_OWNER"
    BY <1>a DEF StaffRow, StaffRole
  <2>3. RolesMatch'
    BY <1>a, <2>1 DEF AccountInv, RolesMatch
  <2>4. \A f \in Emails : IsOwner(f)' <=> IsOwner(f)
    BY <1>a, <2>1, <2>2 DEF IsOwner
  <2>5. OwnersApart'
    BY <1>0, <1>a, <2>4 DEF AccountInv, OwnersApart, Owns
  <2>6. QED
    BY <1>a, <2>3, <2>5 DEF AccountInv, SlugsApart
<1>1. CASE StaffCreateInsert(q)
  <2> DEFINE account == [role |-> req[q].role, active |-> TRUE, verified |-> FALSE,
                         link |-> Null]
             member == [role |-> req[q].role, active |-> TRUE, branch |-> req[q].branch]
  <2>1. e \in Emails /\ account \in UserRow /\ member \in StaffRow
    BY <1>0, <1>1, Requested DEF StaffCreateInsert, At, UserRow, UserRole, StaffRow
  <2>2. CASE UNCHANGED <<user, staff>>
    BY <1>1, <2>2, AccountFrame DEF StaffCreateInsert
  <2>3. CASE ~UNCHANGED <<user, staff>>
    BY <1>1, <1>a, <2>1, <2>3 DEF StaffCreateInsert, IsOwner
  <2>4. QED
    BY <2>2, <2>3
<1>2. CASE StaffUpdateWrite(q)
  <2> DEFINE dto == req[q]
             account == [user[e] EXCEPT !.role = Merge(dto.role, @),
                                        !.active = Merge(dto.active, @)]
             member == [role   |-> Merge(dto.role, staff[e].role),
                        branch |-> Merge(dto.branch, staff[e].branch),
                        active |-> Merge(dto.active, staff[e].active)]
  <2>1. /\ e \in Emails
        /\ dto.role \in StaffRole \cup {Unsent}
        /\ dto.branch \in Branches \cup {Null, Unsent}
        /\ dto.active \in BOOLEAN \cup {Unsent}
    BY <1>0, <1>2, Requested DEF StaffUpdateWrite, At
  <2>2. staff[e] # NoRow /\ user[e] # NoRow
    BY <1>0, <1>2, <2>1, Requested DEF StaffUpdateWrite, At, RowFor
  <2>3. staff[e] \in StaffRow /\ user[e] \in UserRow /\ user[e].role = staff[e].role
    BY <1>0, <2>1, <2>2 DEF Stores, AccountInv, RolesMatch
  <2>4. member \in StaffRow
    BY <2>1, <2>3 DEF StaffRow, Merge
  <2>5. account \in UserRow /\ account.role = member.role
    BY <2>1, <2>3 DEF UserRow, UserRole, Merge
  <2>6. ~IsOwner(e)
    BY <2>3 DEF IsOwner, StaffRow, StaffRole
  <2>7. user' = [user EXCEPT ![e] = account] /\ staff' = [staff EXCEPT ![e] = member]
    BY <1>0, <1>2, <2>1 DEF StaffUpdateWrite, Stores
  <2>8. QED
    BY <1>2, <1>a, <2>1, <2>4, <2>5, <2>6, <2>7 DEF StaffUpdateWrite
<1>3. QED
  BY <1>1, <1>2 DEF StaffingStep

LEMMA WorldAccounts ==
    ASSUME TypeInv, AccountInv, World
    PROVE  AccountInv'
<1>0. /\ Stores
      /\ NoRow \notin UserRow /\ NoRow \notin StaffRow /\ NoRow \notin OrgRow
      /\ \A f \in Emails : staff[f] # NoRow => user[f] # NoRow
      /\ \A s \in Slugs : org[s] # NoRow => org[s].owner \in Emails
      /\ org[Home] # NoRow
  BY Parts, RowKinds DEF TypeInv, RowsThere, Stores, OrgRow
\* Rows stay, and of their columns neither role nor owner changes.
<1>a. ASSUME UNCHANGED <<pending>>,
             \A f \in Emails : user'[f] # NoRow <=> user[f] # NoRow,
             \A f \in Emails : user[f] # NoRow => user'[f].role = user[f].role,
             \A f \in Emails : staff'[f] # NoRow => staff[f] # NoRow,
             \A f \in Emails : staff[f] # NoRow => staff'[f].role = staff[f].role,
             \A s \in Slugs : org'[s] # NoRow <=> org[s] # NoRow,
             \A s \in Slugs : org[s] # NoRow => org'[s].owner = org[s].owner
      PROVE  AccountInv'
  <2>1. RolesMatch'
    BY <1>0, <1>a DEF AccountInv, RolesMatch
  <2>2. \A f \in Emails : IsOwner(f)' <=> IsOwner(f)
    BY <1>a DEF IsOwner
  <2>3. \A f \in Emails, s \in Slugs : Owns(f, s)' <=> Owns(f, s)
    BY <1>a DEF Owns
  <2>4. OwnersApart'
    BY <1>0, <1>a, <2>2, <2>3 DEF AccountInv, OwnersApart
  <2>5. QED
    BY <1>a, <2>1, <2>4 DEF AccountInv, SlugsApart
<1>1. ASSUME NEW a \in Emails, NEW e \in Emails, NEW active \in BOOLEAN,
             StaffToggle(a, e, active)
      PROVE  AccountInv'
  BY <1>0, <1>1, <1>a DEF StaffToggle, Stores, UserRow, StaffRow, NoRow
<1>2. ASSUME NEW e \in Emails, NEW active \in BOOLEAN, UserToggle(e, active)
      PROVE  AccountInv'
  BY <1>0, <1>2, <1>a DEF UserToggle, Stores, UserRow, StaffRow, NoRow
<1>3. ASSUME NEW a \in Emails, NEW p \in Plans, Upgrade(a, p) PROVE AccountInv'
  BY <1>0, <1>3, <1>a, HomeAssumption DEF Upgrade, Stores, OrgRow, NoRow
<1>4. ASSUME NEW s \in Slugs, NEW open \in BOOLEAN, SetOrgStatus(s, open) PROVE AccountInv'
  BY <1>0, <1>4, <1>a DEF SetOrgStatus, Stores, OrgRow, NoRow
<1>5. ASSUME NEW a \in Emails, NEW r \in Rooms, RoomRemove(a, r) PROVE AccountInv'
  BY <1>5, AccountFrame DEF RoomRemove, accountVars
<1>6. ASSUME NEW v \in Reviews, NEW b \in Branches, ReviewArrives(v, b) PROVE AccountInv'
  BY <1>6, AccountFrame DEF ReviewArrives, accountVars
<1>7. QED
  BY <1>1, <1>2, <1>3, <1>4, <1>5, <1>6 DEF World, Toggles, WorkspaceWrites

LEMMA AccountStep == TypeInv /\ AccountInv /\ [Next]_vars => AccountInv'
<1> SUFFICES ASSUME TypeInv, AccountInv, [Next]_vars PROVE AccountInv'
  OBVIOUS
<1>1. ASSUME NEW q \in Requests, Start(q) PROVE AccountInv'
  BY <1>1, StartFrame, AccountFrame DEF accountVars
<1>2. ASSUME NEW q \in Requests, Step(q) PROVE AccountInv'
  BY <1>2, RegistrationAccounts, StaffingAccounts, EstateFrame, AccountFrame
     DEF Step, accountVars
<1>3. ASSUME NEW q \in Requests, Fail(q) PROVE AccountInv'
  BY <1>3, EstateFrame, AccountFrame DEF accountVars
<1>4. CASE UNCHANGED vars
  BY <1>4, AccountFrame DEF vars, accountVars
<1>5. QED
  BY <1>1, <1>2, <1>3, <1>4, WorldAccounts DEF Next

LEMMA AccountInvariant == Spec => [](TypeInv /\ AccountInv)
  BY TypeInit, TypeStep, AccountInit, AccountStep, PTL DEF Spec

LEMMA OneOrganization ==
    ASSUME TypeInv, AccountInv
    PROVE  OneOrganizationPerOwner
<1> SUFFICES ASSUME NEW e \in Emails
             PROVE  Cardinality({s \in Slugs : org[s] # NoRow /\ org[s].owner = e}) =
                      IF user[e] # NoRow /\ user[e].role = "ORG_OWNER" THEN 1 ELSE 0
  BY DEF OneOrganizationPerOwner
<1> DEFINE O == {s \in Slugs : org[s] # NoRow /\ org[s].owner = e}
<1>1. CASE IsOwner(e)
  <2>1. PICK s \in Slugs : Owns(e, s)
    BY <1>1 DEF AccountInv, OwnersApart
  <2>2. O = {s}
    BY <2>1 DEF AccountInv, OwnersApart, Owns
  <2>3. Cardinality(O) = 1
    BY <2>2, FS_Singleton
  <2>4. QED
    BY <1>1, <2>3 DEF IsOwner
<1>2. CASE ~IsOwner(e)
  <2>1. O = {}
    BY <1>2 DEF AccountInv, OwnersApart
  <2>2. Cardinality(O) = 0
    BY <2>1, FS_EmptySet
  <2>3. QED
    BY <1>2, <2>2 DEF IsOwner
<1>3. QED
  BY <1>1, <1>2

(***************************************************************************)
(* However verifications, registrations and the entry of staff overlap or  *)
(* fail, an owner has one organization and nobody else has any: a          *)
(* verification creates both, and no staff record makes a manager of an    *)
(* owner or an owner of a manager.                                         *)
(***************************************************************************)
THEOREM OwnersHaveOneOrganization == Spec => []OneOrganizationPerOwner
<1>1. TypeInv /\ AccountInv => OneOrganizationPerOwner
  BY OneOrganization
<1>2. QED
  BY <1>1, AccountInvariant, PTL

-----------------------------------------------------------------------------
(***************************************************************************)
(* Pictures.                                                               *)
(***************************************************************************)
LEMMA FilesInit == Init => FilesInv
  BY DEF Init, FilesInv, PicturesHaveFiles, Pictures, PictureFor, Uploading, UploadsApart

\* A step that writes to neither store and is not past an upload.
LEMMA FilesFrame ==
    ASSUME TypeInv, FilesInv, NEW q \in Requests, NEW r, req' = [req EXCEPT ![q] = r],
           UNCHANGED pictureVars, ~Uploading(r), PictureFor(r)
    PROVE  FilesInv'
<1>1. \A p \in Requests : req'[p] = IF p = q THEN r ELSE req[p]
  BY Parts DEF TypeInv
<1>2. PicturesHaveFiles'
  BY DEF FilesInv, PicturesHaveFiles, Pictures, pictureVars
<1>3. \A p \in Requests : PictureFor(req[p])'
  BY <1>1 DEF FilesInv, PictureFor, pictureVars, Uploading
<1>4. UploadsApart'
  BY <1>1 DEF FilesInv, UploadsApart, Uploading
<1>5. QED
  BY <1>2, <1>3, <1>4 DEF FilesInv

LEMMA GalleryStartFiles ==
    ASSUME TypeInv, FilesInv, NEW q \in Requests, GalleryStart(q)
    PROVE  FilesInv'
<1> USE DEF Begin, PictureFor, Uploading
<1>0. UNCHANGED pictureVars
  BY StartFrame DEF Start
<1>1. CASE UploadRead(q)
  BY <1>0, <1>1, FilesFrame, ZenonT(30) DEF UploadRead, Idle
<1>2. CASE CoverRead(q)
  BY <1>0, <1>2, FilesFrame, ZenonT(30) DEF CoverRead, Editable, Pictures
<1>3. CASE DeleteRead(q)
  BY <1>0, <1>3, FilesFrame DEF DeleteRead, Editable, Pictures
<1>4. QED
  BY <1>1, <1>2, <1>3 DEF GalleryStart

LEMMA GalleryStepFiles ==
    ASSUME TypeInv, FilesInv, NEW q \in Requests, GalleryStep(q)
    PROVE  FilesInv'
<1> USE DEF Continue, Answer, pictureVars
<1> DEFINE r == req[q]
<1>0. /\ Served(q) => r \in RequestRow
      /\ Stores
      /\ PictureFor(r)
      /\ NoRow \notin ImageRow /\ Gone \notin ImageRow /\ NoRow # Gone
      /\ \A p \in Requests : req[p] \in RequestRow \cup {Idle}
  BY Parts, AtRequest, RowKinds DEF TypeInv, FilesInv
\* Rows neither appear nor vanish but for i, and q is done.
<1>a. ASSUME NEW i \in Images, req' = [req EXCEPT ![q] = Idle],
             \A j \in Images \ {i} : /\ image'[j] = NoRow <=> image[j] = NoRow
                                     /\ image'[j] = Gone <=> image[j] = Gone,
             image'[i] \notin {NoRow, Gone}, i \in file, UNCHANGED file,
             image[i] # Gone,
             \A p \in Requests \ {q} : Uploading(req[p]) => req[p].image # i
      PROVE  FilesInv'
  <2>1. \A p \in Requests : req'[p] = IF p = q THEN Idle ELSE req[p]
    BY <1>a, Parts DEF TypeInv
  <2>2. PicturesHaveFiles'
    BY <1>a DEF FilesInv, PicturesHaveFiles, Pictures
  <2>3. ASSUME NEW p \in Requests PROVE PictureFor(req[p])'
    <3>1. CASE p = q
      BY <2>1, <3>1 DEF PictureFor, Uploading
    <3>2. CASE p # q
      <4>1. PictureFor(req[p]) /\ req'[p] = req[p] /\ req[p] \in RequestRow \cup {Idle}
        BY <1>0, <2>1, <3>2 DEF FilesInv
      <4>2. Uploading(req[p]) \/ (req[p] # Idle /\ req[p].op \in {"cover", "delete"}) \/
               req[p] = Idle \/ req[p].op \notin GalleryOps \/
               (req[p].op = "upload" /\ ~Uploading(req[p]))
        BY DEF GalleryOps
      <4>3. CASE Uploading(req[p])
        BY <1>a, <3>2, <4>1, <4>3, Requested DEF PictureFor, Uploading
      <4>4. CASE req[p] # Idle /\ req[p].op = "delete"
        BY <1>a, <4>1, <4>4, Requested DEF PictureFor, Uploading
      <4>5. CASE req[p] # Idle /\ req[p].op = "cover"
        <5>1. req[p].pc \in {"covers", "insert"}
          BY <4>1, <4>5 DEF RequestRow, RegistrationRequest, StaffingRequest, WorkspaceRequest,
             GalleryRequest, ReviewRequest, DrawsLink
        <5>2. req[p].image \in Images
          BY <4>1, <4>5, <5>1, Requested
        <5>3. QED
          BY <1>a, <4>1, <4>5, <5>2 DEF PictureFor, Uploading
      <4>6. QED
        BY <4>1, <4>2, <4>3, <4>4, <4>5 DEF PictureFor, GalleryOps, Uploading
    <3>3. QED
      BY <3>1, <3>2
  <2>4. UploadsApart'
    BY <2>1 DEF FilesInv, UploadsApart, Uploading
  <2>5. QED
    BY <2>2, <2>3, <2>4 DEF FilesInv
<1>1. CASE UploadStore(q)
  <2>1. PICK i \in FreshImages :
          /\ file' = file \cup {i}
          /\ req' = [req EXCEPT ![q] =
               [op |-> "upload", pc |-> IF r.cover THEN "covers" ELSE "insert",
                actor |-> r.actor, of |-> r.of, branch |-> r.branch,
                cover |-> r.cover, image |-> i, hits |-> {}]]
          /\ UNCHANGED image
    BY <1>1 DEF UploadStore
  <2> DEFINE next == [op |-> "upload", pc |-> IF r.cover THEN "covers" ELSE "insert",
                      actor |-> r.actor, of |-> r.of, branch |-> r.branch,
                      cover |-> r.cover, image |-> i, hits |-> {}]
  <2>2. \A p \in Requests : req'[p] = IF p = q THEN next ELSE req[p]
    BY <2>1, Parts DEF TypeInv
  <2>3. next.op = "upload" /\ next.image = i /\ image[i] = NoRow /\ i \notin file
    BY <2>1 DEF FreshImages
  <2> HIDE DEF next
  <2>4. PicturesHaveFiles'
    BY <2>1 DEF FilesInv, PicturesHaveFiles, Pictures
  <2>5. \A p \in Requests : PictureFor(req[p])'
    BY <2>1, <2>2, <2>3 DEF FilesInv, PictureFor, Uploading
  <2>6. UploadsApart'
    BY <2>2, <2>3 DEF FilesInv, UploadsApart, Uploading, PictureFor
  <2>7. QED
    BY <2>4, <2>5, <2>6 DEF FilesInv
<1>2. CASE ListCovers(q)
  <2>1. r \in [op: {"upload", "cover"}, pc: {"covers", "insert"}, actor: Emails,
               of: Branches \cup Rooms, branch: Branches, cover: BOOLEAN, image: Images,
               hits: SUBSET Images]
    BY <1>0, <1>2 DEF ListCovers, RequestRow, RegistrationRequest, StaffingRequest,
       WorkspaceRequest, GalleryRequest, ReviewRequest, DrawsLink
  <2> DEFINE next == [r EXCEPT !.pc = "insert", !.hits = CoversOf(r.of) \ {r.image}]
  <2>2. next.op = r.op /\ next.image = r.image /\ next.pc = "insert"
    BY <2>1
  <2>3. next # Idle /\ r # Idle /\ r.pc = "covers"
    BY <1>0, <1>2, <2>2 DEF ListCovers, Served, Idle
  <2>4. /\ \A p \in Requests : req'[p] = IF p = q THEN next ELSE req[p]
        /\ UNCHANGED <<image, file>>
    BY <1>2, Parts DEF TypeInv, ListCovers
  <2> HIDE DEF next
  <2>5. Uploading(next) <=> Uploading(r)
    BY <2>2, <2>3 DEF Uploading
  <2>6. PictureFor(next)
    BY <1>0, <2>1, <2>2, <2>3, <2>5 DEF PictureFor
  <2>7. \A p \in Requests : PictureFor(req[p])'
    BY <2>4, <2>6 DEF FilesInv, PictureFor, Uploading
  <2>8. UploadsApart'
    BY <2>2, <2>4, <2>5 DEF FilesInv, UploadsApart, Uploading
  <2>9. PicturesHaveFiles'
    BY <2>4 DEF FilesInv, PicturesHaveFiles, Pictures
  <2>10. QED
    BY <2>7, <2>8, <2>9 DEF FilesInv
<1>3. CASE UploadInsert(q)
  <2>1. /\ r.of \in Branches \cup Rooms /\ r.cover \in BOOLEAN
        /\ r.image \in Images /\ r.hits \in SUBSET Images
        /\ Uploading(r)
    BY <1>0, <1>3, Requested DEF UploadInsert, At, Uploading, Served
  <2>2. r.image \in file /\ image[r.image] = NoRow
    BY <1>0, <2>1 DEF PictureFor
  <2>3. \A p \in Requests \ {q} : Uploading(req[p]) => req[p].image # r.image
    BY <2>1 DEF FilesInv, UploadsApart
  <2>4. [of |-> r.of, cover |-> r.cover] \in ImageRow
    BY <2>1 DEF ImageRow
  <2>5. /\ image'[r.image] \notin {NoRow, Gone}
        /\ \A j \in Images \ {r.image} : image'[j] = Uncovered(r.hits)[j]
    BY <1>0, <1>3, <2>1, <2>4, UncoveredTypes DEF UploadInsert
  <2>6. QED
    BY <1>0, <1>3, <1>a, <2>1, <2>2, <2>3, <2>5, UncoveredTypes DEF UploadInsert
<1>4. CASE CoverWrite(q)
  <2>1. /\ r.cover \in BOOLEAN /\ r.image \in Images /\ r.hits \in SUBSET Images
    BY <1>0, <1>4, Requested DEF CoverWrite, At
  <2>2. CASE r.image \in Pictures
    <3>1. Uncovered(r.hits)[r.image] \in ImageRow
      BY <1>0, <2>1, <2>2, UncoveredTypes DEF Stores, Pictures
    <3>2. [Uncovered(r.hits)[r.image] EXCEPT !.cover = r.cover] \in ImageRow
      BY <2>1, <3>1 DEF ImageRow
    <3>3. /\ image'[r.image] \notin {NoRow, Gone}
          /\ \A j \in Images \ {r.image} : image'[j] = Uncovered(r.hits)[j]
      BY <1>0, <1>4, <2>1, <2>2, <3>2, UncoveredTypes DEF CoverWrite
    <3>4. r.image \in file /\ image[r.image] \notin {NoRow, Gone}
      BY <2>2 DEF FilesInv, PicturesHaveFiles, Pictures
    <3>5. \A p \in Requests : Uploading(req[p]) => req[p].image # r.image
      BY <3>4 DEF FilesInv, PictureFor
    <3>6. QED
      BY <1>4, <1>a, <2>1, <3>3, <3>4, <3>5, UncoveredTypes, ZenonT(30) DEF CoverWrite
  <2>3. CASE r.image \notin Pictures
    BY <1>4, <2>3, FilesFrame DEF CoverWrite, PictureFor, Uploading
  <2>4. QED
    BY <2>2, <2>3
<1>5. CASE DeleteRow(q)
  <2>1. /\ r \in [op: {"delete"}, pc: {"row", "file"}, actor: Emails, branch: Branches,
                  image: Images]
        /\ r.image \in Images
    BY <1>0, <1>5 DEF DeleteRow, At, RequestRow, RegistrationRequest, StaffingRequest,
       WorkspaceRequest, GalleryRequest, ReviewRequest, DrawsLink
  <2>2. CASE r.image \notin Pictures
    BY <1>5, <2>2, FilesFrame DEF DeleteRow, PictureFor, Uploading
  <2>3. CASE r.image \in Pictures
    <3> DEFINE next == [r EXCEPT !.pc = "file"]
    <3>1. next.op = "delete" /\ next.image = r.image
      BY <2>1
    <3>2. /\ \A p \in Requests : req'[p] = IF p = q THEN next ELSE req[p]
          /\ \A i \in Images : image'[i] = IF i = r.image THEN Gone ELSE image[i]
          /\ UNCHANGED file
      BY <1>0, <1>5, <2>1, <2>3, Parts DEF DeleteRow, Goto, TypeInv, Stores
    <3> HIDE DEF next
    <3>3. PicturesHaveFiles'
      BY <3>2 DEF FilesInv, PicturesHaveFiles, Pictures
    <3>4. ASSUME NEW p \in Requests PROVE PictureFor(req[p])'
      <4>1. CASE p = q
        BY <1>0, <2>1, <3>1, <3>2, <4>1 DEF PictureFor, Uploading
      <4>2. CASE p # q
        <5>1. PictureFor(req[p]) /\ req'[p] = req[p] /\ req[p] \in RequestRow \cup {Idle}
          BY <1>0, <3>2, <4>2 DEF FilesInv
        <5>2. Uploading(req[p]) => req[p].image \in Images /\ req[p].image # r.image
          BY <2>3, <5>1, Requested DEF PictureFor, Uploading, Pictures
        <5>3. req[p] # Idle /\ req[p].op = "cover" => req[p].image \in Images
          BY <5>1, Requested DEF RequestRow, RegistrationRequest, StaffingRequest,
             WorkspaceRequest, GalleryRequest, ReviewRequest, DrawsLink
        <5>4. req[p] # Idle /\ req[p].op = "delete" => req[p].image \in Images
          BY <5>1, Requested
        <5>5. QED
          BY <1>0, <3>2, <5>1, <5>2, <5>3, <5>4 DEF PictureFor, Uploading
      <4>3. QED
        BY <4>1, <4>2
    <3>5. UploadsApart'
      BY <3>1, <3>2 DEF FilesInv, UploadsApart, Uploading
    <3>6. QED
      BY <3>3, <3>4, <3>5 DEF FilesInv
  <2>4. QED
    BY <2>2, <2>3
<1>6. CASE DeleteFile(q)
  <2>1. /\ \A p \in Requests : req'[p] = IF p = q THEN Idle ELSE req[p]
        /\ file' = file \ {r.image} /\ UNCHANGED image
    BY <1>6, Parts DEF DeleteFile, TypeInv
  <2>2. image[r.image] = Gone
    BY <1>0, <1>6 DEF PictureFor, DeleteFile, At, Served
  <2>3. PicturesHaveFiles'
    BY <2>1, <2>2 DEF FilesInv, PicturesHaveFiles, Pictures
  <2>4. \A p \in Requests : PictureFor(req[p])'
    BY <1>0, <2>1, <2>2 DEF FilesInv, PictureFor, Uploading
  <2>5. UploadsApart'
    BY <2>1 DEF FilesInv, UploadsApart, Uploading
  <2>6. QED
    BY <2>3, <2>4, <2>5 DEF FilesInv
<1>7. QED
  BY <1>1, <1>2, <1>3, <1>4, <1>5, <1>6 DEF GalleryStep

LEMMA FilesStep == TypeInv /\ FilesInv /\ [Next]_vars => FilesInv'
<1> SUFFICES ASSUME TypeInv, FilesInv, [Next]_vars PROVE FilesInv'
  OBVIOUS
<1>0. ASSUME UNCHANGED <<pictureVars, req>> PROVE FilesInv'
  BY <1>0 DEF FilesInv, PicturesHaveFiles, Pictures, PictureFor, Uploading, UploadsApart,
     pictureVars
<1>1. ASSUME NEW q \in Requests, Start(q) \/ Step(q) \/ Fail(q),
             req'[q] = Idle \/ req'[q].op \notin GalleryOps, UNCHANGED pictureVars
      PROVE  FilesInv'
  <2>1. \A p \in Requests : /\ p # q => req'[p] = req[p]
                             /\ ~Uploading(req'[q])
    BY <1>1, OneSlot DEF GalleryOps, Uploading
  <2>2. PicturesHaveFiles'
    BY <1>1 DEF FilesInv, PicturesHaveFiles, Pictures, pictureVars
  <2>3. \A p \in Requests : PictureFor(req[p])'
    BY <1>1, <2>1 DEF FilesInv, PictureFor, GalleryOps, Uploading, pictureVars
  <2>4. UploadsApart'
    BY <2>1 DEF FilesInv, UploadsApart, Uploading
  <2>5. QED
    BY <2>2, <2>3, <2>4 DEF FilesInv
<1>2. ASSUME NEW q \in Requests, Start(q) PROVE FilesInv'
  <2>1. CASE GalleryStart(q)
    BY <2>1, GalleryStartFiles
  <2>2. CASE ~GalleryStart(q)
    <3>1. req'[q] = Idle \/ req'[q].op \notin GalleryOps
      BY <1>2, <2>2, StartOps DEF Start, InOps, RegistrationOps, StaffingOps, WorkspaceOps,
         GalleryOps, ReviewOps
    <3>2. QED
      BY <1>1, <1>2, <3>1, StartFrame
  <2>3. QED
    BY <2>1, <2>2
<1>3. ASSUME NEW q \in Requests, Step(q) \/ Fail(q) PROVE FilesInv'
  <2>1. CASE GalleryStep(q)
    BY <2>1, GalleryStepFiles
  <2>2. CASE ~GalleryStep(q)
    <3>1. req'[q] = Idle \/ req'[q].op \notin GalleryOps
      BY <1>3, <2>2, StepOps DEF Step, InOps, RegistrationOps, StaffingOps, WorkspaceOps,
         GalleryOps, ReviewOps
    <3>2. QED
      BY <1>1, <1>3, <2>2, <3>1, PictureFrame DEF Step
  <2>3. QED
    BY <2>1, <2>2
<1>4. CASE World
  BY <1>0, <1>4, WorldFrame
<1>5. CASE UNCHANGED vars
  BY <1>0, <1>5 DEF vars
<1>6. QED
  BY <1>2, <1>3, <1>4, <1>5 DEF Next

(***************************************************************************)
(* Two stores, no transaction around both: however uploads, updates and    *)
(* deletions overlap or die, every picture that is listed has its file.    *)
(***************************************************************************)
THEOREM ListedPicturesHaveFiles == Spec => []PicturesHaveFiles
<1>1. FilesInv => PicturesHaveFiles
  BY DEF FilesInv
<1>2. QED
  BY <1>1, TypeInit, TypeStep, FilesInit, FilesStep, PTL DEF Spec
==============================================================================
