------------------------- MODULE BackOfficeTurnProofs -------------------------
(***************************************************************************)
(* What holds in the back office while requests take turns.  Then what a   *)
(* request has read is still so when it writes; Knows... say what it has   *)
(* read, for each component.                                               *)
(***************************************************************************)
EXTENDS BackOfficeProofs

OneRequest == \A p, q \in Requests : Served(p) /\ Served(q) => p = q

Turns == clients.turns => OneRequest

\* What the message that carries a waiting registration's link says.
MailTrue ==
    \A l \in Links, e \in Emails :
        mail[l] # NoRow /\ pending[e] # NoRow /\ pending[e].link = l
            => mail[l] = [to |-> e, slug |-> pending[e].slug]

PendingOpen ==
    \A e \in Emails :
        pending[e] # NoRow =>
            org[pending[e].slug] = NoRow /\ (user[e] = NoRow \/ staff[e] # NoRow)

BranchGiven ==
    \A e \in Emails :
        staff[e] # NoRow /\ staff[e].role \in BranchScoped => staff[e].branch # Null

\* What a request of a registration or of the staff desk still goes by.
KnowsAccount(r) ==
    /\ r.op = "register" /\ r.pc \in {"pending", "write"} =>
          user[r.email] = NoRow /\ org[r.slug] = NoRow
    /\ r.op = "resend" /\ r.pc = "pending" =>
          pending[r.email] # NoRow /\ pending[r.email].slug = r.slug
    /\ r.op \in DrawsLink /\ r.pc = "mail" =>
          \A f \in Emails :
              pending[f] # NoRow /\ pending[f].link = r.link =>
                  f = r.email /\ pending[f].slug = r.slug
    /\ r.op = "verify" /\ r.pc = "commit" =>
          /\ mail[r.link] # NoRow
          /\ pending[r.email] # NoRow
          /\ pending[r.email].link = r.link /\ pending[r.email].slug = r.slug
    /\ r.op = "hire" => (r.role \in BranchScoped => r.branch # Null)
    /\ r.op = "staff" =>
          (Merge(r.role, staff[r.email].role) \in BranchScoped =>
              Merge(r.branch, staff[r.email].branch) # Null)

AccountFacts == MailTrue /\ PendingOpen /\ BranchGiven

AccountTurns ==
    clients.turns => AccountFacts /\ \A q \in Requests : KnowsAccount(req[q])

-----------------------------------------------------------------------------
(***************************************************************************)
(* Taking turns.                                                           *)
(***************************************************************************)
LEMMA StepServed ==
    ASSUME NEW q \in Requests, Step(q) \/ Fail(q)
    PROVE  Served(q)
  BY DEF Step, Fail, RegistrationStep, RegisterPending, RegisterWrite, SendMail,
     ResendPending, ResendUser, VerifyCommit, VerifyUser, StaffingStep, StaffCreateInsert,
     StaffUpdateWrite, WorkspaceStep, BranchCreateCount, BranchCreateInsert,
     BranchUpdateWrite, ListWrite, ArchiveWrite, RoomCreateCount, RoomCreateInsert,
     GalleryStep, UploadStore, ListCovers, UploadInsert, CoverWrite, DeleteRow, DeleteFile,
     ReviewStep, ReplyWrite, PublishWrite, At

\* clients is fixed once and for all.
LEMMA ClientsFrame == [Next]_vars => UNCHANGED clients
<1> SUFFICES ASSUME [Next]_vars PROVE UNCHANGED clients
  OBVIOUS
<1>1. ASSUME NEW q \in Requests, Start(q) PROVE UNCHANGED clients
  BY <1>1, StartFrame
<1>2. ASSUME NEW q \in Requests, Step(q) \/ Fail(q) PROVE UNCHANGED clients
  BY <1>2 DEF Step, Fail, RegistrationStep, RegisterPending, RegisterWrite, SendMail,
     ResendPending, ResendUser, VerifyCommit, VerifyUser, StaffingStep, StaffCreateInsert,
     StaffUpdateWrite, WorkspaceStep, BranchCreateCount, BranchCreateInsert,
     BranchUpdateWrite, ListWrite, ArchiveWrite, RoomCreateCount, RoomCreateInsert,
     GalleryStep, UploadStore, ListCovers, UploadInsert, CoverWrite, DeleteRow, DeleteFile,
     ReviewStep, ReplyWrite, PublishWrite, Goto, Answer, Continue
<1>3. QED
  BY <1>1, <1>2, WorldFrame DEF Next, vars

\* While requests take turns, the one that steps or begins is alone.
LEMMA Alone ==
    ASSUME TypeInv, Turns, clients.turns, NEW q \in Requests, Start(q) \/ Step(q) \/ Fail(q)
    PROVE  \A p \in Requests \ {q} : req[p] = Idle /\ req'[p] = Idle
<1>1. ASSUME NEW p \in Requests \ {q} PROVE ~Served(p)
  BY StartFrame, StepServed DEF Turns, OneRequest, AtRest
<1>2. QED
  BY <1>1, OneSlot DEF Served

LEMMA TurnsStep == TypeInv /\ Turns /\ [Next]_vars => Turns'
<1> SUFFICES ASSUME TypeInv, Turns, [Next]_vars, clients.turns' PROVE OneRequest'
  BY DEF Turns
<1>0. clients.turns
  BY ClientsFrame
<1>1. ASSUME NEW q \in Requests, Start(q) \/ Step(q) \/ Fail(q) PROVE OneRequest'
  BY <1>0, <1>1, Alone DEF OneRequest, Served
<1>2. CASE UNCHANGED req
  BY <1>0, <1>2 DEF Turns, OneRequest, Served
<1>3. QED
  BY <1>1, <1>2, WorldFrame DEF Next, vars

-----------------------------------------------------------------------------
(***************************************************************************)
(* Accounts.                                                               *)
(***************************************************************************)
LEMMA IdleKnowsAccount == KnowsAccount(Idle)
  BY DEF KnowsAccount, Idle, DrawsLink

LEMMA AccountStarts ==
    ASSUME TypeInv, AccountTurns, clients.turns, NEW q \in Requests, Start(q)
    PROVE  KnowsAccount(req[q])'
<1> USE DEF Begin, KnowsAccount, DrawsLink
<1>0. /\ UNCHANGED <<pending, user, org, mail, staff>>
      /\ req \in [Requests -> RequestRow \cup {Idle}]
  BY StartFrame, Parts DEF TypeInv, accountVars
<1>1. CASE RegistrationStart(q)
  <2>1. CASE RegisterLook(q)
    BY <1>0, <2>1 DEF RegisterLook
  <2>2. CASE ResendRead(q)
    BY <1>0, <2>2 DEF ResendRead
  <2>3. CASE VerifyRead(q)
    BY <1>0, <2>3 DEF VerifyRead
  <2>4. QED
    BY <1>1, <2>1, <2>2, <2>3 DEF RegistrationStart
<1>2. CASE StaffingStart(q)
  <2>1. CASE StaffCreateRead(q)
    BY <1>0, <2>1 DEF StaffCreateRead, ValidAssignment
  <2>2. CASE StaffUpdateRead(q)
    BY <1>0, <2>2 DEF StaffUpdateRead, ValidAssignment
  <2>3. QED
    BY <1>2, <2>1, <2>2 DEF StaffingStart
<1>3. CASE WorkspaceStart(q) \/ GalleryStart(q) \/ ReviewStart(q)
  BY <1>3, StartOps DEF InOps, WorkspaceOps, GalleryOps, ReviewOps, Idle
<1>4. QED
  BY <1>1, <1>2, <1>3 DEF Start

LEMMA RegistrationTurns ==
    ASSUME TypeInv, AccountInv, AccountTurns, clients.turns, NEW q \in Requests,
           RegistrationStep(q)
    PROVE  AccountFacts' /\ KnowsAccount(req[q])'
<1> DEFINE e == req[q].email
<1> USE DEF Continue, Answer
<1>0. /\ Served(q) => req[q] \in RequestRow /\ RowFor(req[q])
      /\ Stores
      /\ NoRow \notin UserRow /\ NoRow \notin OrgRow /\ NoRow \notin PendingRow
      /\ \A f \in Emails : staff[f] # NoRow => user[f] # NoRow
      /\ req \in [Requests -> RequestRow \cup {Idle}]
      /\ AccountFacts /\ KnowsAccount(req[q])
      /\ \A f \in Emails : pending[f] # NoRow => pending[f] \in PendingRow
  BY Parts, AtRequest, RowKinds DEF TypeInv, RowsThere, AccountTurns, Stores
<1>i. req'[q] = Idle => KnowsAccount(req[q])'
  BY DEF KnowsAccount, Idle, DrawsLink
<1>1. CASE RegisterPending(q)
  <2>1. UNCHANGED <<pending, user, org, mail, staff>>
    BY <1>1 DEF RegisterPending, accountVars
  <2>2. AccountFacts'
    BY <1>0, <2>1 DEF AccountFacts, MailTrue, PendingOpen, BranchGiven
  <2>3. e \in Emails /\ user[e] = NoRow /\ org[req[q].slug] = NoRow
    BY <1>0, <1>1, Requested DEF RegisterPending, At, KnowsAccount
  <2>4. \/ req'[q] = Idle
        \/ \E id : req'[q] = [op |-> "register", pc |-> "write", email |-> e,
                              slug |-> req[q].slug, id |-> id]
    BY <1>0, <1>1 DEF RegisterPending
  <2>5. ASSUME NEW id, req'[q] = [op |-> "register", pc |-> "write", email |-> e,
                                  slug |-> req[q].slug, id |-> id]
        PROVE  KnowsAccount(req[q])'
    BY <2>1, <2>3, <2>5 DEF KnowsAccount
  <2>6. QED
    BY <1>i, <2>2, <2>4, <2>5
<1>2. CASE RegisterWrite(q)
  <2>1. /\ e \in Emails /\ req[q].slug \in Slugs
        /\ user[e] = NoRow /\ org[req[q].slug] = NoRow
    BY <1>0, <1>2, Requested DEF RegisterWrite, At, KnowsAccount
  <2>2. CASE UNCHANGED pending /\ Answer(q)
    <3>1. AccountFacts'
      BY <1>0, <1>2, <2>2 DEF RegisterWrite, AccountFacts, MailTrue, PendingOpen, BranchGiven
    <3>2. QED
      BY <1>0, <1>i, <2>2, <3>1
  <2>3. CASE ~(UNCHANGED pending /\ Answer(q))
    <3>1. PICK l \in FreshLinks :
            /\ pending' = [pending EXCEPT ![e] =
                             [id |-> IF req[q].id = Null /\ pending[e] = NoRow THEN l
                                     ELSE req[q].id,
                              slug |-> req[q].slug, link |-> l]]
            /\ req' = [req EXCEPT ![q] = [op |-> "register", pc |-> "mail", email |-> e,
                                          slug |-> req[q].slug, link |-> l]]
      BY <1>2, <2>3 DEF RegisterWrite
    <3>2. UNCHANGED <<user, org, mail, staff>>
      BY <1>2 DEF RegisterWrite
    <3>3. /\ \A f \in Emails \ {e} : pending'[f] = pending[f]
          /\ pending'[e].slug = req[q].slug /\ pending'[e].link = l
      BY <1>0, <2>1, <3>1 DEF Stores
    <3>4. /\ mail[l] = NoRow
          /\ \A f \in Emails : pending[f] # NoRow => pending[f].link # l
      BY <3>1 DEF FreshLinks
    <3>5. AccountFacts'
      BY <1>0, <2>1, <3>2, <3>3, <3>4 DEF AccountFacts, MailTrue, PendingOpen, BranchGiven
    <3>6. req'[q] = [op |-> "register", pc |-> "mail", email |-> e,
                     slug |-> req[q].slug, link |-> l]
      BY <1>0, <3>1
    <3>7. KnowsAccount(req[q])'
      BY <3>3, <3>4, <3>6 DEF KnowsAccount
    <3>8. QED
      BY <3>5, <3>7
  <2>4. QED
    BY <2>2, <2>3
<1>3. CASE SendMail(q)
  <2> DEFINE l == req[q].link
  <2>1. e \in Emails /\ l \in Links
    BY <1>0, <1>3, Requested DEF SendMail
  <2>2. \A f \in Emails : pending[f] # NoRow /\ pending[f].link = l =>
                            f = e /\ pending[f].slug = req[q].slug
    BY <1>0, <1>3 DEF SendMail, KnowsAccount
  <2>3. /\ \A k \in Links : mail'[k] = IF k = l THEN [to |-> e, slug |-> req[q].slug] ELSE mail[k]
        /\ UNCHANGED <<pending, user, org, staff>>
        /\ req'[q] = Idle
    BY <1>0, <1>3 DEF SendMail, Stores
  <2>4. AccountFacts'
    BY <1>0, <2>2, <2>3 DEF AccountFacts, MailTrue, PendingOpen, BranchGiven
  <2>5. QED
    BY <1>i, <2>3, <2>4
<1>4. CASE ResendPending(q)
  <2>1. e \in Emails /\ pending[e] # NoRow /\ pending[e].slug = req[q].slug
    BY <1>0, <1>4, Requested DEF ResendPending, At, KnowsAccount
  <2>2. CASE UNCHANGED pending /\ Answer(q)
    <3>1. AccountFacts'
      BY <1>0, <1>4, <2>2 DEF ResendPending, AccountFacts, MailTrue, PendingOpen, BranchGiven
    <3>2. QED
      BY <1>0, <1>i, <2>2, <3>1
  <2>3. CASE ~(UNCHANGED pending /\ Answer(q))
    <3>1. PICK l \in FreshLinks :
            /\ pending' = [pending EXCEPT ![e].link = l]
            /\ req' = [req EXCEPT ![q] = [op |-> "resend", pc |-> "mail", email |-> e,
                                          slug |-> req[q].slug, link |-> l]]
      BY <1>4, <2>3 DEF ResendPending
    <3>2. UNCHANGED <<user, org, mail, staff>>
      BY <1>4 DEF ResendPending
    <3>3. /\ \A f \in Emails \ {e} : pending'[f] = pending[f]
          /\ pending'[e].slug = req[q].slug /\ pending'[e].link = l
      BY <1>0, <2>1, <3>1 DEF Stores, PendingRow
    <3>4. /\ mail[l] = NoRow
          /\ \A f \in Emails : pending[f] # NoRow => pending[f].link # l
      BY <3>1 DEF FreshLinks
    <3>5. AccountFacts'
      BY <1>0, <2>1, <3>2, <3>3, <3>4 DEF AccountFacts, MailTrue, PendingOpen, BranchGiven
    <3>6. req'[q] = [op |-> "resend", pc |-> "mail", email |-> e,
                     slug |-> req[q].slug, link |-> l]
      BY <1>0, <3>1
    <3>7. KnowsAccount(req[q])'
      BY <3>3, <3>4, <3>6 DEF KnowsAccount
    <3>8. QED
      BY <3>5, <3>7
  <2>4. QED
    BY <2>2, <2>3
<1>5. CASE ResendUser(q)
  <2>1. e \in Emails /\ user[e] \in UserRow
    BY <1>0, <1>5, Requested DEF ResendUser, At, RowFor, Stores
  <2>2. PICK l \in FreshLinks :
          /\ user' = [user EXCEPT ![e].link = l]
          /\ req' = [req EXCEPT ![q] = [op |-> "resend", pc |-> "mail", email |-> e,
                                        slug |-> Null, link |-> l]]
    BY <1>5 DEF ResendUser
  <2>3. \A f \in Emails : user'[f] = NoRow => user[f] = NoRow
    BY <1>0, <2>1, <2>2 DEF Stores, UserRow, NoRow
  <2>4. \A f \in Emails : user[f] = NoRow => user'[f] = NoRow
    BY <1>0, <2>1, <2>2 DEF Stores
  <2>5. UNCHANGED <<pending, org, mail, staff>>
    BY <1>5 DEF ResendUser
  <2>6. AccountFacts'
    BY <1>0, <2>3, <2>4, <2>5 DEF AccountFacts, MailTrue, PendingOpen, BranchGiven
  <2>7. \A f \in Emails : pending[f] # NoRow => pending[f].link # l
    BY <2>2 DEF FreshLinks
  <2>8. req'[q] = [op |-> "resend", pc |-> "mail", email |-> e, slug |-> Null, link |-> l]
    BY <1>0, <2>2
  <2>9. KnowsAccount(req[q])'
    BY <2>5, <2>7, <2>8 DEF KnowsAccount
  <2>10. QED
    BY <2>6, <2>9
<1>6. CASE VerifyCommit(q)
  <2>1. req'[q] = Idle
    BY <1>0, <1>6 DEF VerifyCommit
  <2>2. CASE UNCHANGED <<pending, user, org>>
    <3>1. AccountFacts'
      BY <1>0, <1>6, <2>2 DEF VerifyCommit, AccountFacts, MailTrue, PendingOpen, BranchGiven
    <3>2. QED
      BY <1>i, <2>1, <3>1
  <2>3. CASE ~UNCHANGED <<pending, user, org>>
    <3> DEFINE s == req[q].slug
    <3>1. /\ user' = [user EXCEPT ![e] = OwnerRow]
          /\ org' = [org EXCEPT ![s] = OrgOf(e, TrialPlan)]
          /\ pending' = [pending EXCEPT ![e] = NoRow]
          /\ UNCHANGED <<mail, staff>>
      BY <1>6, <2>3 DEF VerifyCommit
    <3>2. e \in Emails /\ pending[e] # NoRow /\ pending[e].slug = s
      BY <1>0, <1>6, Requested DEF VerifyCommit, At, KnowsAccount
    <3>3. /\ pending'[e] = NoRow
          /\ \A f \in Emails \ {e} : pending'[f] = pending[f] /\ user'[f] = user[f]
          /\ \A x \in Slugs \ {s} : org'[x] = org[x]
      BY <1>0, <3>1, <3>2 DEF Stores
    <3>4. \A f \in Emails \ {e} : pending[f] # NoRow =>
                                    pending[f].slug # s /\ pending[f].slug \in Slugs
      BY <1>0, <3>2 DEF AccountInv, SlugsApart, PendingRow
    <3>5. AccountFacts'
      BY <1>0, <3>1, <3>3, <3>4 DEF AccountFacts, MailTrue, PendingOpen, BranchGiven
    <3>6. QED
      BY <1>i, <2>1, <3>5
  <2>4. QED
    BY <2>2, <2>3
<1>7. CASE VerifyUser(q)
  <2>1. e \in Emails /\ user[e] \in UserRow
    BY <1>0, <1>7, Requested DEF VerifyUser, At, RowFor, Stores
  <2>2. \A f \in Emails : user'[f] = NoRow => user[f] = NoRow
    BY <1>0, <1>7, <2>1 DEF VerifyUser, Stores, UserRow, NoRow
  <2>3. \A f \in Emails : user[f] = NoRow => user'[f] = NoRow
    BY <1>0, <1>7, <2>1 DEF VerifyUser, Stores
  <2>4. AccountFacts'
    BY <1>0, <1>7, <2>2, <2>3 DEF VerifyUser, AccountFacts, MailTrue, PendingOpen, BranchGiven
  <2>5. QED
    BY <1>0, <1>7, <1>i, <2>4 DEF VerifyUser
<1>8. QED
  BY <1>1, <1>2, <1>3, <1>4, <1>5, <1>6, <1>7 DEF RegistrationStep

LEMMA StaffingTurns ==
    ASSUME TypeInv, AccountTurns, clients.turns, NEW q \in Requests, StaffingStep(q)
    PROVE  AccountFacts'
<1> DEFINE e == req[q].email
           dto == req[q]
<1>0. /\ Served(q) => req[q] \in RequestRow /\ RowFor(req[q])
      /\ Stores
      /\ NoRow \notin UserRow /\ NoRow \notin StaffRow
      /\ \A f \in Emails : staff[f] # NoRow => user[f] # NoRow
      /\ AccountFacts /\ KnowsAccount(req[q])
  BY Parts, AtRequest, RowKinds DEF TypeInv, RowsThere, AccountTurns
\* No account disappears, and a new one is on the staff.
<1>a. ASSUME UNCHANGED <<pending, org, mail>>, BranchGiven',
             \A f \in Emails : /\ user'[f] = NoRow \/ user[f] # NoRow \/ staff'[f] # NoRow
                               /\ staff[f] # NoRow => staff'[f] # NoRow
      PROVE  AccountFacts'
  BY <1>0, <1>a DEF AccountFacts, MailTrue, PendingOpen
<1>1. CASE StaffCreateInsert(q)
  <2>1. CASE UNCHANGED <<user, staff>>
    BY <1>0, <1>1, <2>1 DEF StaffCreateInsert, AccountFacts, MailTrue, PendingOpen, BranchGiven
  <2>2. CASE ~UNCHANGED <<user, staff>>
    <3> DEFINE member == [role |-> dto.role, active |-> TRUE, branch |-> dto.branch]
    <3>1. e \in Emails /\ (dto.role \in BranchScoped => dto.branch # Null)
      BY <1>0, <1>1, Requested DEF StaffCreateInsert, At, KnowsAccount
    <3>2. /\ \A f \in Emails \ {e} : user'[f] = user[f] /\ staff'[f] = staff[f]
          /\ staff'[e] = member /\ member # NoRow
          /\ UNCHANGED <<pending, org, mail>>
      BY <1>0, <1>1, <2>2, <3>1 DEF StaffCreateInsert, Stores, NoRow
    <3>3. BranchGiven'
      BY <1>0, <3>1, <3>2 DEF AccountFacts, BranchGiven
    <3>4. QED
      BY <1>a, <3>1, <3>2, <3>3
  <2>3. QED
    BY <2>1, <2>2
<1>2. CASE StaffUpdateWrite(q)
  <2> DEFINE member == [role   |-> Merge(dto.role, staff[e].role),
                        branch |-> Merge(dto.branch, staff[e].branch),
                        active |-> Merge(dto.active, staff[e].active)]
  <2>1. /\ e \in Emails /\ staff[e] # NoRow
        /\ member.role \in BranchScoped => member.branch # Null
    BY <1>0, <1>2, Requested DEF StaffUpdateWrite, At, KnowsAccount, RowFor
  <2>2. /\ \A f \in Emails \ {e} : user'[f] = user[f] /\ staff'[f] = staff[f]
        /\ staff'[e] = member /\ member # NoRow
        /\ UNCHANGED <<pending, org, mail>>
    BY <1>0, <1>2, <2>1 DEF StaffUpdateWrite, Stores, NoRow
  <2>3. BranchGiven'
    BY <1>0, <2>1, <2>2 DEF AccountFacts, BranchGiven
  <2>4. QED
    BY <1>a, <2>1, <2>2, <2>3
<1>3. QED
  BY <1>1, <1>2 DEF StaffingStep

LEMMA WorldTurns ==
    ASSUME TypeInv, AccountTurns, clients.turns, World
    PROVE  AccountFacts'
<1>0. /\ Stores
      /\ NoRow \notin UserRow /\ NoRow \notin StaffRow /\ NoRow \notin OrgRow
      /\ \A f \in Emails : staff[f] # NoRow => user[f] # NoRow
      /\ org[Home] # NoRow
      /\ AccountFacts
      /\ UNCHANGED <<pending, mail>>
      /\ \A f \in Emails : pending[f] # NoRow => pending[f].slug \in Slugs
  BY Parts, RowKinds, WorldFrame DEF TypeInv, RowsThere, AccountTurns, Stores, PendingRow
<1>a. ASSUME \A f \in Emails : user'[f] = NoRow <=> user[f] = NoRow,
             \A f \in Emails : staff'[f] = NoRow <=> staff[f] = NoRow,
             \A f \in Emails : staff[f] # NoRow =>
                 staff'[f].role = staff[f].role /\ staff'[f].branch = staff[f].branch,
             \A s \in Slugs : org'[s] = NoRow <=> org[s] = NoRow
      PROVE  AccountFacts'
  BY <1>0, <1>a DEF AccountFacts, MailTrue, PendingOpen, BranchGiven
<1>1. ASSUME NEW a \in Emails, NEW e \in Emails, NEW active \in BOOLEAN,
             StaffToggle(a, e, active)
      PROVE  AccountFacts'
  BY <1>0, <1>1, <1>a DEF StaffToggle, Stores, UserRow, StaffRow, NoRow
<1>2. ASSUME NEW e \in Emails, NEW active \in BOOLEAN, UserToggle(e, active)
      PROVE  AccountFacts'
  BY <1>0, <1>2, <1>a DEF UserToggle, Stores, UserRow, NoRow
<1>3. ASSUME NEW a \in Emails, NEW p \in Plans, Upgrade(a, p) PROVE AccountFacts'
  BY <1>0, <1>3, <1>a, HomeAssumption DEF Upgrade, Stores, OrgRow, NoRow
<1>4. ASSUME NEW s \in Slugs, NEW open \in BOOLEAN, SetOrgStatus(s, open) PROVE AccountFacts'
  BY <1>0, <1>4, <1>a DEF SetOrgStatus, Stores, OrgRow, NoRow
<1>5. ASSUME NEW a \in Emails, NEW r \in Rooms, RoomRemove(a, r) PROVE AccountFacts'
  BY <1>5, <1>a DEF RoomRemove, accountVars
<1>6. ASSUME NEW v \in Reviews, NEW b \in Branches, ReviewArrives(v, b) PROVE AccountFacts'
  BY <1>6, <1>a DEF ReviewArrives, accountVars
<1>7. QED
  BY <1>1, <1>2, <1>3, <1>4, <1>5, <1>6 DEF World, Toggles, WorkspaceWrites

LEMMA AccountTurnsInit == Init => AccountTurns
  BY IdleKnowsAccount DEF Init, AccountTurns, AccountFacts, MailTrue, PendingOpen, BranchGiven

LEMMA AccountTurnsStep ==
    TypeInv /\ AccountInv /\ Turns /\ AccountTurns /\ [Next]_vars => AccountTurns'
<1> SUFFICES ASSUME TypeInv, AccountInv, Turns, AccountTurns, [Next]_vars, clients.turns'
             PROVE  AccountFacts' /\ \A q \in Requests : KnowsAccount(req[q])'
  BY DEF AccountTurns
<1>0. clients.turns
  BY ClientsFrame
<1>a. ASSUME UNCHANGED <<accountVars, staff>> PROVE AccountFacts'
  BY <1>0, <1>a DEF AccountTurns, AccountFacts, MailTrue, PendingOpen, BranchGiven, accountVars
<1>b. ASSUME NEW q \in Requests, Start(q) \/ Step(q) \/ Fail(q), KnowsAccount(req[q])'
      PROVE  \A p \in Requests : KnowsAccount(req[p])'
  <2>1. \A p \in Requests \ {q} : req'[p] = Idle
    BY <1>0, <1>b, Alone
  <2>2. QED
    BY <1>b, <2>1 DEF KnowsAccount, Idle, DrawsLink
<1>c. ASSUME NEW q \in Requests, InOps(req'[q], WorkspaceOps \cup GalleryOps \cup ReviewOps)
      PROVE  KnowsAccount(req[q])'
  BY <1>c DEF KnowsAccount, InOps, WorkspaceOps, GalleryOps, ReviewOps, Idle, DrawsLink
<1>1. ASSUME NEW q \in Requests, Start(q)
      PROVE  AccountFacts' /\ \A p \in Requests : KnowsAccount(req[p])'
  BY <1>0, <1>1, <1>a, <1>b, StartFrame, AccountStarts
<1>2. ASSUME NEW q \in Requests, Step(q)
      PROVE  AccountFacts' /\ \A p \in Requests : KnowsAccount(req[p])'
  <2>1. CASE RegistrationStep(q)
    BY <1>0, <1>2, <1>b, <2>1, RegistrationTurns
  <2>2. CASE StaffingStep(q)
    BY <1>0, <1>2, <1>b, <1>c, <2>2, StaffingTurns, StepOps DEF InOps
  <2>3. CASE WorkspaceStep(q) \/ GalleryStep(q) \/ ReviewStep(q)
    <3>1. InOps(req'[q], WorkspaceOps \cup GalleryOps \cup ReviewOps)
      BY <2>3, StepOps DEF InOps
    <3>2. QED
      BY <1>2, <1>a, <1>b, <1>c, <2>3, <3>1, EstateFrame
  <2>4. QED
    BY <1>2, <2>1, <2>2, <2>3 DEF Step
<1>3. ASSUME NEW q \in Requests, Fail(q)
      PROVE  AccountFacts' /\ \A p \in Requests : KnowsAccount(req[p])'
  BY <1>3, <1>a, <1>b, <1>c, EstateFrame, StepOps DEF InOps
<1>4. CASE World
  <2>1. \A q \in Requests : req'[q] = Idle
    BY <1>0, <1>4, WorldFrame DEF AtRest, Served
  <2>2. QED
    BY <1>0, <1>4, <2>1, WorldTurns DEF KnowsAccount, Idle, DrawsLink
<1>5. CASE UNCHANGED vars
  BY <1>0, <1>5, <1>a DEF AccountTurns, KnowsAccount, vars, accountVars
<1>6. QED
  BY <1>1, <1>2, <1>3, <1>4, <1>5 DEF Next

LEMMA TurnInvariant == Spec => [](TypeInv /\ AccountInv /\ Turns /\ AccountTurns)
<1>1. Init => Turns
  BY DEF Init, Turns, OneRequest, Served
<1>2. QED
  BY <1>1, TypeInit, TypeStep, AccountInit, AccountStep, TurnsStep, AccountTurnsInit,
     AccountTurnsStep, PTL DEF Spec

(***************************************************************************)
(* The role in the user's row, by which the guard goes, and the one in the *)
(* staff record, by which the access context goes, agree however updates   *)
(* overlap; while they take turns, a role tied to a branch has one.        *)
(***************************************************************************)
THEOREM RolesAlwaysAgree == Spec => []RolesAgree
<1>1. TypeInv /\ AccountInv /\ AccountTurns => RolesAgree
  BY DEF TypeInv, RowsThere, AccountInv, RolesMatch, AccountTurns, AccountFacts, BranchGiven,
     RolesAgree
<1>2. QED
  BY <1>1, TurnInvariant, PTL

(***************************************************************************)
(* What registrations leave in the tables: one organization per owner      *)
(* however they overlap, and, while they take turns, only waiting          *)
(* registrations whose slug and, but for staff, address are still free.    *)
(***************************************************************************)
THEOREM RegistrationsAreSound == Spec => []RegistrationSound
<1>1. TypeInv /\ AccountInv /\ AccountTurns => RegistrationSound
  BY OneOrganization
     DEF AccountTurns, AccountFacts, PendingOpen, RegistrationSound, PendingCanBeVerified
<1>2. QED
  BY <1>1, TurnInvariant, PTL

(***************************************************************************)
(* The organization that verifyEmail opens is the one that the message     *)
(* with the link named, and its owner the person it was sent to.           *)
(***************************************************************************)
THEOREM LinksOpenTheirAccounts == Spec => LinkOpensItsAccount
<1>1. TypeInv /\ Turns /\ AccountTurns /\ [Next]_vars =>
        \A q \in Requests :
          clients.turns /\ At(q, "verify", "commit") /\ ~Served(q)' /\ org' # org =>
              LET message == mail[req[q].link]
              IN  /\ user'[message.to] = OwnerRow
                  /\ org' = [org EXCEPT ![message.slug] = OrgOf(message.to, TrialPlan)]
  <2> SUFFICES ASSUME TypeInv, Turns, AccountTurns, [Next]_vars, NEW q \in Requests,
                      clients.turns, At(q, "verify", "commit"), org' # org
               PROVE  LET message == mail[req[q].link]
                      IN  /\ user'[message.to] = OwnerRow
                          /\ org' = [org EXCEPT ![message.slug] = OrgOf(message.to, TrialPlan)]
    OBVIOUS
  <2>1. ASSUME NEW p \in Requests, Start(p) PROVE FALSE
    BY <2>1, StartFrame DEF accountVars
  <2>2. ASSUME NEW p \in Requests, Fail(p) PROVE FALSE
    BY <2>2, EstateFrame DEF accountVars
  <2>3. ~World
    BY WorldFrame DEF AtRest, At
  <2>4. PICK p \in Requests : Step(p)
    BY <2>1, <2>2, <2>3 DEF Next, vars, accountVars
  <2>5. p = q
    BY <2>4, StepServed DEF Turns, OneRequest, At
  <2>6. VerifyCommit(q)
    <3>1. RegistrationStep(q)
      BY <2>4, <2>5, EstateFrame DEF Step, StaffingStep, StaffCreateInsert, StaffUpdateWrite,
         At, accountVars
    <3>2. QED
      BY <3>1 DEF RegistrationStep, RegisterPending, RegisterWrite, SendMail, ResendPending,
         ResendUser, VerifyUser, At, DrawsLink
  <2>7. req[q] \in RequestRow
    BY AtRequest DEF At
  <2>8. /\ req[q].email \in Emails /\ req[q].link \in Links
        /\ mail[req[q].link] # NoRow /\ pending[req[q].email] # NoRow
        /\ pending[req[q].email].link = req[q].link
        /\ pending[req[q].email].slug = req[q].slug
    BY <2>7, Requested DEF At, AccountTurns, KnowsAccount
  <2>9. mail[req[q].link] = [to |-> req[q].email, slug |-> req[q].slug]
    BY <2>8 DEF AccountTurns, AccountFacts, MailTrue
  <2>10. /\ user' = [user EXCEPT ![req[q].email] = OwnerRow]
         /\ org' = [org EXCEPT ![req[q].slug] = OrgOf(req[q].email, TrialPlan)]
    BY <2>6 DEF VerifyCommit
  <2>11. user \in [Emails -> UserRow \cup {NoRow}]
    BY Parts DEF TypeInv, Stores
  <2>12. QED
    BY <2>8, <2>9, <2>10, <2>11
<1>2. QED
  BY <1>1, TurnInvariant, PTL DEF Spec, LinkOpensItsAccount

-----------------------------------------------------------------------------
(***************************************************************************)
(* Branches and rooms.                                                     *)
(***************************************************************************)
ActorOps == {"edit", "room"} \cup GalleryOps \cup ReviewOps

\* What a request that changes the estate, or acts for a manager, still goes by.
KnowsEstate(r) ==
    /\ r.op \in {"edit", "list", "archive", "room"} => r.branch \in LiveBranches
    /\ r.op = "list" /\ r.listed => org[Home].plan.listing
    /\ r.op = "archive" => RoomsOf(r.branch) = {}
    /\ r.op = "branch" /\ r.pc = "count" => r.max = org[Home].plan.maxBranches
    /\ r.op = "branch" /\ r.pc = "insert" =>
          Below(Cardinality(LiveBranches), org[Home].plan.maxBranches)
    /\ r.op = "room" /\ r.pc = "count" => r.max = org[Home].plan.maxRooms
    /\ r.op = "room" /\ r.pc = "insert" =>
          Below(Cardinality(RoomsOf(r.branch)), org[Home].plan.maxRooms)
    /\ r.op \in ActorOps => InScope(r.actor, r.branch)

EstateTurns ==
    /\ ArchivedIsClosed
    /\ clients.turns => \A q \in Requests : KnowsEstate(req[q])

\* The body of PlanLimitsKept.
WithinPlan ==
    LET plan == org[Home].plan
        Within(count, max) == max = Unlimited \/ count <= max
        grown == LiveBranches' \ LiveBranches
    IN  /\ grown # {} => Within(Cardinality(LiveBranches'), plan.maxBranches)
        /\ \A b \in Branches :
              ~(RoomsOf(b)' \subseteq RoomsOf(b)) =>
                  Within(Cardinality(RoomsOf(b)'), plan.maxRooms)
        /\ \A b \in LiveBranches :
              branch'[b].listed /\ ~branch[b].listed => plan.listing

LEMMA EstateFinite ==
    /\ IsFiniteSet(LiveBranches) /\ \A b : IsFiniteSet(RoomsOf(b))
    /\ Cardinality(LiveBranches) \in Nat /\ \A b : Cardinality(RoomsOf(b)) \in Nat
<1>1. LiveBranches \subseteq Branches /\ \A b : RoomsOf(b) \subseteq Rooms
  BY DEF LiveBranches, RoomsOf, LiveRooms
<1>2. QED
  BY <1>1, BoundsAssumption, FS_Subset, FS_CardinalityType

LEMMA EstateKept ==
    ASSUME UNCHANGED <<estateVars, clients>>
    PROVE  /\ WithinPlan
           /\ ArchivedIsClosed => ArchivedIsClosed'
  BY DEF WithinPlan, ArchivedIsClosed, LiveBranches, RoomsOf, LiveRooms, estateVars

LEMMA OthersKeepEstate ==
    ASSUME NEW q \in Requests,
           RegistrationStep(q) \/ StaffingStep(q) \/ GalleryStep(q) \/ ReviewStep(q) \/ Fail(q)
    PROVE  UNCHANGED estateVars
<1>1. CASE RegistrationStep(q)
  BY <1>1 DEF RegistrationStep, RegisterPending, RegisterWrite, SendMail, ResendPending,
     ResendUser, VerifyCommit, VerifyUser
<1>2. CASE StaffingStep(q)
  BY <1>2 DEF StaffingStep, StaffCreateInsert, StaffUpdateWrite
<1>3. CASE GalleryStep(q)
  BY <1>3 DEF GalleryStep, UploadStore, ListCovers, UploadInsert, CoverWrite, DeleteRow,
     DeleteFile
<1>4. CASE ReviewStep(q)
  BY <1>4 DEF ReviewStep, ReplyWrite, PublishWrite
<1>5. CASE Fail(q)
  BY <1>5 DEF Fail
<1>6. QED
  BY <1>1, <1>2, <1>3, <1>4, <1>5

LEMMA EstateStarts ==
    ASSUME TypeInv, clients.turns, NEW q \in Requests, Start(q)
    PROVE  KnowsEstate(req[q])'
<1> USE DEF Begin, ActorOps, GalleryOps, ReviewOps
<1>0. /\ UNCHANGED <<org, estateVars, user, staff>>
      /\ req \in [Requests -> RequestRow \cup {Idle}]
  BY StartFrame, Parts DEF TypeInv, accountVars
\* What KnowsEstate depends on has not changed.
<1>a. ASSUME KnowsEstate(req'[q]) PROVE KnowsEstate(req[q])'
  BY <1>0, <1>a DEF KnowsEstate, InScope, LiveBranches, RoomsOf, LiveRooms, estateVars
<1>1. CASE RegistrationStart(q) \/ StaffingStart(q)
  BY <1>1, <1>a, StartOps
     DEF KnowsEstate, InOps, RegistrationOps, StaffingOps, Idle
<1>2. CASE WorkspaceStart(q)
  <2>1. CASE BranchCreateRead(q)
    BY <1>0, <1>a, <2>1 DEF BranchCreateRead, KnowsEstate
  <2>2. CASE BranchUpdateRead(q)
    BY <1>0, <1>a, <2>2 DEF BranchUpdateRead, KnowsEstate
  <2>3. CASE ListRead(q)
    BY <1>0, <1>a, <2>3 DEF ListRead, KnowsEstate
  <2>4. CASE ArchiveCount(q)
    BY <1>0, <1>a, <2>4 DEF ArchiveCount, KnowsEstate
  <2>5. CASE RoomCreateRead(q)
    BY <1>0, <1>a, <2>5 DEF RoomCreateRead, KnowsEstate
  <2>6. QED
    BY <1>2, <2>1, <2>2, <2>3, <2>4, <2>5 DEF WorkspaceStart
<1>3. CASE GalleryStart(q)
  <2>1. CASE UploadRead(q)
    BY <1>0, <1>a, <2>1 DEF UploadRead, KnowsEstate
  <2>2. CASE CoverRead(q)
    BY <1>0, <1>a, <2>2 DEF CoverRead, Editable, KnowsEstate
  <2>3. CASE DeleteRead(q)
    BY <1>0, <1>a, <2>3 DEF DeleteRead, Editable, KnowsEstate
  <2>4. QED
    BY <1>3, <2>1, <2>2, <2>3 DEF GalleryStart
<1>4. CASE ReviewStart(q)
  <2>1. CASE ReplyRead(q)
    BY <1>0, <1>a, <2>1 DEF ReplyRead, KnowsEstate
  <2>2. CASE PublishRead(q)
    BY <1>0, <1>a, <2>2 DEF PublishRead, KnowsEstate
  <2>3. QED
    BY <1>4, <2>1, <2>2 DEF ReviewStart
<1>5. QED
  BY <1>1, <1>2, <1>3, <1>4 DEF Start

LEMMA IdleKnowsEstate == KnowsEstate(Idle)
  BY DEF KnowsEstate, Idle, ActorOps, GalleryOps, ReviewOps

LEMMA WorkspaceTurns ==
    ASSUME TypeInv, ArchivedIsClosed, clients.turns, NEW q \in Requests, KnowsEstate(req[q]),
           WorkspaceStep(q)
    PROVE  ArchivedIsClosed' /\ WithinPlan /\ KnowsEstate(req[q])'
<1> DEFINE b == req[q].branch
<1> USE DEF Continue, Answer
<1>0. /\ Served(q) => req[q] \in RequestRow /\ RowFor(req[q])
      /\ Stores
      /\ NoRow \notin BranchRow /\ NoRow \notin RoomRow
      /\ req \in [Requests -> RequestRow \cup {Idle}]
      /\ \A x \in Branches : branch[x] # NoRow => branch[x] \in BranchRow
      /\ UNCHANGED <<accountVars, staff>>
  BY Parts, AtRequest, RowKinds, EstateFrame DEF TypeInv, Stores
<1>i. req'[q] = Idle => KnowsEstate(req[q])'
  BY DEF KnowsEstate, Idle, ActorOps, GalleryOps, ReviewOps
\* A write to a branch that is live and stays so, and is not put up against the plan.
<1>a. ASSUME b \in LiveBranches, NEW row \in BranchRow, branch' = [branch EXCEPT ![b] = row],
             UNCHANGED <<room, clients>>, row.deleted => ~row.active /\ ~row.listed /\ RoomsOf(b) = {},
             row.listed /\ ~branch[b].listed => org[Home].plan.listing
      PROVE  ArchivedIsClosed' /\ WithinPlan
  <2>1. /\ b \in Branches /\ branch'[b] = row
        /\ \A x \in Branches \ {b} : branch'[x] = branch[x]
        /\ \A x \in Branches : RoomsOf(x)' = RoomsOf(x)
    BY <1>0, <1>a DEF Stores, LiveBranches, RoomsOf, LiveRooms
  <2>2. LiveBranches' \subseteq LiveBranches
    BY <1>a, <2>1 DEF LiveBranches
  <2>3. ArchivedIsClosed'
    BY <1>a, <2>1 DEF ArchivedIsClosed
  <2>4. WithinPlan
    BY <1>a, <2>1, <2>2 DEF WithinPlan
  <2>5. QED
    BY <2>3, <2>4
<1>1. CASE BranchCreateCount(q)
  <2>1. UNCHANGED <<estateVars, clients>>
    BY <1>1 DEF BranchCreateCount
  <2>2. ArchivedIsClosed' /\ WithinPlan
    BY <2>1, EstateKept
  <2>3. \/ req'[q] = Idle
        \/ /\ req'[q] = [op |-> "branch", pc |-> "insert"]
           /\ Below(Cardinality(LiveBranches), org[Home].plan.maxBranches)
    BY <1>0, <1>1 DEF BranchCreateCount, At, KnowsEstate
  <2>4. ASSUME req'[q] = [op |-> "branch", pc |-> "insert"],
               Below(Cardinality(LiveBranches), org[Home].plan.maxBranches)
        PROVE  KnowsEstate(req[q])'
    BY <1>0, <2>1, <2>4
       DEF KnowsEstate, ActorOps, GalleryOps, ReviewOps, LiveBranches, estateVars, accountVars
  <2>5. QED
    BY <1>i, <2>2, <2>3, <2>4
<1>2. CASE BranchCreateInsert(q)
  <2> DEFINE new == [active |-> TRUE, listed |-> FALSE, deleted |-> FALSE]
  <2>1. PICK c \in FreeBranches : branch' = [branch EXCEPT ![c] = new]
    BY <1>2 DEF BranchCreateInsert
  <2>2. c \in Branches /\ branch[c] = NoRow /\ new # NoRow
    BY <2>1 DEF FreeBranches, NoRow
  <2>3. /\ branch'[c] = new
        /\ \A x \in Branches \ {c} : branch'[x] = branch[x]
        /\ UNCHANGED <<room, clients>>
        /\ req'[q] = Idle
    BY <1>0, <1>2, <2>1, <2>2 DEF Stores, BranchCreateInsert
  <2>4. \A x \in Branches : RoomsOf(x)' = RoomsOf(x)
    BY <2>3 DEF RoomsOf, LiveRooms
  <2>5. ArchivedIsClosed'
    BY <2>3, <2>4 DEF ArchivedIsClosed
  <2>6. LiveBranches' = LiveBranches \cup {c} /\ c \notin LiveBranches
    BY <2>2, <2>3 DEF LiveBranches
  <2>7. Cardinality(LiveBranches') = Cardinality(LiveBranches) + 1
    BY <2>6, EstateFinite, FS_AddElement
  <2>8. Below(Cardinality(LiveBranches), org[Home].plan.maxBranches)
    BY <1>2 DEF BranchCreateInsert, At, KnowsEstate
  <2>9. org[Home].plan.maxBranches \in Int
    BY PlanTyped
  <2>10. WithinPlan
    BY <2>2, <2>3, <2>4, <2>6, <2>7, <2>8, <2>9, EstateFinite
       DEF WithinPlan, Below, LiveBranches
  <2>11. QED
    BY <1>i, <2>3, <2>5, <2>10
<1>3. CASE BranchUpdateWrite(q)
  <2>1. b \in LiveBranches /\ b \in Branches /\ req[q].active \in BOOLEAN
    BY <1>0, <1>3, Requested DEF BranchUpdateWrite, At, KnowsEstate
  <2> DEFINE row == [branch[b] EXCEPT !.active = req[q].active]
  <2>2. /\ row \in BranchRow /\ row.listed = branch[b].listed
        /\ row.deleted = branch[b].deleted /\ ~row.deleted
    BY <1>0, <2>1 DEF BranchRow, LiveBranches
  <2>3. /\ branch' = [branch EXCEPT ![b] = row]
        /\ UNCHANGED <<room, clients>> /\ req'[q] = Idle
    BY <1>0, <1>3 DEF BranchUpdateWrite
  <2> HIDE DEF row
  <2>4. QED
    BY <1>a, <1>i, <2>1, <2>2, <2>3
<1>4. CASE ListWrite(q)
  <2>1. /\ b \in LiveBranches /\ b \in Branches /\ req[q].listed \in BOOLEAN
        /\ req[q].listed => org[Home].plan.listing
    BY <1>0, <1>4, Requested DEF ListWrite, At, KnowsEstate
  <2> DEFINE row == [branch[b] EXCEPT !.listed = req[q].listed]
  <2>2. row \in BranchRow /\ row.listed = req[q].listed /\ ~row.deleted
    BY <1>0, <2>1 DEF BranchRow, LiveBranches
  <2>3. /\ branch' = [branch EXCEPT ![b] = row]
        /\ UNCHANGED <<room, clients>> /\ req'[q] = Idle
    BY <1>0, <1>4 DEF ListWrite
  <2> HIDE DEF row
  <2>4. QED
    BY <1>a, <1>i, <2>1, <2>2, <2>3
<1>5. CASE ArchiveWrite(q)
  <2>1. b \in LiveBranches /\ RoomsOf(b) = {}
    BY <1>5 DEF ArchiveWrite, At, KnowsEstate
  <2> DEFINE row == [active |-> FALSE, listed |-> FALSE, deleted |-> TRUE]
  <2>2. row \in BranchRow /\ ~row.active /\ ~row.listed
    BY DEF BranchRow
  <2>3. /\ branch' = [branch EXCEPT ![b] = row]
        /\ UNCHANGED <<room, clients>> /\ req'[q] = Idle
    BY <1>0, <1>5 DEF ArchiveWrite
  <2> HIDE DEF row
  <2>4. QED
    BY <1>a, <1>i, <2>1, <2>2, <2>3
<1>6. CASE RoomCreateCount(q)
  <2>1. UNCHANGED <<estateVars, clients>>
    BY <1>6 DEF RoomCreateCount
  <2>2. ArchivedIsClosed' /\ WithinPlan
    BY <2>1, EstateKept
  <2>3. b \in LiveBranches /\ InScope(req[q].actor, b)
    BY <1>6 DEF RoomCreateCount, At, KnowsEstate, ActorOps
  <2>4. \/ req'[q] = Idle
        \/ /\ req'[q] = [op |-> "room", pc |-> "insert", actor |-> req[q].actor, branch |-> b]
           /\ Below(Cardinality(RoomsOf(b)), org[Home].plan.maxRooms)
    BY <1>0, <1>6 DEF RoomCreateCount, At, KnowsEstate
  <2>5. ASSUME req'[q] = [op |-> "room", pc |-> "insert", actor |-> req[q].actor, branch |-> b],
               Below(Cardinality(RoomsOf(b)), org[Home].plan.maxRooms)
        PROVE  KnowsEstate(req[q])'
    BY <1>0, <2>1, <2>3, <2>5
       DEF KnowsEstate, InScope, LiveBranches, RoomsOf, LiveRooms, estateVars, accountVars
  <2>6. QED
    BY <1>i, <2>2, <2>4, <2>5
<1>7. CASE RoomCreateInsert(q)
  <2>0. /\ b \in LiveBranches /\ b \in Branches
        /\ Below(Cardinality(RoomsOf(b)), org[Home].plan.maxRooms)
    BY <1>0, <1>7, Requested DEF RoomCreateInsert, At, KnowsEstate
  <2>1. PICK c \in LiveBranches : /\ c = b /\ c \in Branches
                                  /\ Below(Cardinality(RoomsOf(c)), org[Home].plan.maxRooms)
    BY <2>0
  <2> DEFINE new == [branch |-> c, deleted |-> FALSE]
  <2>2. PICK r \in FreeRooms : room' = [room EXCEPT ![r] = new]
    BY <1>7, <2>1 DEF RoomCreateInsert
  <2>3. r \in Rooms /\ room[r] = NoRow /\ new # NoRow
    BY <2>2 DEF FreeRooms, NoRow
  <2>4. /\ room'[r] = new
        /\ \A x \in Rooms \ {r} : room'[x] = room[x]
        /\ UNCHANGED <<branch, clients>>
        /\ req'[q] = Idle
    BY <1>0, <1>7, <2>2, <2>3 DEF Stores, RoomCreateInsert
  <2>5. /\ RoomsOf(c)' = RoomsOf(c) \cup {r} /\ r \notin RoomsOf(c)
        /\ \A x \in Branches \ {c} : RoomsOf(x)' = RoomsOf(x)
        /\ LiveBranches' = LiveBranches
    <3>1. \A x \in Branches : RoomsOf(x)' = RoomsOf(x) \cup (IF x = c THEN {r} ELSE {})
      <4>1. LiveRooms' = LiveRooms \cup {r} /\ r \notin LiveRooms
        BY <2>3, <2>4 DEF LiveRooms
      <4>2. \A y \in LiveRooms : room'[y] = room[y]
        BY <2>4, <4>1 DEF LiveRooms
      <4>3. QED
        BY <2>4, <4>1, <4>2 DEF RoomsOf
    <3>2. r \notin RoomsOf(c)
      BY <2>3 DEF RoomsOf, LiveRooms
    <3>3. LiveBranches' = LiveBranches
      BY <2>4 DEF LiveBranches
    <3>4. QED
      BY <2>1, <3>1, <3>2, <3>3
  <2>6. Cardinality(RoomsOf(c)') = Cardinality(RoomsOf(c)) + 1
    BY <2>5, EstateFinite, FS_AddElement
  <2>7. ArchivedIsClosed'
    BY <2>1, <2>4, <2>5 DEF ArchivedIsClosed, LiveBranches
  <2>8. org[Home].plan.maxRooms \in Int
    BY PlanTyped
  <2>9. WithinPlan
    <3>1. Cardinality(RoomsOf(c)) \in Nat
      BY EstateFinite
    <3>2. org[Home].plan.maxRooms = Unlimited
            \/ Cardinality(RoomsOf(c)') <= org[Home].plan.maxRooms
      BY <2>1, <2>6, <2>8, <3>1 DEF Below
    <3>3. QED
      BY <2>4, <2>5, <3>2 DEF WithinPlan
  <2>10. QED
    BY <1>i, <2>4, <2>7, <2>9
<1>8. QED
  BY <1>1, <1>2, <1>3, <1>4, <1>5, <1>6, <1>7 DEF WorkspaceStep

\* A request of the gallery keeps its actor and its branch.
LEMMA GalleryKeepsActor ==
    ASSUME TypeInv, NEW q \in Requests, KnowsEstate(req[q]), GalleryStep(q)
    PROVE  KnowsEstate(req[q])'
<1> USE DEF Continue, Answer
<1>0. /\ Served(q) => req[q] \in RequestRow
      /\ req \in [Requests -> RequestRow \cup {Idle}]
      /\ UNCHANGED <<user, staff>>
  BY Parts, AtRequest, EstateFrame DEF TypeInv, accountVars
<1>i. req'[q] = Idle => KnowsEstate(req[q])'
  BY DEF KnowsEstate, Idle, ActorOps, GalleryOps, ReviewOps
<1>a. ASSUME req[q].op \in GalleryOps, req'[q].op = req[q].op, req'[q].actor = req[q].actor,
             req'[q].branch = req[q].branch
      PROVE  KnowsEstate(req[q])'
  BY <1>0, <1>a DEF KnowsEstate, InScope, ActorOps, GalleryOps
<1>1. CASE UploadInsert(q) \/ CoverWrite(q) \/ DeleteFile(q)
  BY <1>0, <1>1, <1>i DEF UploadInsert, CoverWrite, DeleteFile
<1>2. CASE UploadStore(q)
  BY <1>0, <1>2, <1>a DEF UploadStore, At, GalleryOps
<1>3. CASE ListCovers(q)
  <2>1. req[q] \in [op: {"upload", "cover"}, pc: {"covers", "insert"}, actor: Emails,
                    of: Branches \cup Rooms, branch: Branches, cover: BOOLEAN,
                    image: Images, hits: SUBSET Images]
    BY <1>0, <1>3 DEF ListCovers, RequestRow, RegistrationRequest, StaffingRequest,
       WorkspaceRequest, GalleryRequest, ReviewRequest, DrawsLink
  <2>2. QED
    BY <1>0, <1>3, <1>a, <2>1 DEF ListCovers, GalleryOps
<1>4. CASE DeleteRow(q)
  <2>1. req[q] \in [op: {"delete"}, pc: {"row", "file"}, actor: Emails, branch: Branches,
                    image: Images]
    BY <1>0, <1>4 DEF DeleteRow, At, RequestRow, RegistrationRequest, StaffingRequest,
       WorkspaceRequest, GalleryRequest, ReviewRequest, DrawsLink
  <2>2. QED
    BY <1>0, <1>4, <1>a, <1>i, <2>1 DEF DeleteRow, Goto, GalleryOps
<1>5. QED
  BY <1>1, <1>2, <1>3, <1>4 DEF GalleryStep

LEMMA WorldEstate ==
    ASSUME TypeInv, ArchivedIsClosed, World
    PROVE  ArchivedIsClosed' /\ WithinPlan
<1>1. CASE UNCHANGED estateVars
  BY <1>1, WorldFrame, EstateKept
<1>2. ASSUME NEW a \in Emails, NEW r \in Rooms, RoomRemove(a, r)
      PROVE  ArchivedIsClosed' /\ WithinPlan
  <2>1. /\ UNCHANGED <<branch, clients>>
        /\ \A x \in Rooms \ {r} : room'[x] = room[x]
        /\ room'[r].deleted
    BY <1>2, Parts DEF RoomRemove, AtOnce, LiveRooms, TypeInv, Stores, RoomRow
  <2>2. \A x \in Branches : RoomsOf(x)' \subseteq RoomsOf(x)
    BY <2>1 DEF RoomsOf, LiveRooms
  <2>3. LiveBranches' = LiveBranches
    BY <2>1 DEF LiveBranches
  <2>4. QED
    BY <2>1, <2>2, <2>3 DEF ArchivedIsClosed, WithinPlan
<1>3. UNCHANGED estateVars \/ \E a \in Emails, r \in Rooms : RoomRemove(a, r)
  BY DEF World, Toggles, StaffToggle, UserToggle, WorkspaceWrites, Upgrade, SetOrgStatus,
     ReviewArrives
<1>4. QED
  BY <1>1, <1>2, <1>3

LEMMA EstateStep ==
    ASSUME TypeInv, Turns, EstateTurns, [Next]_vars, clients.turns
    PROVE  ArchivedIsClosed' /\ WithinPlan /\ \A q \in Requests : KnowsEstate(req[q])'
<1>0. ArchivedIsClosed /\ \A q \in Requests : KnowsEstate(req[q])
  BY DEF EstateTurns
<1>a. ASSUME UNCHANGED estateVars PROVE ArchivedIsClosed' /\ WithinPlan
  BY <1>0, <1>a, EstateKept, ClientsFrame
<1>b. ASSUME NEW q \in Requests, Start(q) \/ Step(q) \/ Fail(q), KnowsEstate(req[q])'
      PROVE  \A p \in Requests : KnowsEstate(req[p])'
  <2>1. \A p \in Requests \ {q} : req'[p] = Idle
    BY <1>b, Alone
  <2>2. QED
    BY <1>b, <2>1 DEF KnowsEstate, Idle, ActorOps, GalleryOps, ReviewOps
<1>c. ASSUME NEW q \in Requests, InOps(req'[q], RegistrationOps \cup StaffingOps)
      PROVE  KnowsEstate(req[q])'
  BY <1>c DEF KnowsEstate, InOps, RegistrationOps, StaffingOps, Idle, ActorOps, GalleryOps,
     ReviewOps
<1>1. ASSUME NEW q \in Requests, Start(q)
      PROVE  ArchivedIsClosed' /\ WithinPlan /\ \A p \in Requests : KnowsEstate(req[p])'
  BY <1>1, <1>a, <1>b, StartFrame, EstateStarts
<1>2. ASSUME NEW q \in Requests, Step(q) \/ Fail(q)
      PROVE  ArchivedIsClosed' /\ WithinPlan /\ \A p \in Requests : KnowsEstate(req[p])'
  <2>1. CASE WorkspaceStep(q)
    BY <1>0, <1>2, <1>b, <2>1, WorkspaceTurns
  <2>2. CASE GalleryStep(q)
    BY <1>0, <1>2, <1>a, <1>b, <2>2, GalleryKeepsActor, OthersKeepEstate
  <2>3. CASE RegistrationStep(q) \/ StaffingStep(q) \/ ReviewStep(q) \/ Fail(q)
    <3>1. InOps(req'[q], RegistrationOps \cup StaffingOps)
      BY <2>3, StepOps DEF InOps
    <3>2. QED
      BY <1>2, <1>a, <1>b, <1>c, <2>3, <3>1, OthersKeepEstate
  <2>4. QED
    BY <1>2, <2>1, <2>2, <2>3 DEF Step
<1>3. CASE World
  <2>1. \A q \in Requests : req'[q] = Idle
    BY <1>3, WorldFrame DEF AtRest, Served
  <2>2. QED
    BY <1>0, <1>3, <2>1, WorldEstate
       DEF KnowsEstate, Idle, ActorOps, GalleryOps, ReviewOps
<1>4. CASE UNCHANGED vars
  <2>1. \A q \in Requests : KnowsEstate(req[q])'
    BY <1>0, <1>4 DEF vars, accountVars, estateVars, KnowsEstate, InScope, LiveBranches,
       RoomsOf, LiveRooms
  <2>2. QED
    BY <1>4, <1>a, <2>1 DEF vars
<1>5. QED
  BY <1>1, <1>2, <1>3, <1>4 DEF Next

LEMMA EstateInvariant ==
    Spec => [](TypeInv /\ AccountInv /\ Turns /\ EstateTurns)
<1>1. Init => EstateTurns
  BY IdleKnowsEstate DEF Init, EstateTurns, ArchivedIsClosed
<1>2. TypeInv /\ Turns /\ EstateTurns /\ [Next]_vars => EstateTurns'
  <2> SUFFICES ASSUME TypeInv, Turns, EstateTurns, [Next]_vars PROVE EstateTurns'
    OBVIOUS
  <2>1. UNCHANGED clients
    BY ClientsFrame
  <2>2. CASE clients.turns
    BY <2>2, EstateStep DEF EstateTurns
  <2>3. CASE ~clients.turns
    BY <2>1, <2>3 DEF EstateTurns, ArchivedIsClosed
  <2>4. QED
    BY <2>2, <2>3
<1>3. QED
  BY <1>1, <1>2, TurnInvariant, PTL DEF Spec

(***************************************************************************)
(* An archived branch is out of business for good: off the marketplace,    *)
(* inactive and without rooms, whatever sequence of calls follows.         *)
(***************************************************************************)
THEOREM ArchivedStaysClosed == Spec => []ArchivedIsClosed
<1>1. EstateTurns => ArchivedIsClosed
  BY DEF EstateTurns
<1>2. QED
  BY <1>1, EstateInvariant, PTL

(***************************************************************************)
(* What comes into being, a branch, a room or an entry on the marketplace, *)
(* is allowed by the plan of that moment, although it was compared with    *)
(* one that was read before, for plans of any size.                        *)
(***************************************************************************)
THEOREM PlansAreKept == Spec => PlanLimitsKept
<1>1. TypeInv /\ Turns /\ EstateTurns /\ [Next]_vars => (clients.turns => WithinPlan)
  BY EstateStep
<1>2. (clients.turns => WithinPlan) =>
        (clients.turns =>
          LET plan == org[Home].plan
              Within(count, max) == max = Unlimited \/ count <= max
              grown == LiveBranches' \ LiveBranches
          IN  /\ grown # {} => Within(Cardinality(LiveBranches'), plan.maxBranches)
              /\ \A b \in Branches :
                    ~(RoomsOf(b)' \subseteq RoomsOf(b)) =>
                        Within(Cardinality(RoomsOf(b)'), plan.maxRooms)
              /\ \A b \in LiveBranches :
                    branch'[b].listed /\ ~branch[b].listed => plan.listing)
  BY DEF WithinPlan
<1>3. QED
  BY <1>1, <1>2, EstateInvariant, PTL DEF Spec, PlanLimitsKept

(***************************************************************************)
(* A branch manager changes nothing outside the branch of their staff      *)
(* record, although the guard goes by the user's row and the check was     *)
(* made when the request began.                                            *)
(***************************************************************************)
THEOREM ManagersAreConfined == Spec => ManagersStayInBranch
<1>1. TypeInv /\ AccountInv /\ EstateTurns =>
        \A q \in Requests :
          /\ clients.turns
          /\ Served(q) /\ "actor" \in DOMAIN req[q] /\ req'[q] # req[q]
          /\ <<estateVars, image, review>>' # <<estateVars, image, review>>
          => LET a == req[q].actor
             IN  staff[a] # NoRow /\ staff[a].role = "BRANCH_MANAGER" =>
                    staff[a].active /\ staff[a].branch = req[q].branch
  <2> SUFFICES ASSUME TypeInv, AccountInv, EstateTurns, NEW q \in Requests, clients.turns,
                      Served(q), "actor" \in DOMAIN req[q], staff[req[q].actor] # NoRow,
                      staff[req[q].actor].role = "BRANCH_MANAGER"
               PROVE  /\ staff[req[q].actor].active
                      /\ staff[req[q].actor].branch = req[q].branch
    OBVIOUS
  <2>1. req[q] \in RequestRow
    BY AtRequest
  <2>2. req[q].op \in ActorOps /\ req[q].actor \in Emails
    BY <2>1 DEF RequestRow, RegistrationRequest, StaffingRequest, WorkspaceRequest,
       GalleryRequest, ReviewRequest, DrawsLink, ActorOps, GalleryOps, ReviewOps
  <2>3. user[req[q].actor].role = "BRANCH_MANAGER"
    BY <2>2 DEF AccountInv, RolesMatch
  <2>4. QED
    BY <2>2, <2>3 DEF EstateTurns, KnowsEstate, InScope
<1>2. QED
  BY <1>1, EstateInvariant, PTL DEF Spec, ManagersStayInBranch

-----------------------------------------------------------------------------
(***************************************************************************)
(* Covers.                                                                 *)
(***************************************************************************)
\* The covers that a request takes away are those that are there, and the picture that
\* is to have the cover is one of the same branch or room.
KnowsCovers(r) ==
    /\ r.op \in {"upload", "cover"} /\ r.pc = "insert" /\ r.cover =>
          CoversOf(r.of) \ {r.image} \subseteq r.hits
    /\ r.op = "cover" => r.image \in Pictures /\ image[r.image].of = r.of

CoverTurns ==
    /\ OneCover
    /\ clients.turns => \A q \in Requests : KnowsCovers(req[q])

LEMMA IdleKnowsCovers == KnowsCovers(Idle)
  BY DEF KnowsCovers, Idle

LEMMA CoverStarts ==
    ASSUME TypeInv, NEW q \in Requests, Start(q)
    PROVE  KnowsCovers(req[q])'
<1> USE DEF Begin
<1>0. /\ UNCHANGED image
      /\ req \in [Requests -> RequestRow \cup {Idle}]
  BY StartFrame, Parts DEF TypeInv, pictureVars
<1>a. ASSUME KnowsCovers(req'[q]) PROVE KnowsCovers(req[q])'
  BY <1>0, <1>a DEF KnowsCovers, CoversOf, Pictures
<1>1. CASE GalleryStart(q)
  <2>1. CASE UploadRead(q)
    BY <1>0, <1>a, <2>1 DEF UploadRead, KnowsCovers
  <2>2. CASE CoverRead(q)
    BY <1>0, <1>a, <2>2 DEF CoverRead, Editable, KnowsCovers
  <2>3. CASE DeleteRead(q)
    BY <1>0, <1>a, <2>3 DEF DeleteRead, KnowsCovers
  <2>4. QED
    BY <1>1, <2>1, <2>2, <2>3 DEF GalleryStart
<1>2. CASE ~GalleryStart(q)
  <2>1. InOps(req'[q], RegistrationOps \cup StaffingOps \cup WorkspaceOps \cup ReviewOps)
    BY <1>2, StartOps DEF Start, InOps
  <2>2. QED
    BY <1>a, <2>1 DEF KnowsCovers, InOps, RegistrationOps, StaffingOps, WorkspaceOps,
       ReviewOps, Idle
<1>3. QED
  BY <1>1, <1>2

LEMMA GalleryTurns ==
    ASSUME TypeInv, OneCover, clients.turns, NEW q \in Requests, KnowsCovers(req[q]),
           PictureFor(req[q]), GalleryStep(q)
    PROVE  OneCover' /\ KnowsCovers(req[q])'
<1> DEFINE r == req[q]
<1> USE DEF Continue, Answer
<1>0. /\ Served(q) => req[q] \in RequestRow
      /\ Stores
      /\ req \in [Requests -> RequestRow \cup {Idle}]
      /\ \A i \in Images : image[i] \in ImageRow <=> i \in Pictures
      /\ NoRow \notin ImageRow /\ Gone \notin ImageRow
  BY Parts, AtRequest, RowKinds DEF TypeInv, Stores, Pictures
<1>i. req'[q] = Idle => KnowsCovers(req[q])'
  BY DEF KnowsCovers, Idle
<1>u. ASSUME UNCHANGED <<image, clients>> PROVE OneCover'
  BY <1>u DEF OneCover, Pictures
\* What is left of the covers: none but i, if that, of those of its branch or room.
<1>a. ASSUME NEW i \in Images, NEW of, NEW cover \in BOOLEAN, NEW hits \in SUBSET Images,
             image'[i] = [of |-> of, cover |-> cover],
             \A j \in Images \ {i} : image'[j] = Uncovered(hits)[j],
             cover => CoversOf(of) \ {i} \subseteq hits
      PROVE  OneCover'
  <2>1. \A j \in Images \ {i} : j \in Pictures' <=> j \in Pictures
    BY <1>0, <1>a, UncoveredTypes DEF Pictures
  <2>2. \A j \in Images \ {i} : j \in Pictures => image'[j].of = image[j].of
    BY <1>0, <1>a DEF Uncovered, ImageRow
  <2>3. \A j \in Images \ {i} : j \in Pictures /\ image'[j].cover =>
                                  image[j].cover /\ j \notin hits
    BY <1>0, <1>a DEF Uncovered, ImageRow
  <2>4. ASSUME NEW j \in Pictures', NEW k \in Pictures', image'[j].cover, image'[k].cover,
               image'[j].of = image'[k].of
        PROVE  j = k
    <3>1. j \in Images /\ k \in Images
      BY DEF Pictures
    <3>2. CASE j # i /\ k # i
      BY <2>1, <2>2, <2>3, <2>4, <3>1, <3>2 DEF OneCover
    <3>3. ASSUME NEW x \in Images \ {i}, x \in Pictures', image'[x].cover, image'[x].of = of,
                 cover
          PROVE  FALSE
      <4>1. x \in CoversOf(of) \ {i}
        BY <2>1, <2>2, <2>3, <3>3 DEF CoversOf
      <4>2. QED
        BY <1>a, <2>1, <2>3, <3>3, <4>1
    <3>4. QED
      BY <1>a, <2>4, <3>1, <3>2, <3>3
  <2>5. QED
    BY <2>4 DEF OneCover
<1>1. CASE UploadStore(q)
  <2>1. PICK i \in FreshImages :
          req' = [req EXCEPT ![q] =
               [op |-> "upload", pc |-> IF r.cover THEN "covers" ELSE "insert",
                actor |-> r.actor, of |-> r.of, branch |-> r.branch,
                cover |-> r.cover, image |-> i, hits |-> {}]]
    BY <1>1 DEF UploadStore
  <2>2. req'[q] = [op |-> "upload", pc |-> IF r.cover THEN "covers" ELSE "insert",
                   actor |-> r.actor, of |-> r.of, branch |-> r.branch,
                   cover |-> r.cover, image |-> i, hits |-> {}]
    BY <1>0, <2>1
  <2>3. r.cover \in BOOLEAN
    BY <1>0, <1>1, Requested DEF UploadStore, At
  <2>4. KnowsCovers(req[q])'
    BY <2>2, <2>3 DEF KnowsCovers
  <2>5. QED
    BY <1>1, <1>u, <2>4 DEF UploadStore
<1>2. CASE ListCovers(q)
  <2>1. r \in [op: {"upload", "cover"}, pc: {"covers", "insert"}, actor: Emails,
               of: Branches \cup Rooms, branch: Branches, cover: BOOLEAN, image: Images,
               hits: SUBSET Images]
    BY <1>0, <1>2 DEF ListCovers, RequestRow, RegistrationRequest, StaffingRequest,
       WorkspaceRequest, GalleryRequest, ReviewRequest, DrawsLink
  <2>2. /\ req'[q].op = r.op /\ req'[q].of = r.of /\ req'[q].image = r.image
        /\ req'[q].hits = CoversOf(r.of) \ {r.image}
        /\ UNCHANGED <<image, clients>>
    BY <1>0, <1>2, <2>1 DEF ListCovers, pictureVars
  <2>3. KnowsCovers(req[q])'
    BY <2>2 DEF KnowsCovers, CoversOf, Pictures
  <2>4. QED
    BY <1>u, <2>2, <2>3
<1>3. CASE UploadInsert(q)
  <2>1. /\ r.of \in Branches \cup Rooms /\ r.cover \in BOOLEAN
        /\ r.image \in Images /\ r.hits \in SUBSET Images
        /\ r.cover => CoversOf(r.of) \ {r.image} \subseteq r.hits
    BY <1>0, <1>3, Requested DEF UploadInsert, At, KnowsCovers
  <2>2. /\ image'[r.image] = [of |-> r.of, cover |-> r.cover]
        /\ \A j \in Images \ {r.image} : image'[j] = Uncovered(r.hits)[j]
    BY <1>3, <2>1, UncoveredTypes DEF UploadInsert
  <2>3. req'[q] = Idle
    BY <1>0, <1>3 DEF UploadInsert
  <2>4. QED
    BY <1>a, <1>i, <2>1, <2>2, <2>3
<1>4. CASE CoverWrite(q)
  <2>1. /\ r.of \in Branches \cup Rooms /\ r.cover \in BOOLEAN
        /\ r.image \in Images /\ r.hits \in SUBSET Images
        /\ r.cover => CoversOf(r.of) \ {r.image} \subseteq r.hits
        /\ r.image \in Pictures /\ image[r.image].of = r.of
    BY <1>0, <1>4, Requested DEF CoverWrite, At, KnowsCovers
  <2>2. Uncovered(r.hits)[r.image] \in ImageRow /\ Uncovered(r.hits)[r.image].of = r.of
    BY <1>0, <2>1 DEF Uncovered, ImageRow
  <2>3. /\ image'[r.image] = [Uncovered(r.hits)[r.image] EXCEPT !.cover = r.cover]
        /\ \A j \in Images \ {r.image} : image'[j] = Uncovered(r.hits)[j]
    BY <1>4, <2>1, UncoveredTypes DEF CoverWrite
  <2>4. image'[r.image] = [of |-> r.of, cover |-> r.cover]
    BY <2>2, <2>3 DEF ImageRow
  <2>5. req'[q] = Idle
    BY <1>0, <1>4 DEF CoverWrite
  <2>6. QED
    BY <1>a, <1>i, <2>1, <2>3, <2>4, <2>5
<1>5. CASE DeleteRow(q)
  <2>1. r \in [op: {"delete"}, pc: {"row", "file"}, actor: Emails, branch: Branches,
               image: Images]
    BY <1>0, <1>5 DEF DeleteRow, At, RequestRow, RegistrationRequest, StaffingRequest,
       WorkspaceRequest, GalleryRequest, ReviewRequest, DrawsLink
  <2>2. req'[q] = Idle \/ req'[q].op = "delete"
    BY <1>0, <1>5, <2>1 DEF DeleteRow, Goto
  <2>3. \A j \in Images : image'[j] = image[j] \/ image'[j] = Gone
    BY <1>0, <1>5 DEF DeleteRow, Stores
  <2>4. UNCHANGED clients
    BY <1>5 DEF DeleteRow, Goto
  <2>5. OneCover'
    BY <2>3, <2>4 DEF OneCover, Pictures
  <2>6. KnowsCovers(req[q])'
    BY <2>2 DEF KnowsCovers, Idle
  <2>7. QED
    BY <2>5, <2>6
<1>6. CASE DeleteFile(q)
  BY <1>0, <1>6, <1>i, <1>u DEF DeleteFile
<1>7. QED
  BY <1>1, <1>2, <1>3, <1>4, <1>5, <1>6 DEF GalleryStep

LEMMA CoverStep ==
    TypeInv /\ FilesInv /\ Turns /\ CoverTurns /\ [Next]_vars => CoverTurns'
<1> SUFFICES ASSUME TypeInv, FilesInv, Turns, CoverTurns, [Next]_vars, clients.turns'
             PROVE  OneCover' /\ \A q \in Requests : KnowsCovers(req[q])'
  BY DEF CoverTurns, OneCover
<1>0. clients.turns /\ UNCHANGED clients
  BY ClientsFrame
<1>a. ASSUME UNCHANGED pictureVars PROVE OneCover'
  BY <1>0, <1>a DEF CoverTurns, OneCover, Pictures, pictureVars
<1>b. ASSUME NEW q \in Requests, Start(q) \/ Step(q) \/ Fail(q), KnowsCovers(req[q])'
      PROVE  \A p \in Requests : KnowsCovers(req[p])'
  <2>1. \A p \in Requests \ {q} : req'[p] = Idle
    BY <1>0, <1>b, Alone
  <2>2. QED
    BY <1>b, <2>1 DEF KnowsCovers, Idle
<1>1. ASSUME NEW q \in Requests, Start(q)
      PROVE  OneCover' /\ \A p \in Requests : KnowsCovers(req[p])'
  BY <1>1, <1>a, <1>b, StartFrame, CoverStarts
<1>2. ASSUME NEW q \in Requests, Step(q) \/ Fail(q)
      PROVE  OneCover' /\ \A p \in Requests : KnowsCovers(req[p])'
  <2>1. CASE GalleryStep(q)
    BY <1>0, <1>2, <1>b, <2>1, GalleryTurns DEF CoverTurns, FilesInv
  <2>2. CASE ~GalleryStep(q)
    <3>1. InOps(req'[q], RegistrationOps \cup WorkspaceOps)
      BY <1>2, <2>2, StepOps DEF Step, InOps
    <3>2. KnowsCovers(req[q])'
      BY <3>1 DEF KnowsCovers, InOps, RegistrationOps, WorkspaceOps, Idle
    <3>3. UNCHANGED pictureVars
      BY <1>2, <2>2, PictureFrame DEF Step
    <3>4. QED
      BY <1>2, <1>a, <1>b, <3>2, <3>3
  <2>3. QED
    BY <2>1, <2>2
<1>3. CASE World
  <2>1. \A q \in Requests : req'[q] = Idle
    BY <1>0, <1>3, WorldFrame DEF AtRest, Served
  <2>2. QED
    BY <1>3, <1>a, <2>1, WorldFrame DEF KnowsCovers, Idle
<1>4. CASE UNCHANGED vars
  BY <1>0, <1>4, <1>a DEF CoverTurns, KnowsCovers, CoversOf, Pictures, vars, pictureVars
<1>5. QED
  BY <1>1, <1>2, <1>3, <1>4 DEF Next

(***************************************************************************)
(* What the gallery leaves in the two stores: a file for every picture     *)
(* however requests overlap or die and, while they take turns, at most one *)
(* cover for each branch and room.                                         *)
(***************************************************************************)
THEOREM GalleriesAreSound == Spec => []GallerySound
<1>1. Init => CoverTurns
  BY IdleKnowsCovers DEF Init, CoverTurns, OneCover, Pictures
<1>2. FilesInv /\ CoverTurns => GallerySound
  BY DEF FilesInv, CoverTurns, GallerySound
<1>3. QED
  BY <1>1, <1>2, CoverStep, FilesInit, FilesStep, TurnInvariant, PTL DEF Spec
==============================================================================
