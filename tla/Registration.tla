----------------------------- MODULE Registration -----------------------------
(***************************************************************************)
(* auth.service.ts: register, resendVerificationEmail and verifyEmail.  An *)
(* owner's account exists first as a pending registration; the link that   *)
(* is mailed turns it into a user, an organization and a trial.  The slug  *)
(* stands for everything that is registered along with the address.        *)
(***************************************************************************)
EXTENDS Access

DrawsLink == {"register", "resend"}

SlugHeld(s, except) == \E e \in Emails \ {except} : pending[e] # NoRow /\ pending[e].slug = s

RegisterLook(q) ==
    \E e \in clients.people, s \in Slugs :
        /\ RoomFor(FreshLinks, DrawsLink)
        /\ user[e] = NoRow
        /\ org[s] = NoRow
        /\ Begin(q, [op |-> "register", pc |-> "pending", email |-> e, slug |-> s])
        /\ UNCHANGED <<accountVars, staff, estateVars, pictureVars, review>>

\* After the hashing of the password: is it a new registration or a repeated one?
RegisterPending(q) ==
    /\ At(q, "register", "pending")
    /\ LET e == req[q].email
       IN  IF SlugHeld(req[q].slug, e)
           THEN Answer(q)
           ELSE Continue(q, [op |-> "register", pc |-> "write", email |-> e,
                             slug |-> req[q].slug,
                             id |-> IF pending[e] = NoRow THEN Null ELSE pending[e].id])
    /\ UNCHANGED <<accountVars, staff, estateVars, pictureVars, review>>

\* A faulty repetition that keeps the link it finds in the row.
RegisterWriteKeepsLink(q) ==
    /\ At(q, "register", "write")
    /\ LET e  == req[q].email
           id == req[q].id
           inserts == id = Null /\ pending[e] = NoRow
           updates == id # Null /\ pending[e] # NoRow /\ pending[e].id = id
       IN  IF (inserts \/ updates) /\ ~SlugHeld(req[q].slug, e)
           THEN \E l \in FreshLinks :
                  /\ pending' = [pending EXCEPT ![e] =
                                   IF inserts THEN [id |-> l, slug |-> req[q].slug, link |-> l]
                                   ELSE [@ EXCEPT !.slug = req[q].slug]]
                  /\ Continue(q, [op |-> "register", pc |-> "mail", email |-> e,
                                  slug |-> req[q].slug, link |-> l])
           ELSE Answer(q) /\ UNCHANGED pending
    /\ UNCHANGED <<user, org, mail, staff, estateVars, pictureVars, review>>

(***************************************************************************)
(* An update is by id, and the columns email and slug are unique: a row    *)
(* that is gone, or one that is in the way, makes the call fail.           *)
(***************************************************************************)
RegisterWrite(q) ==
    /\ At(q, "register", "write")
    /\ LET e  == req[q].email
           id == req[q].id
           inserts == id = Null /\ pending[e] = NoRow
           updates == id # Null /\ pending[e] # NoRow /\ pending[e].id = id
       IN  IF (inserts \/ updates) /\ ~SlugHeld(req[q].slug, e)
           THEN \E l \in FreshLinks :
                  /\ pending' = [pending EXCEPT ![e] =
                                   [id   |-> IF inserts THEN l ELSE id,
                                    slug |-> req[q].slug, link |-> l]]
                  /\ Continue(q, [op |-> "register", pc |-> "mail", email |-> e,
                                  slug |-> req[q].slug, link |-> l])
           ELSE Answer(q) /\ UNCHANGED pending
    /\ UNCHANGED <<user, org, mail, staff, estateVars, pictureVars, review>>

\* sendVerificationEmailOrThrow; when the message cannot be sent (Fail) the row stays.
SendMail(q) ==
    /\ Served(q) /\ req[q].op \in DrawsLink /\ req[q].pc = "mail"
    /\ mail' = [mail EXCEPT ![req[q].link] = [to |-> req[q].email, slug |-> req[q].slug]]
    /\ Answer(q)
    /\ UNCHANGED <<pending, user, org, staff, estateVars, pictureVars, review>>

-----------------------------------------------------------------------------
(***************************************************************************)
(* resendVerificationEmail: a registration first, else a user who is not   *)
(* verified (staff are entered so).                                        *)
(***************************************************************************)
ResendRead(q) ==
    \E e \in Emails :
        /\ RoomFor(FreshLinks, DrawsLink)
        /\ \/ /\ pending[e] # NoRow
              /\ Begin(q, [op |-> "resend", pc |-> "pending", email |-> e,
                           slug |-> pending[e].slug, id |-> pending[e].id])
           \/ /\ pending[e] = NoRow
              /\ user[e] # NoRow
              /\ ~user[e].verified
              /\ Begin(q, [op |-> "resend", pc |-> "user", email |-> e])
        /\ UNCHANGED <<accountVars, staff, estateVars, pictureVars, review>>

ResendPending(q) ==
    /\ At(q, "resend", "pending")
    /\ LET e == req[q].email
       IN  IF pending[e] # NoRow /\ pending[e].id = req[q].id
           THEN \E l \in FreshLinks :
                  /\ pending' = [pending EXCEPT ![e].link = l]
                  /\ Continue(q, [op |-> "resend", pc |-> "mail", email |-> e,
                                  slug |-> req[q].slug, link |-> l])
           ELSE Answer(q) /\ UNCHANGED pending
    /\ UNCHANGED <<user, org, mail, staff, estateVars, pictureVars, review>>

ResendUser(q) ==
    /\ At(q, "resend", "user")
    /\ \E l \in FreshLinks :
         /\ user' = [user EXCEPT ![req[q].email].link = l]
         /\ Continue(q, [op |-> "resend", pc |-> "mail", email |-> req[q].email,
                         slug |-> Null, link |-> l])
    /\ UNCHANGED <<pending, org, mail, staff, estateVars, pictureVars, review>>

-----------------------------------------------------------------------------
(***************************************************************************)
(* verifyEmail, called with a link that was mailed.  A link may expire at  *)
(* any time and is then refused without a write, which needs no state.     *)
(***************************************************************************)
VerifyRead(q) ==
    \E l \in Links, e \in Emails :
        /\ mail[l] # NoRow
        /\ \/ /\ pending[e] # NoRow
              /\ pending[e].link = l
              /\ Begin(q, [op |-> "verify", pc |-> "commit", email |-> e, link |-> l,
                           slug |-> pending[e].slug, id |-> pending[e].id])
           \/ /\ user[e] # NoRow
              /\ user[e].link = l
              /\ Begin(q, [op |-> "verify", pc |-> "user", email |-> e])
        /\ UNCHANGED <<accountVars, staff, estateVars, pictureVars, review>>

\* A faulty verification that leaves the registration behind.
VerifyCommitKeepsPending(q) ==
    /\ At(q, "verify", "commit")
    /\ LET e == req[q].email
           s == req[q].slug
       IN  IF user[e] = NoRow /\ org[s] = NoRow /\ pending[e] # NoRow /\ pending[e].id = req[q].id
           THEN /\ user' = [user EXCEPT ![e] = OwnerRow]
                /\ org' = [org EXCEPT ![s] = OrgOf(e, TrialPlan)]
                /\ UNCHANGED pending
           ELSE UNCHANGED <<pending, user, org>>
    /\ Answer(q)
    /\ UNCHANGED <<mail, staff, estateVars, pictureVars, review>>

(***************************************************************************)
(* The transaction: its look-ups refuse what the unique columns of users   *)
(* and organizations would refuse at the commit, and the delete of a       *)
(* registration that is gone takes everything back.                        *)
(***************************************************************************)
VerifyCommit(q) ==
    /\ At(q, "verify", "commit")
    /\ LET e == req[q].email
           s == req[q].slug
       IN  IF user[e] = NoRow /\ org[s] = NoRow /\ pending[e] # NoRow /\ pending[e].id = req[q].id
           THEN /\ user' = [user EXCEPT ![e] = OwnerRow]
                /\ org' = [org EXCEPT ![s] = OrgOf(e, TrialPlan)]
                /\ pending' = [pending EXCEPT ![e] = NoRow]
           ELSE UNCHANGED <<pending, user, org>>
    /\ Answer(q)
    /\ UNCHANGED <<mail, staff, estateVars, pictureVars, review>>

VerifyUser(q) ==
    /\ At(q, "verify", "user")
    /\ user' = [user EXCEPT ![req[q].email].verified = TRUE, ![req[q].email].link = Null]
    /\ Answer(q)
    /\ UNCHANGED <<pending, org, mail, staff, estateVars, pictureVars, review>>

-----------------------------------------------------------------------------
RegistrationStart(q) == RegisterLook(q) \/ ResendRead(q) \/ VerifyRead(q)

RegistrationStep(q) ==
    \/ RegisterPending(q) \/ RegisterWrite(q) \/ SendMail(q)
    \/ ResendPending(q) \/ ResendUser(q)
    \/ VerifyCommit(q) \/ VerifyUser(q)

RegistrationRequest ==
    [op: {"register"}, pc: {"pending"}, email: Emails, slug: Slugs]
    \cup [op: {"register"}, pc: {"write"}, email: Emails, slug: Slugs,
          id: Links \cup {Null}]
    \cup [op: {"resend"}, pc: {"pending"}, email: Emails, slug: Slugs, id: Links]
    \cup [op: {"resend"}, pc: {"user"}, email: Emails]
    \cup [op: {"verify"}, pc: {"commit"}, email: Emails, slug: Slugs, link: Links,
          id: Links]
    \cup [op: {"verify"}, pc: {"user"}, email: Emails]
    \cup [op: DrawsLink, pc: {"mail"}, email: Emails, slug: Slugs \cup {Null},
          link: Links]
==============================================================================
