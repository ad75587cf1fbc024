------------------------------- MODULE Sessions -------------------------------
(***************************************************************************)
(* auth.service.ts: the refresh tokens of one user.  Every query of the    *)
(* service that touches refresh_tokens is confined to one user, so users   *)
(* do not meet.                                                            *)
(*                                                                         *)
(* As everywhere in this program a request is a chain of awaited calls.    *)
(* An UPDATE or DELETE of a single row is atomic.  One of several rows is  *)
(* two steps under PostgreSQL's Read Committed, the isolation level the    *)
(* service leaves as it is: it lists the rows that match when it begins,   *)
(* and then writes those of them that still match; a row inserted in       *)
(* between is missed.                                                      *)
(***************************************************************************)
EXTENDS Naturals, FiniteSets

CONSTANTS
    TokenIds,           \* bound: refresh tokens drawn (48 random bytes each)
    Requests,           \* bound: requests in flight at the same time
    MaxPassword,        \* bound: password changes
    MaxFailedAttempts,  \* maxFailedAttempts
    MayFail,            \* environment: an awaited call may be rejected
    Standings,          \* bound: what an administrator makes of user and organization
    Null

ASSUME BoundAssumption == MaxPassword \in Nat /\ MaxFailedAttempts \in Nat \ {0}
ASSUME NullAssumption == Null \notin TokenIds

VARIABLES
    user,        \* row of table users
    token,       \* id -> row of table refresh_tokens
    handed,      \* history: the tokens that clients have been sent
    req,         \* the requests being served
    incidents    \* history: have requests overlapped, has one died

vars == <<user, token, handed, req, incidents>>

-----------------------------------------------------------------------------
Reasons == {"ROTATED", "LOGOUT", "REUSE_DETECTED", "INACTIVE_USER",
            "INACTIVE_ORGANIZATION", "PASSWORD_CHANGED", "PASSWORD_RESET"}

\* A token that was never drawn, and one whose row has been deleted.
Unused == [revoked |-> "UNUSED"]
Gone   == [revoked |-> "GONE"]

(***************************************************************************)
(* revoked is NO while revokedAt is null, else the reason.  A family is     *)
(* named after its first token.  password is history: which one opened the *)
(* session.  A token may expire at any time and is then refused without a  *)
(* write, which needs no state.                                            *)
(***************************************************************************)
TokenRow == [revoked: {"NO"} \cup Reasons, family: TokenIds, password: Nat]

\* Of an inactive user nothing is said about the organization.
Standing == {"GOOD", "INACTIVE_USER", "INACTIVE_ORGANIZATION"}

ASSUME StandingAssumption == Standings \subseteq Standing

UserRow == [standing: Standing, password: Nat,
            failed: 0..MaxFailedAttempts, locked: BOOLEAN, link: BOOLEAN]

\* What ensureWorkspaceAccessOrThrow may answer about the organization.
MayEnter  == user.standing # "INACTIVE_ORGANIZATION"
MayRefuse == user.standing # "GOOD"

Rows == {t \in TokenIds : token[t] \notin {Unused, Gone}}

Live == {t \in TokenIds : token[t].revoked = "NO"}

NewRow(family, password) ==
    [revoked |-> "NO", family |-> family, password |-> password]

-----------------------------------------------------------------------------
Idle == [op |-> "idle"]

Served(q) == req[q] # Idle

At(q, op, pc) == Served(q) /\ req[q].op = op /\ req[q].pc = pc

AtRest == \A q \in Requests : ~Served(q)

Answer(q) == req' = [req EXCEPT ![q] = Idle] /\ UNCHANGED incidents

\* Request q goes on with the locals in record next.
Continue(q, next) == req' = [req EXCEPT ![q] = next] /\ UNCHANGED incidents

\* A client's request is taken up with the locals in record first.
Begin(q, first) ==
    /\ ~Served(q)
    /\ req' = [req EXCEPT ![q] = first]
    /\ incidents' = incidents \cup (IF AtRest THEN {} ELSE {"overlap"})

Fail(q) ==
    /\ MayFail
    /\ Served(q)
    /\ req' = [req EXCEPT ![q] = Idle]
    /\ incidents' = incidents \cup {"death"}
    /\ UNCHANGED <<user, token, handed>>

\* Every token that requests in flight may draw is below the bound.
RoomForToken ==
    Cardinality({t \in TokenIds : token[t] = Unused})
        > Cardinality({p \in Requests : Served(p) /\ req[p].op \in {"login", "refresh"}})

RoomForPassword ==
    user.password + Cardinality({p \in Requests : Served(p) /\ req[p].op = "password"})
        < MaxPassword

-----------------------------------------------------------------------------
(***************************************************************************)
(* The updateMany calls that revoke all live tokens of the user or of one  *)
(* family (Null: of the user) for a reason.                                *)
(***************************************************************************)
Revoking(op, family, reason) ==
    [op |-> op, pc |-> "list", family |-> family, reason |-> reason]

\* A faulty revocation of the presented family's first token only.
RevokeListFirst(q) ==
    /\ Served(q) /\ req[q].pc = "list"
    /\ Continue(q, [op |-> req[q].op, pc |-> "revoke", family |-> req[q].family,
                    reason |-> req[q].reason, hits |-> {t \in Live : req[q].family \in {Null, t}}])
    /\ UNCHANGED <<user, token, handed>>

RevokeList(q) ==
    /\ Served(q) /\ req[q].pc = "list"
    /\ Continue(q, [op |-> req[q].op, pc |-> "revoke", family |-> req[q].family,
                    reason |-> req[q].reason, hits |-> {t \in Live : req[q].family \in {Null, token[t].family}}])
    /\ UNCHANGED <<user, token, handed>>

\* A faulty revocation that does not write the reason.
RevokeWriteOnly(q) ==
    /\ Served(q) /\ req[q].pc = "revoke"
    /\ token' = [t \in TokenIds |->
                   IF t \in req[q].hits \cap Live
                   THEN [token[t] EXCEPT !.revoked = "NULL"]
                   ELSE token[t]]
    /\ Answer(q)
    /\ UNCHANGED <<user, handed>>

RevokeWrite(q) ==
    /\ Served(q) /\ req[q].pc = "revoke"
    /\ token' = [t \in TokenIds |->
                   IF t \in req[q].hits \cap Live
                   THEN [token[t] EXCEPT !.revoked = req[q].reason]
                   ELSE token[t]]
    /\ Answer(q)
    /\ UNCHANGED <<user, handed>>

-----------------------------------------------------------------------------
(***************************************************************************)
(* login.  Verifying the password takes a while; the row it is verified    *)
(* against was read before.                                                *)
(***************************************************************************)
LoginRead(q) ==
    /\ user.standing # "INACTIVE_USER"
    /\ ~user.locked
    /\ RoomForToken
    /\ \E right \in BOOLEAN :
         Begin(q, [op |-> "login", pc |-> IF right THEN "right" ELSE "wrong",
                   password |-> user.password, failed |-> user.failed])
    /\ UNCHANGED <<user, token, handed>>

\* The count that is written was read before; beyond the limit it makes no difference.
LoginWrong(q) ==
    /\ At(q, "login", "wrong")
    /\ user' = IF req[q].failed + 1 >= MaxFailedAttempts
               THEN [user EXCEPT !.failed = MaxFailedAttempts, !.locked = TRUE]
               ELSE [user EXCEPT !.failed = req[q].failed + 1]
    /\ Answer(q)
    /\ UNCHANGED <<token, handed>>

LoginRight(q) ==
    /\ At(q, "login", "right")
    /\ user' = [user EXCEPT !.failed = 0, !.locked = FALSE]
    /\ Continue(q, [req[q] EXCEPT !.pc = "access"])
    /\ UNCHANGED <<token, handed>>

LoginAccess(q) ==
    /\ At(q, "login", "access")
    /\ \/ MayEnter  /\ Continue(q, [req[q] EXCEPT !.pc = "others"])
       \/ MayRefuse /\ Answer(q)
    /\ UNCHANGED <<user, token, handed>>

\* generateTokens with replaceExistingSessions: deleteMany of the user's tokens ...
LoginOthers(q) ==
    /\ At(q, "login", "others")
    /\ Continue(q, [op |-> "login", pc |-> "issue", password |-> req[q].password,
                    hits |-> Rows])
    /\ UNCHANGED <<user, token, handed>>

\* A faulty login that leaves the user's other sessions alone.
LoginIssueOnly(q) ==
    /\ At(q, "login", "issue")
    /\ \E n \in TokenIds :
         /\ token[n] = Unused
         /\ token' = [token EXCEPT ![n] = NewRow(n, req[q].password)]
         /\ handed' = handed \cup {n}
    /\ Answer(q)
    /\ UNCHANGED user

\* ... and create, in one transaction; the answer carries the token.
LoginIssue(q) ==
    /\ At(q, "login", "issue")
    /\ \E n \in TokenIds :
         /\ token[n] = Unused
         /\ token' = [[t \in TokenIds |-> IF t \in req[q].hits \cap Rows THEN Gone ELSE token[t]]
                        EXCEPT ![n] = NewRow(n, req[q].password)]
         /\ handed' = handed \cup {n}
    /\ Answer(q)
    /\ UNCHANGED user

-----------------------------------------------------------------------------
(***************************************************************************)
(* refresh.  The client presents a token it was sent; the requests that    *)
(* are refused without a write are left out.                               *)
(***************************************************************************)
RefreshRead(q) ==
    \E t \in Rows :
        /\ t \in handed
        /\ \/ /\ token[t].revoked = "ROTATED"
              /\ Begin(q, Revoking("refresh", token[t].family, "REUSE_DETECTED"))
           \/ /\ t \in Live
              /\ user.standing = "INACTIVE_USER"
              /\ Begin(q, Revoking("refresh", token[t].family, "INACTIVE_USER"))
           \/ /\ t \in Live
              /\ user.standing # "INACTIVE_USER"
              /\ RoomForToken
              /\ Begin(q, [op |-> "refresh", pc |-> "access", token |-> t,
                           family |-> token[t].family, password |-> token[t].password])
        /\ UNCHANGED <<user, token, handed>>

RefreshAccess(q) ==
    /\ At(q, "refresh", "access")
    /\ \/ MayEnter  /\ Continue(q, [req[q] EXCEPT !.pc = "rotate"])
       \/ /\ MayRefuse \/ MayFail
          /\ Continue(q, Revoking("refresh", req[q].family, "INACTIVE_ORGANIZATION"))
    /\ UNCHANGED <<user, token, handed>>

\* The token table once n has replaced t, if t was still live.
Rotated(n, t, family, password) ==
    [token EXCEPT ![n] = NewRow(family, password),
                  ![t] = IF t \in Live THEN [token[t] EXCEPT !.revoked = "ROTATED"]
                         ELSE token[t]]

\* The rotation is committed; the answer with token n waits for the access token.
Sending(n) == [op |-> "refresh", pc |-> "send", token |-> n]

\* A faulty rotation that hands the new token out whatever became of the old one.
RefreshRotateUnchecked(q) ==
    /\ At(q, "refresh", "rotate")
    /\ \E n \in TokenIds :
         /\ token[n] = Unused
         /\ token' = Rotated(n, req[q].token, req[q].family, req[q].password)
         /\ Continue(q, Sending(n))
    /\ UNCHANGED <<user, handed>>

\* A faulty rotation that refuses a late comer but leaves its new token behind.
RefreshRotateLeavesToken(q) ==
    /\ At(q, "refresh", "rotate")
    /\ \E n \in TokenIds :
         /\ token[n] = Unused
         /\ token' = Rotated(n, req[q].token, req[q].family, req[q].password)
         /\ Continue(q, IF req[q].token \in Live THEN Sending(n) ELSE Idle)
    /\ UNCHANGED <<user, handed>>

(***************************************************************************)
(* The transaction: insert the new token, revoke the presented one if it   *)
(* is still live (one row, so the count is 0 or 1).  At 0 the new token is *)
(* not sent and the family is revoked.                                     *)
(***************************************************************************)
RefreshRotate(q) ==
    /\ At(q, "refresh", "rotate")
    /\ \E n \in TokenIds :
         /\ token[n] = Unused
         /\ token' = Rotated(n, req[q].token, req[q].family, req[q].password)
         /\ Continue(q, IF req[q].token \in Live
                        THEN Sending(n)
                        ELSE Revoking("refresh", req[q].family, "REUSE_DETECTED"))
    /\ UNCHANGED <<user, handed>>

\* The access token is signed and the answer carries both.
RefreshSend(q) ==
    /\ At(q, "refresh", "send")
    /\ handed' = handed \cup {req[q].token}
    /\ Answer(q)
    /\ UNCHANGED <<user, token>>

-----------------------------------------------------------------------------
\* A faulty logout without the condition revokedAt: null.
LogoutAnyToken(t) ==
    /\ t \in Rows
    /\ t \in handed
    /\ token' = [token EXCEPT ![t].revoked = "LOGOUT"]
    /\ UNCHANGED <<user, handed, req, incidents>>

\* logout: one conditional update of one row.
Logout(t) ==
    /\ t \in Live
    /\ t \in handed
    /\ token' = [token EXCEPT ![t].revoked = "LOGOUT"]
    /\ UNCHANGED <<user, handed, req, incidents>>

\* forgotPassword: only the link sent last is good.
ForgotPassword ==
    /\ user' = [user EXCEPT !.link = TRUE]
    /\ UNCHANGED <<token, handed, req, incidents>>

\* resetPassword finds the user by the link that was sent last.
ResetRead(q) ==
    /\ user.link
    /\ RoomForPassword
    /\ Begin(q, [op |-> "password", pc |-> "reset"])
    /\ UNCHANGED <<user, token, handed>>

\* The update that follows the hashing is by id: it asks for no link.
ResetWrite(q) ==
    /\ At(q, "password", "reset")
    /\ user' = [user EXCEPT !.password = @ + 1, !.link = FALSE,
                            !.failed = 0, !.locked = FALSE]
    /\ Continue(q, Revoking("password", Null, "PASSWORD_RESET"))
    /\ UNCHANGED <<token, handed>>

\* changePassword of a user whom JwtAuthGuard admits and who knows the present one.
ChangeRead(q) ==
    /\ user.standing = "GOOD"
    /\ RoomForPassword
    /\ Begin(q, [op |-> "password", pc |-> "change"])
    /\ UNCHANGED <<user, token, handed>>

\* A faulty change of password that forgets the sessions.
ChangeWriteOnly(q) ==
    /\ At(q, "password", "change")
    /\ user' = [user EXCEPT !.password = @ + 1]
    /\ Answer(q)
    /\ UNCHANGED <<token, handed>>

ChangeWrite(q) ==
    /\ At(q, "password", "change")
    /\ user' = [user EXCEPT !.password = @ + 1]
    /\ Continue(q, Revoking("password", Null, "PASSWORD_CHANGED"))
    /\ UNCHANGED <<token, handed>>

-----------------------------------------------------------------------------
(***************************************************************************)
(* What happens elsewhere: an administrator (de)activates the user or the  *)
(* organization, and time passes for links and locks.                      *)
(***************************************************************************)
SetStanding(standing) ==
    /\ user' = [user EXCEPT !.standing = standing]
    /\ UNCHANGED <<token, handed, req, incidents>>

LinkExpires ==
    /\ user' = [user EXCEPT !.link = FALSE]
    /\ UNCHANGED <<token, handed, req, incidents>>

LockLapses ==
    /\ user' = [user EXCEPT !.locked = FALSE]
    /\ UNCHANGED <<token, handed, req, incidents>>

Start(q) == LoginRead(q) \/ RefreshRead(q) \/ ResetRead(q) \/ ChangeRead(q)

Step(q) ==
    \/ LoginWrong(q) \/ LoginRight(q) \/ LoginAccess(q) \/ LoginOthers(q) \/ LoginIssue(q)
    \/ RefreshAccess(q) \/ RefreshRotate(q) \/ RefreshSend(q)
    \/ ResetWrite(q) \/ ChangeWrite(q)
    \/ RevokeList(q) \/ RevokeWrite(q)

World ==
    \/ \E t \in TokenIds : Logout(t)
    \/ ForgotPassword
    \/ \E standing \in Standings : SetStanding(standing)
    \/ LinkExpires \/ LockLapses

Init ==
    /\ user = [standing |-> "GOOD", password |-> 0,
               failed |-> 0, locked |-> FALSE, link |-> FALSE]
    /\ token = [t \in TokenIds |-> Unused]
    /\ handed = {}
    /\ req = [q \in Requests |-> Idle]
    /\ incidents = {}

Next == World \/ \E q \in Requests : Start(q) \/ Step(q) \/ Fail(q)

Spec == Init /\ [][Next]_vars

-----------------------------------------------------------------------------
Request ==
    [op: {"login"}, pc: {"right", "wrong", "access", "others"}, password: Nat,
     failed: 0..MaxFailedAttempts]
    \cup [op: {"login"}, pc: {"issue"}, password: Nat, hits: SUBSET TokenIds]
    \cup [op: {"refresh"}, pc: {"access", "rotate"}, token: TokenIds, family: TokenIds,
          password: Nat]
    \cup [op: {"refresh"}, pc: {"send"}, token: TokenIds]
    \cup [op: {"password"}, pc: {"reset", "change"}]
    \cup [op: {"refresh", "password"}, pc: {"list"}, family: TokenIds \cup {Null},
          reason: Reasons]
    \cup [op: {"refresh", "password"}, pc: {"revoke"}, family: TokenIds \cup {Null},
          reason: Reasons, hits: SUBSET TokenIds]

TypeOK ==
    /\ user \in UserRow
    /\ token \in [TokenIds -> TokenRow \cup {Unused, Gone}]
    /\ handed \subseteq TokenIds
    /\ req \in [Requests -> Request \cup {Idle}]
    /\ incidents \subseteq {"overlap", "death"}

\* Tokens that are committed and on their way to the client, and those and the ones it has.
OnTheWay == {req[q].token : q \in {p \in Requests : At(p, "refresh", "send")}}

Promised == handed \cup OnTheWay

(***************************************************************************)
(* A session is a chain: however its requests overlap, race with a logout  *)
(* or die half-way, at most one token of it that a client has or is about  *)
(* to get can still be exchanged.                                          *)
(***************************************************************************)
OneTokenPerSession ==
    \A s, t \in Live \cap Promised : token[s].family = token[t].family => s = t

(***************************************************************************)
(* A revoked token is never live again, and the reason written first       *)
(* stays: the answer to a token presented twice depends on it.             *)
(***************************************************************************)
RevokedForGood ==
    [][\A t \in TokenIds :
          token[t].revoked \in Reasons \cup {"GONE"} =>
              token'[t].revoked \in {token[t].revoked, "GONE"}]_vars

(***************************************************************************)
(* The token that a refused refresh has inserted does not stay behind:     *)
(* once all requests are answered and none has died, each live token is    *)
(* in the hands of the client.                                             *)
(***************************************************************************)
NoTokenLeftBehind ==
    AtRest /\ "death" \notin incidents => Live \subseteq handed

(***************************************************************************)
(* replaceExistingSessions: when requests have neither overlapped nor      *)
(* died, the user has one session.                                         *)
(***************************************************************************)
OneSession ==
    AtRest /\ incidents = {} =>
        \A s, t \in Live : token[s].family = token[t].family

(***************************************************************************)
(* resetPassword and changePassword end what the old password has opened:  *)
(* when requests have neither overlapped nor died, every live token goes   *)
(* back to a login with the present password.                              *)
(***************************************************************************)
SessionsOfThePassword ==
    AtRest /\ incidents = {} =>
        \A t \in Live : token[t].password = user.password

(***************************************************************************)
(* A rotated token that comes back ends its session: while requests have   *)
(* neither overlapped nor died, no token of the family is live once the    *)
(* request that brought it is answered.                                    *)
(***************************************************************************)
ReuseEndsSession ==
    [][\A q \in Requests :
          /\ incidents' = {}
          /\ Served(q) /\ req[q].pc = "revoke" /\ req'[q] = Idle
          /\ req[q].reason = "REUSE_DETECTED"
          => \A t \in TokenIds :
                token'[t].revoked = "NO" => token[t].family # req[q].family]_vars

-----------------------------------------------------------------------------
(***************************************************************************)
(* The tokens as SessionChain sees them.                                   *)
(***************************************************************************)
InHand(family) == {t \in Live : token[t].family = family /\ t \in Promised}

Exchangeable(family) ==
    LET mine == InHand(family) IN IF mine = {} THEN Null ELSE CHOOSE t \in mine : TRUE

Drawn == {t \in TokenIds : token[t] # Unused}

Chains == INSTANCE SessionChain
            WITH NoToken <- Null,
                 hand    <- [family \in TokenIds |-> Exchangeable(family)],
                 used    <- Drawn

(***************************************************************************)
(* However logins, refreshes, logouts and revocations overlap or die, the  *)
(* service implements SessionChain: a refresh replaces the one token the   *)
(* client has of a session or gives it nothing, and what was exchanged,    *)
(* logged out or revoked is never good again.                              *)
(***************************************************************************)
ChainRefined == Chains!Spec

-----------------------------------------------------------------------------
(***************************************************************************)
(* Inductive strengthening of OneTokenPerSession and NoTokenLeftBehind:    *)
(* families and tokens in use are never drawn again, a refresh works on a   *)
(* token that the client has, and a token that will not be sent is about   *)
(* to be revoked.                                                          *)
(***************************************************************************)
FamiliesDrawn ==
    /\ \A t \in Rows : token[token[t].family] # Unused
    /\ \A t \in Promised : token[t] # Unused

RefreshSound(q) ==
    At(q, "refresh", "access") \/ At(q, "refresh", "rotate") =>
        LET t == req[q].token
        IN  /\ token[t] # Unused
            /\ token[req[q].family] # Unused
            /\ t \in handed
            /\ t \in Rows => token[t].family = req[q].family

Doomed(t) ==
    \E q \in Requests :
        /\ Served(q)
        /\ \/ req[q].pc = "list" /\ req[q].family \in {Null, token[t].family}
           \/ req[q].pc = "revoke" /\ t \in req[q].hits

UnsentIsDoomed ==
    "death" \notin incidents => \A t \in Live : t \in Promised \/ Doomed(t)

SessionInv ==
    /\ FamiliesDrawn
    /\ \A q \in Requests : RefreshSound(q)
    /\ OneTokenPerSession
    /\ UnsentIsDoomed
==============================================================================
