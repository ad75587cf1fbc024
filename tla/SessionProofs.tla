---------------------------- MODULE SessionProofs -----------------------------
(***************************************************************************)
(* Sessions stay single chains, revocations are final and no token stays   *)
(* behind, for any number of tokens and of overlapping requests.           *)
(***************************************************************************)
EXTENDS Sessions, TLAPS

Records == TokenRow \cup {Unused, Gone}

\* The shapes of a row of refresh_tokens.
LEMMA RowShape ==
    ASSUME TypeOK, NEW t \in TokenIds
    PROVE  /\ t \in Live => t \in Rows
           /\ t \in Rows <=> token[t] \in TokenRow
           /\ t \in Rows => token[t].family \in TokenIds /\ token[t].password \in Nat
           /\ Unused \notin TokenRow /\ Gone \notin TokenRow /\ Unused # Gone
<1>1. Unused \notin TokenRow /\ Gone \notin TokenRow /\ Unused # Gone
  BY DEF Unused, Gone, TokenRow, Reasons
<1>2. token[t] \in TokenRow \cup {Unused, Gone}
  BY DEF TypeOK
<1>3. t \in Rows <=> token[t] \in TokenRow
  BY <1>1, <1>2 DEF Rows
<1>4. t \in Live => t \in Rows
  BY <1>2 DEF Live, Rows, Unused, Gone
<1>5. t \in Rows => token[t].family \in TokenIds /\ token[t].password \in Nat
  BY <1>3 DEF TokenRow
<1>6. QED
  BY <1>1, <1>3, <1>4, <1>5

-----------------------------------------------------------------------------
(***************************************************************************)
(* Types.                                                                  *)
(***************************************************************************)
LEMMA SessionTypeInit == Init => TypeOK
<1> SUFFICES ASSUME Init PROVE TypeOK
  OBVIOUS
<1>1. 0 \in 0..MaxFailedAttempts /\ 0 \in Nat
  BY BoundAssumption
<1>2. user \in UserRow
  BY <1>1 DEF Init, UserRow, Standing
<1>3. token \in [TokenIds -> TokenRow \cup {Unused, Gone}]
  BY DEF Init
<1>4. QED
  BY <1>2, <1>3 DEF Init, TypeOK

\* The updates of the row in users that a request makes.
LEMMA UserUpdates ==
    ASSUME TypeOK, NEW n \in 0..MaxFailedAttempts, NEW locked \in BOOLEAN
    PROVE  /\ [user EXCEPT !.failed = n] \in UserRow
           /\ [user EXCEPT !.failed = n, !.locked = locked] \in UserRow
           /\ [user EXCEPT !.password = @ + 1] \in UserRow
           /\ [user EXCEPT !.password = @ + 1, !.link = FALSE,
                           !.failed = n, !.locked = locked] \in UserRow
<1>1. user \in UserRow
  BY DEF TypeOK
<1>2. user.password + 1 \in Nat
  BY <1>1 DEF UserRow
<1>3. QED
  BY <1>1, <1>2 DEF UserRow

\* A row that is inserted, and the table around it.
LEMMA NewRowType ==
    ASSUME NEW f \in TokenIds, NEW p \in Nat
    PROVE  NewRow(f, p) \in TokenRow
  BY DEF NewRow, TokenRow

LEMMA RotatedType ==
    ASSUME TypeOK, NEW n \in TokenIds, NEW t \in TokenIds, NEW f \in TokenIds, NEW p \in Nat
    PROVE  Rotated(n, t, f, p) \in [TokenIds -> TokenRow \cup {Unused, Gone}]
<1>1. NewRow(f, p) \in TokenRow
  BY NewRowType
<1>2. t \in Live => [token[t] EXCEPT !.revoked = "ROTATED"] \in TokenRow
  BY RowShape DEF TokenRow, Reasons
<1>3. token \in [TokenIds -> TokenRow \cup {Unused, Gone}]
  BY DEF TypeOK
<1>4. QED
  BY <1>1, <1>2, <1>3 DEF Rotated

LEMMA RequestPut ==
    ASSUME TypeOK, NEW q \in Requests, NEW x \in Request \cup {Idle}
    PROVE  [req EXCEPT ![q] = x] \in [Requests -> Request \cup {Idle}]
  BY DEF TypeOK

LEMMA SessionTypeStep == TypeOK /\ [Next]_vars => TypeOK'
<1> SUFFICES ASSUME TypeOK, [Next]_vars PROVE TypeOK'
  OBVIOUS
<1>1. CASE UNCHANGED vars
  BY <1>1 DEF vars, TypeOK
<1>2. CASE World
  <2>1. user' \in UserRow
    BY <1>2, StandingAssumption DEF World, Logout, ForgotPassword, SetStanding,
       LinkExpires, LockLapses, TypeOK, UserRow
  <2>2. token' \in [TokenIds -> TokenRow \cup {Unused, Gone}]
    <3>1. ASSUME NEW t \in TokenIds, Logout(t)
          PROVE  token' \in [TokenIds -> TokenRow \cup {Unused, Gone}]
      <4>1. [token[t] EXCEPT !.revoked = "LOGOUT"] \in TokenRow
        BY <3>1, RowShape DEF Logout, TokenRow, Reasons
      <4>2. QED
        BY <3>1, <4>1 DEF Logout, TypeOK
    <3>2. QED
      BY <1>2, <3>1 DEF World, ForgotPassword, SetStanding, LinkExpires,
         LockLapses, TypeOK
  <2>3. UNCHANGED <<handed, req, incidents>>
    BY <1>2 DEF World, Logout, ForgotPassword, SetStanding, LinkExpires, LockLapses
  <2>4. QED
    BY <2>1, <2>2, <2>3 DEF TypeOK
<1>3. ASSUME NEW q \in Requests, Start(q) \/ Step(q) \/ Fail(q) PROVE TypeOK'
  <2>0. /\ req[q] \in Request \cup {Idle}
        /\ user \in UserRow
        /\ Served(q) => req[q] \in Request
    BY DEF TypeOK, Served
  <2> DEFINE Locals(x) == x \in Request \cup {Idle}
             Table == token' \in [TokenIds -> TokenRow \cup {Unused, Gone}]
             Slots == req' \in [Requests -> Request \cup {Idle}]
             Marks == incidents' \subseteq {"overlap", "death"}
  <2>1. ASSUME NEW x \in Request \cup {Idle}, Continue(q, x) \/ Begin(q, x)
        PROVE  Slots /\ Marks
    BY <2>1, RequestPut DEF Continue, Begin, TypeOK
  <2>2. ASSUME Answer(q) \/ Fail(q) PROVE Slots /\ Marks
    BY <2>2, RequestPut DEF Answer, Fail, TypeOK
  <2>3. CASE LoginRead(q)
    <3>1. \E right \in BOOLEAN :
             Begin(q, [op |-> "login", pc |-> IF right THEN "right" ELSE "wrong",
                       password |-> user.password, failed |-> user.failed])
      BY <2>3 DEF LoginRead
    <3>2. \A right \in BOOLEAN :
             [op |-> "login", pc |-> IF right THEN "right" ELSE "wrong",
              password |-> user.password, failed |-> user.failed] \in Request
      BY <2>0 DEF Request, UserRow
    <3>3. Slots /\ Marks
      BY <3>1, <3>2, <2>1
    <3>4. QED
      BY <2>3, <3>3 DEF LoginRead, TypeOK
  <2>4. CASE RefreshRead(q)
    <3>1. PICK t \in Rows : RefreshRead(q)!(t)
      BY <2>4 DEF RefreshRead
    <3>2. t \in TokenIds /\ token[t].family \in TokenIds /\ token[t].password \in Nat
      BY RowShape DEF Rows
    <3>3. /\ Revoking("refresh", token[t].family, "REUSE_DETECTED") \in Request
          /\ Revoking("refresh", token[t].family, "INACTIVE_USER") \in Request
          /\ [op |-> "refresh", pc |-> "access", token |-> t,
              family |-> token[t].family, password |-> token[t].password] \in Request
      BY <3>2 DEF Revoking, Request, Reasons
    <3>4. Slots /\ Marks
      BY <3>1, <3>3, <2>1
    <3>5. QED
      BY <3>1, <3>4 DEF TypeOK
  <2>5. CASE ResetRead(q) \/ ChangeRead(q)
    <3>1. /\ [op |-> "password", pc |-> "reset"] \in Request
          /\ [op |-> "password", pc |-> "change"] \in Request
      BY DEF Request
    <3>2. Slots /\ Marks
      BY <2>5, <3>1, <2>1 DEF ResetRead, ChangeRead
    <3>3. QED
      BY <2>5, <3>2 DEF ResetRead, ChangeRead, TypeOK
  <2>6. CASE LoginWrong(q)
    <3>1. req[q].failed \in 0..MaxFailedAttempts
      BY <2>6, <2>0 DEF LoginWrong, At, Request
    <3>2. user' \in UserRow
      <4>1. CASE req[q].failed + 1 >= MaxFailedAttempts
        <5>1. MaxFailedAttempts \in 0..MaxFailedAttempts
          BY BoundAssumption
        <5>2. QED
          BY <2>6, <4>1, <5>1, UserUpdates DEF LoginWrong
      <4>2. CASE ~(req[q].failed + 1 >= MaxFailedAttempts)
        <5>1. req[q].failed + 1 \in 0..MaxFailedAttempts
          BY <3>1, <4>2, BoundAssumption
        <5>2. QED
          BY <2>6, <4>2, <5>1, UserUpdates DEF LoginWrong
      <4>3. QED
        BY <4>1, <4>2
    <3>3. QED
      BY <2>6, <3>2, <2>2 DEF LoginWrong, TypeOK
  <2>7. CASE LoginRight(q)
    <3>1. [req[q] EXCEPT !.pc = "access"] \in Request
      BY <2>7, <2>0 DEF LoginRight, At, Request
    <3>2. user' \in UserRow
      <4>1. 0 \in 0..MaxFailedAttempts
        BY BoundAssumption
      <4>2. QED
        BY <2>7, <4>1, UserUpdates DEF LoginRight
    <3>3. QED
      BY <2>7, <3>1, <3>2, <2>1 DEF LoginRight, TypeOK
  <2>8. CASE LoginAccess(q)
    <3>1. [req[q] EXCEPT !.pc = "others"] \in Request
      BY <2>8, <2>0 DEF LoginAccess, At, Request
    <3>2. QED
      BY <2>8, <3>1, <2>1, <2>2 DEF LoginAccess, TypeOK
  <2>9. CASE LoginOthers(q)
    <3>1. [op |-> "login", pc |-> "issue", password |-> req[q].password, hits |-> Rows]
            \in Request
      BY <2>9, <2>0 DEF LoginOthers, At, Request, Rows
    <3>2. QED
      BY <2>9, <3>1, <2>1 DEF LoginOthers, TypeOK
  <2>10. CASE LoginIssue(q)
    <3>1. req[q].password \in Nat
      BY <2>10, <2>0 DEF LoginIssue, At, Request
    <3>2. PICK n \in TokenIds :
            /\ token' = [[t \in TokenIds |-> IF t \in req[q].hits \cap Rows THEN Gone
                                            ELSE token[t]]
                           EXCEPT ![n] = NewRow(n, req[q].password)]
            /\ handed' = handed \cup {n}
      BY <2>10, Zenon DEF LoginIssue
    <3>3. NewRow(n, req[q].password) \in TokenRow
      BY <3>1, NewRowType
    <3>4. Table
      BY <3>2, <3>3 DEF TypeOK
    <3>5. QED
      BY <2>10, <3>4, <2>2 DEF LoginIssue, TypeOK
  <2>11. CASE RefreshAccess(q)
    <3>1. /\ [req[q] EXCEPT !.pc = "rotate"] \in Request
          /\ Revoking("refresh", req[q].family, "INACTIVE_ORGANIZATION") \in Request
      BY <2>11, <2>0 DEF RefreshAccess, At, Request, Revoking, Reasons
    <3>2. QED
      BY <2>11, <3>1, <2>1 DEF RefreshAccess, TypeOK
  <2>12. CASE RefreshRotate(q)
    <3>1. /\ req[q].token \in TokenIds /\ req[q].family \in TokenIds
          /\ req[q].password \in Nat
      BY <2>12, <2>0 DEF RefreshRotate, At, Request
    <3>2. Table
      BY <2>12, <3>1, RotatedType DEF RefreshRotate
    <3>3. /\ Revoking("refresh", req[q].family, "REUSE_DETECTED") \in Request
          /\ \A n \in TokenIds : Sending(n) \in Request
      BY <3>1 DEF Request, Revoking, Sending, Reasons
    <3>4. Slots /\ Marks
      BY <2>12, <3>3, <2>1 DEF RefreshRotate
    <3>5. QED
      BY <2>12, <3>2, <3>4 DEF RefreshRotate, TypeOK
  <2>18. CASE RefreshSend(q)
    <3>1. req[q].token \in TokenIds
      BY <2>18, <2>0 DEF RefreshSend, At, Request
    <3>2. QED
      BY <2>18, <3>1, <2>2 DEF RefreshSend, TypeOK
  <2>13. CASE ResetWrite(q) \/ ChangeWrite(q)
    <3>1. /\ Revoking("password", Null, "PASSWORD_RESET") \in Request
          /\ Revoking("password", Null, "PASSWORD_CHANGED") \in Request
      BY DEF Request, Revoking, Reasons
    <3>2. user' \in UserRow
      <4>1. 0 \in 0..MaxFailedAttempts
        BY BoundAssumption
      <4>2. QED
        BY <2>13, <4>1, UserUpdates DEF ResetWrite, ChangeWrite
    <3>3. QED
      BY <2>13, <3>1, <3>2, <2>1 DEF ResetWrite, ChangeWrite, TypeOK
  <2>14. CASE RevokeList(q)
    <3>1. /\ req[q].op \in {"refresh", "password"}
          /\ req[q].family \in TokenIds \cup {Null} /\ req[q].reason \in Reasons
      BY <2>14, <2>0 DEF RevokeList, Request
    <3>2. [op |-> req[q].op, pc |-> "revoke", family |-> req[q].family,
           reason |-> req[q].reason,
           hits |-> {t \in Live : req[q].family \in {Null, token[t].family}}] \in Request
      BY <3>1 DEF Request, Live
    <3>3. QED
      BY <2>14, <3>2, <2>1 DEF RevokeList, TypeOK
  <2>15. CASE RevokeWrite(q)
    <3>1. req[q].reason \in Reasons
      BY <2>15, <2>0 DEF RevokeWrite, Request
    <3>2. ASSUME NEW t \in Live PROVE [token[t] EXCEPT !.revoked = req[q].reason] \in TokenRow
      BY <3>1, RowShape DEF Live, TokenRow
    <3>3. Table
      BY <2>15, <3>2 DEF RevokeWrite, TypeOK
    <3>4. QED
      BY <2>15, <3>3, <2>2 DEF RevokeWrite, TypeOK
  <2>16. CASE Fail(q)
    BY <2>16, <2>2 DEF Fail, TypeOK
  <2>17. QED
    BY <1>3, <2>3, <2>4, <2>5, <2>6, <2>7, <2>8, <2>9, <2>10, <2>11, <2>12, <2>13,
       <2>14, <2>15, <2>16, <2>18 DEF Start, Step
<1>4. QED
  BY <1>1, <1>2, <1>3 DEF Next

(***************************************************************************)
(* The rows of users and refresh_tokens and the locals of every request    *)
(* keep their types.                                                       *)
(***************************************************************************)
THEOREM SessionTypeCorrect == Spec => []TypeOK
  BY SessionTypeInit, SessionTypeStep, PTL DEF Spec

-----------------------------------------------------------------------------
(***************************************************************************)
(* What a step may do to a token.                                          *)
(***************************************************************************)
\* Token t keeps its row, but for the reason it may have been revoked for.
Kept(t) ==
    \/ token'[t] = token[t]
    \/ /\ t \in Live
       /\ \E reason \in Reasons : token'[t] = [token[t] EXCEPT !.revoked = reason]

\* Every step but the two that draw a token keeps the tokens or revokes live ones.
LEMMA TokensKept ==
    ASSUME TypeOK, [Next]_vars,
           \A q \in Requests : ~LoginIssue(q) /\ ~RefreshRotate(q)
    PROVE  \A t \in TokenIds : Kept(t)
<1>1. CASE UNCHANGED token
  BY <1>1 DEF Kept
<1>2. ASSUME NEW s \in TokenIds, Logout(s) PROVE \A t \in TokenIds : Kept(t)
  BY <1>2 DEF Logout, Kept, TypeOK, Reasons
<1>3. ASSUME NEW q \in Requests, RevokeWrite(q) PROVE \A t \in TokenIds : Kept(t)
  <2>1. req[q].reason \in Reasons
    BY <1>3 DEF RevokeWrite, TypeOK, Request, Served
  <2>2. QED
    BY <1>3, <2>1 DEF RevokeWrite, Kept
<1>4. UNCHANGED token \/ (\E s \in TokenIds : Logout(s))
        \/ (\E q \in Requests : RevokeWrite(q))
  BY DEF Next, vars, World, ForgotPassword, SetStanding, LinkExpires, LockLapses, Start,
     Step, Fail, LoginRead, RefreshRead, ResetRead, ChangeRead, LoginWrong, LoginRight,
     LoginAccess, LoginOthers, RefreshAccess, RefreshSend, ResetWrite, ChangeWrite,
     RevokeList
<1>5. QED
  BY <1>1, <1>2, <1>3, <1>4

\* A token that is kept is live only if it was, and its row says the same otherwise.
LEMMA KeptMeans ==
    ASSUME TypeOK, TypeOK', NEW t \in TokenIds, Kept(t)
    PROVE  /\ t \in Live' => t \in Live
           /\ t \in Rows' <=> t \in Rows
           /\ t \in Rows => token'[t].family = token[t].family
           /\ token'[t] = Unused <=> token[t] = Unused
           /\ token[t].revoked \in Reasons \cup {"GONE"} =>
                token'[t].revoked = token[t].revoked
<1>1. CASE token'[t] = token[t]
  BY <1>1 DEF Live, Rows
<1>2. CASE t \in Live /\ \E reason \in Reasons :
             token'[t] = [token[t] EXCEPT !.revoked = reason]
  <2>1. PICK reason \in Reasons : token'[t] = [token[t] EXCEPT !.revoked = reason]
    BY <1>2
  <2>2. t \in Rows /\ token[t] \in TokenRow
    BY <1>2, RowShape
  <2>3. /\ token'[t].family = token[t].family
        /\ token'[t].revoked = reason /\ token'[t] \in TokenRow
    BY <2>1, <2>2 DEF TokenRow
  <2>4. token[t].revoked = "NO" /\ reason # "NO"
    BY <1>2 DEF Live, Reasons
  <2>5. Unused \notin TokenRow /\ Gone \notin TokenRow
    BY RowShape
  <2>6. t \notin Live' /\ t \in Rows'
    BY <2>3, <2>4, <2>5 DEF Live, Rows
  <2>7. token[t] # Unused /\ token'[t] # Unused
    BY <2>2, <2>3, <2>5
  <2>8. token[t].revoked \notin Reasons \cup {"GONE"}
    BY <2>4 DEF Reasons
  <2>9. QED
    BY <2>2, <2>3, <2>6, <2>7, <2>8
<1>3. QED
  BY <1>1, <1>2 DEF Kept

\* The table after a login.
LEMMA IssueMeans ==
    ASSUME TypeOK, NEW q \in Requests, LoginIssue(q)
    PROVE  \E n \in TokenIds :
             /\ token[n] = Unused
             /\ token'[n] = NewRow(n, req[q].password)
             /\ handed' = handed \cup {n}
             /\ \A t \in TokenIds \ {n} : token'[t] \in {token[t], Gone}
             /\ \A t \in TokenIds \ {n} : token'[t] = Unused <=> token[t] = Unused
<1>1. Gone # Unused
  BY DEF Gone, Unused
<1>2. QED
  BY <1>1 DEF LoginIssue, Rows

\* The table after a rotation: of the presented token and of the new one.
LEMMA RotateMeans ==
    ASSUME TypeOK, SessionInv, NEW q \in Requests, RefreshRotate(q)
    PROVE  \E n \in TokenIds :
             LET t == req[q].token
             IN  /\ token[n] = Unused /\ n # t /\ t \in TokenIds
                 /\ token'[n] = NewRow(req[q].family, req[q].password)
                 /\ token'[t] = IF t \in Live THEN [token[t] EXCEPT !.revoked = "ROTATED"]
                                ELSE token[t]
                 /\ \A s \in TokenIds \ {n, t} : token'[s] = token[s]
                 /\ handed' = handed
                 /\ req' = [req EXCEPT ![q] =
                              IF t \in Live THEN Sending(n)
                              ELSE Revoking("refresh", req[q].family, "REUSE_DETECTED")]
<1>1. PICK n \in TokenIds :
         /\ token[n] = Unused
         /\ token' = Rotated(n, req[q].token, req[q].family, req[q].password)
         /\ Continue(q, IF req[q].token \in Live THEN Sending(n)
                        ELSE Revoking("refresh", req[q].family, "REUSE_DETECTED"))
  BY DEF RefreshRotate
<1>2. req[q].token \in TokenIds
  BY DEF RefreshRotate, At, Served, TypeOK, Request
<1>3. token[req[q].token] # Unused
  BY DEF SessionInv, RefreshSound, RefreshRotate
<1>4. n # req[q].token
  BY <1>1, <1>3
<1>5. token \in [TokenIds -> Records]
  BY DEF TypeOK, Records
<1>6. handed' = handed
  BY DEF RefreshRotate
<1>7. QED
  BY <1>1, <1>2, <1>4, <1>5, <1>6 DEF Rotated, Continue

\* The two places a rotation goes on to.
LEMMA NextOfRotation ==
    ASSUME NEW n, NEW family, NEW reason
    PROVE  /\ Sending(n).op = "refresh" /\ Sending(n).pc = "send"
           /\ Revoking("refresh", family, reason).op = "refresh"
           /\ Revoking("refresh", family, reason).pc = "list"
  BY DEF Sending, Revoking

(***************************************************************************)
(* Where a refresh that is not yet refused comes from.                     *)
(***************************************************************************)
LEMMA RefreshComes ==
    ASSUME TypeOK, [Next]_vars, NEW q \in Requests, Served(q)', req'[q].op = "refresh",
           req'[q].pc \notin {"list", "revoke"}
    PROVE  req'[q] = req[q] \/ RefreshRead(q) \/ RefreshAccess(q) \/ RefreshRotate(q)
<1>1. ASSUME NEW p \in Requests, p # q, Start(p) \/ Step(p) \/ Fail(p)
      PROVE  req'[q] = req[q]
  BY <1>1 DEF Start, Step, Fail, LoginRead, RefreshRead, ResetRead, ChangeRead,
     LoginWrong, LoginRight, LoginAccess, LoginOthers, LoginIssue, RefreshAccess,
     RefreshRotate, RefreshSend, ResetWrite, ChangeWrite, RevokeList, RevokeWrite, Begin,
     Continue, Answer, TypeOK
<1>2. ASSUME Start(q) \/ Step(q) \/ Fail(q), ~RefreshRead(q), ~RefreshAccess(q),
             ~RefreshRotate(q)
      PROVE  FALSE
  <2> DEFINE Sent == req'[q] = Idle \/ req'[q].op # "refresh"
                       \/ req'[q].pc \in {"list", "revoke"}
  <2>0. ~Sent
    BY DEF Served
  <2> HIDE DEF Sent
  <2>1. ASSUME Answer(q) \/ Fail(q) PROVE Sent
    BY <2>1 DEF Answer, Fail, TypeOK, Sent
  <2>2. ASSUME NEW op, NEW family, NEW reason,
               Continue(q, Revoking(op, family, reason))
        PROVE  Sent
    BY <2>2 DEF Continue, Revoking, TypeOK, Sent
  <2>3. CASE LoginRead(q) \/ ResetRead(q) \/ ChangeRead(q)
    BY <2>3, <2>0 DEF LoginRead, ResetRead, ChangeRead, Begin, TypeOK, Sent
  <2>4. CASE LoginWrong(q) \/ LoginIssue(q) \/ RefreshSend(q) \/ RevokeWrite(q) \/ Fail(q)
    BY <2>4, <2>0, <2>1 DEF LoginWrong, LoginIssue, RefreshSend, RevokeWrite
  <2>5. CASE LoginRight(q) \/ LoginAccess(q)
    <3>1. req[q] \in Request /\ req[q].op = "login"
      BY <2>5 DEF LoginRight, LoginAccess, At, Served, TypeOK
    <3>2. [req[q] EXCEPT !.pc = "access"].op = "login"
            /\ [req[q] EXCEPT !.pc = "others"].op = "login"
      BY <3>1 DEF Request
    <3>3. QED
      BY <2>5, <2>0, <2>1, <3>2 DEF LoginRight, LoginAccess, Continue, TypeOK, Sent
  <2>6. CASE LoginOthers(q)
    BY <2>6, <2>0 DEF LoginOthers, Continue, TypeOK, Sent
  <2>8. CASE ResetWrite(q) \/ ChangeWrite(q)
    BY <2>8, <2>0, <2>2 DEF ResetWrite, ChangeWrite
  <2>9. CASE RevokeList(q)
    BY <2>9, <2>0 DEF RevokeList, Continue, TypeOK, Sent
  <2>10. QED
    BY <1>2, <2>3, <2>4, <2>5, <2>6, <2>8, <2>9 DEF Start, Step
<1>3. QED
  BY <1>1, <1>2 DEF Next, vars, World, Logout, ForgotPassword, SetStanding,
     LinkExpires, LockLapses

-----------------------------------------------------------------------------
(***************************************************************************)
(* What a step may do to the tokens that clients have or are about to get. *)
(***************************************************************************)
LEMMA HandedStays ==
    ASSUME TypeOK, [Next]_vars
    PROVE  /\ handed \subseteq handed'
           /\ handed' = handed \/ \E q \in Requests : LoginIssue(q) \/ RefreshSend(q)
  BY DEF Next, vars, World, Logout, ForgotPassword, SetStanding, LinkExpires, LockLapses,
     Start, Step, Fail, LoginRead, RefreshRead, ResetRead, ChangeRead,
     LoginWrong, LoginRight, LoginAccess, LoginOthers, LoginIssue, RefreshAccess,
     RefreshRotate, RefreshSend, ResetWrite, ChangeWrite, RevokeList, RevokeWrite

\* Only a rotation puts a token on its way.
LEMMA OnTheWayComes ==
    ASSUME TypeOK, [Next]_vars, NEW t \in OnTheWay'
    PROVE  t \in OnTheWay \/ \E q \in Requests : RefreshRotate(q) /\ req'[q].token = t
<1>1. PICK q \in Requests : /\ Served(q)' /\ req'[q].op = "refresh"
                            /\ req'[q].pc = "send" /\ req'[q].token = t
  BY DEF OnTheWay, At
<1>2. CASE req'[q] = req[q]
  BY <1>1, <1>2 DEF OnTheWay, At, Served
<1>3. ASSUME RefreshRead(q) PROVE FALSE
  BY <1>1, <1>3 DEF RefreshRead, Begin, Revoking, TypeOK
<1>4. ASSUME RefreshAccess(q) PROVE FALSE
  <2>1. req[q] \in [op: {"refresh"}, pc: {"access", "rotate"}, token: TokenIds,
                    family: TokenIds, password: Nat]
    BY <1>4 DEF RefreshAccess, At, Served, TypeOK, Request
  <2>2. \/ req'[q] = [req[q] EXCEPT !.pc = "rotate"]
        \/ req'[q] = Revoking("refresh", req[q].family, "INACTIVE_ORGANIZATION")
    BY <1>4 DEF RefreshAccess, Continue, TypeOK
  <2>3. QED
    BY <1>1, <2>1, <2>2 DEF Revoking
<1>5. QED
  BY <1>1, <1>2, <1>3, <1>4, RefreshComes

LEMMA IssuePromises ==
    ASSUME TypeOK, TypeOK', NEW q \in Requests, LoginIssue(q), NEW n \in TokenIds,
           handed' = handed \cup {n}
    PROVE  Promised' = Promised \cup {n}
<1>1. At(q, "login", "issue") /\ req' = [req EXCEPT ![q] = Idle]
  BY DEF LoginIssue, Answer
<1>2. \A p \in Requests : At(p, "refresh", "send")' <=> At(p, "refresh", "send")
  BY <1>1 DEF At, Served, TypeOK
<1>3. \A p \in Requests : At(p, "refresh", "send") => req'[p] = req[p]
  BY <1>1 DEF At, Served, TypeOK
<1>4. OnTheWay' = OnTheWay
  BY <1>2, <1>3 DEF OnTheWay
<1>5. QED
  BY <1>4 DEF Promised

LEMMA RotatePromises ==
    ASSUME TypeOK, TypeOK', NEW q \in Requests, RefreshRotate(q), NEW n \in TokenIds,
           req' = [req EXCEPT ![q] =
                     IF req[q].token \in Live THEN Sending(n)
                     ELSE Revoking("refresh", req[q].family, "REUSE_DETECTED")]
    PROVE  Promised' = Promised \cup (IF req[q].token \in Live THEN {n} ELSE {})
<1>1. At(q, "refresh", "rotate") /\ handed' = handed
  BY DEF RefreshRotate
<1>2. \A p \in Requests \ {q} : req'[p] = req[p]
  BY DEF TypeOK
<1>3. req[q].token \in Live => req'[q] = Sending(n)
  BY DEF TypeOK
<1>4. req[q].token \notin Live =>
        req'[q] = Revoking("refresh", req[q].family, "REUSE_DETECTED")
  BY DEF TypeOK
<1>5. /\ ~At(q, "refresh", "send")
      /\ req[q].token \in Live => At(q, "refresh", "send")' /\ req'[q].token = n
      /\ req[q].token \notin Live => ~At(q, "refresh", "send")'
  BY <1>1, <1>3, <1>4 DEF At, Served, Sending, Revoking, Idle
<1>6. \A p \in Requests \ {q} : At(p, "refresh", "send")' <=> At(p, "refresh", "send")
  BY <1>2 DEF At, Served
<1>7. OnTheWay' = OnTheWay \cup (IF req[q].token \in Live THEN {n} ELSE {})
  BY <1>2, <1>5, <1>6 DEF OnTheWay
<1>8. QED
  BY <1>1, <1>7 DEF Promised

LEMMA NothingPromised ==
    ASSUME TypeOK, TypeOK', [Next]_vars,
           \A q \in Requests : ~LoginIssue(q) /\ ~RefreshRotate(q)
    PROVE  Promised' \subseteq Promised
<1>1. OnTheWay' \subseteq OnTheWay
  BY OnTheWayComes
<1>2. ASSUME NEW q \in Requests, RefreshSend(q) PROVE handed' \subseteq Promised
  BY <1>2 DEF RefreshSend, Promised, OnTheWay
<1>3. QED
  BY <1>1, <1>2, HandedStays DEF Promised

-----------------------------------------------------------------------------
(***************************************************************************)
(* Revocations are final.                                                  *)
(***************************************************************************)
LEMMA RevokedStep ==
    ASSUME TypeOK, TypeOK', SessionInv, [Next]_vars, NEW t \in TokenIds,
           token[t].revoked \in Reasons \cup {"GONE"}
    PROVE  token'[t].revoked \in {token[t].revoked, "GONE"}
<1>0. t \notin Live /\ token[t] # Unused
  BY DEF Live, Unused, Reasons
<1>1. ASSUME NEW q \in Requests, LoginIssue(q)
      PROVE  token'[t].revoked \in {token[t].revoked, "GONE"}
  <2>1. PICK n \in TokenIds :
           /\ token[n] = Unused
           /\ \A s \in TokenIds \ {n} : token'[s] \in {token[s], Gone}
    BY <1>1, IssueMeans
  <2>2. QED
    BY <1>0, <2>1 DEF Gone
<1>2. ASSUME NEW q \in Requests, RefreshRotate(q)
      PROVE  token'[t].revoked \in {token[t].revoked, "GONE"}
  BY <1>0, <1>2, RotateMeans
<1>3. CASE \A q \in Requests : ~LoginIssue(q) /\ ~RefreshRotate(q)
  BY <1>3, TokensKept, KeptMeans
<1>4. QED
  BY <1>1, <1>2, <1>3

-----------------------------------------------------------------------------
(***************************************************************************)
(* The inductive invariant, one conjunct at a time.                        *)
(***************************************************************************)
\* A drawn token is never undrawn.
LEMMA DrawnForGood ==
    ASSUME TypeOK, TypeOK', SessionInv, [Next]_vars, NEW t \in TokenIds, token[t] # Unused
    PROVE  token'[t] # Unused
<1>0. Gone # Unused
  BY DEF Gone, Unused
<1>1. ASSUME NEW q \in Requests, LoginIssue(q) PROVE token'[t] # Unused
  <2>1. PICK n \in TokenIds :
           /\ token[n] = Unused
           /\ \A s \in TokenIds \ {n} : token'[s] \in {token[s], Gone}
    BY <1>1, IssueMeans
  <2>2. QED
    BY <1>0, <2>1
<1>2. ASSUME NEW q \in Requests, RefreshRotate(q) PROVE token'[t] # Unused
  <2>1. PICK n \in TokenIds :
           /\ token[n] = Unused /\ n # req[q].token
           /\ token'[req[q].token] =
                IF req[q].token \in Live THEN [token[req[q].token] EXCEPT !.revoked = "ROTATED"]
                ELSE token[req[q].token]
           /\ \A s \in TokenIds \ {n, req[q].token} : token'[s] = token[s]
    BY <1>2, RotateMeans
  <2>2. t = req[q].token /\ t \in Live => token'[t].revoked = "ROTATED"
    BY <2>1, RowShape DEF TokenRow
  <2>3. QED
    BY <2>1, <2>2 DEF Unused
<1>3. CASE \A q \in Requests : ~LoginIssue(q) /\ ~RefreshRotate(q)
  BY <1>3, TokensKept, KeptMeans
<1>4. QED
  BY <1>1, <1>2, <1>3

\* Where a rotation leaves the presented token.
LEMMA Presented ==
    ASSUME TypeOK, TypeOK', NEW t \in TokenIds,
           token'[t] = IF t \in Live THEN [token[t] EXCEPT !.revoked = "ROTATED"] ELSE token[t]
    PROVE  Kept(t) /\ t \notin Live'
<1>1. CASE t \in Live
  <2>1. token'[t].revoked = "ROTATED"
    BY <1>1, RowShape DEF TokenRow
  <2>2. QED
    BY <1>1, <2>1 DEF Kept, Live, Reasons
<1>2. CASE t \notin Live
  BY <1>2 DEF Kept, Live
<1>3. QED
  BY <1>1, <1>2

\* The fields of a row that is inserted.
LEMMA NewRowFields ==
    ASSUME TypeOK', NEW n \in TokenIds, NEW f, NEW p, token'[n] = NewRow(f, p)
    PROVE  n \in Rows' /\ n \in Live' /\ token'[n].family = f
  BY DEF NewRow, Rows, Live, Unused, Gone

\* What is sent or on its way was so before, or has just been drawn.
LEMMA PromisesKept ==
    ASSUME TypeOK, TypeOK', SessionInv, [Next]_vars, NEW t \in Promised'
    PROVE  /\ token[t] # Unused => t \in Promised
           /\ t \in TokenIds /\ token'[t] # Unused
<1>0. /\ Promised \subseteq TokenIds /\ Promised' \subseteq TokenIds
      /\ \A s \in Promised : token[s] # Unused
  BY DEF Promised, OnTheWay, At, Served, TypeOK, Request, SessionInv, FamiliesDrawn
<1>1. t \in Promised => token'[t] # Unused
  BY <1>0, DrawnForGood
<1>2. ASSUME NEW q \in Requests, LoginIssue(q)
      PROVE  t \in Promised \/ (token[t] = Unused /\ token'[t] # Unused)
  <2>1. PICK n \in TokenIds :
           /\ token[n] = Unused
           /\ token'[n] = NewRow(n, req[q].password)
           /\ handed' = handed \cup {n}
    BY <1>2, IssueMeans
  <2>2. Promised' = Promised \cup {n}
    BY <1>2, <2>1, IssuePromises
  <2>3. token'[n] # Unused
    BY <2>1 DEF NewRow, Unused
  <2>4. QED
    BY <2>1, <2>2, <2>3
<1>3. ASSUME NEW q \in Requests, RefreshRotate(q)
      PROVE  t \in Promised \/ (token[t] = Unused /\ token'[t] # Unused)
  <2>1. PICK n \in TokenIds :
           /\ token[n] = Unused
           /\ token'[n] = NewRow(req[q].family, req[q].password)
           /\ req' = [req EXCEPT ![q] =
                        IF req[q].token \in Live THEN Sending(n)
                        ELSE Revoking("refresh", req[q].family, "REUSE_DETECTED")]
    BY <1>3, RotateMeans
  <2>2. Promised' \subseteq Promised \cup {n}
    BY <1>3, <2>1, RotatePromises
  <2>3. token'[n] # Unused
    BY <2>1 DEF NewRow, Unused
  <2>4. QED
    BY <2>1, <2>2, <2>3
<1>4. CASE \A q \in Requests : ~LoginIssue(q) /\ ~RefreshRotate(q)
  BY <1>0, <1>1, <1>4, NothingPromised
<1>5. QED
  BY <1>0, <1>1, <1>2, <1>3, <1>4

LEMMA FamiliesStep ==
    ASSUME TypeOK, TypeOK', SessionInv, [Next]_vars
    PROVE  FamiliesDrawn'
<1> SUFFICES ASSUME NEW t \in TokenIds, t \in Rows' PROVE token'[token'[t].family] # Unused
  BY PromisesKept DEF FamiliesDrawn, Rows
<1>0. t \in Rows => token[t].family \in TokenIds /\ token[token[t].family] # Unused
  BY RowShape DEF SessionInv, FamiliesDrawn
<1>1. CASE t \in Rows /\ token'[t].family = token[t].family
  BY <1>0, <1>1, DrawnForGood
<1>2. ASSUME NEW q \in Requests, LoginIssue(q) PROVE token'[token'[t].family] # Unused
  <2>1. PICK n \in TokenIds :
           /\ token[n] = Unused
           /\ token'[n] = NewRow(n, req[q].password)
           /\ \A s \in TokenIds \ {n} : token'[s] \in {token[s], Gone}
    BY <1>2, IssueMeans
  <2>2. CASE t = n
    <3>1. token'[t].family = t
      BY <2>1, <2>2 DEF NewRow
    <3>2. QED
      BY <3>1 DEF Rows
  <2>3. CASE t # n
    <3>1. token'[t] = token[t]
      BY <2>1, <2>3 DEF Rows
    <3>2. QED
      BY <1>1, <3>1 DEF Rows
  <2>4. QED
    BY <2>2, <2>3
<1>3. ASSUME NEW q \in Requests, RefreshRotate(q) PROVE token'[token'[t].family] # Unused
  <2>1. PICK n \in TokenIds :
           /\ req[q].token \in TokenIds
           /\ token'[n] = NewRow(req[q].family, req[q].password)
           /\ token'[req[q].token] =
                IF req[q].token \in Live THEN [token[req[q].token] EXCEPT !.revoked = "ROTATED"]
                ELSE token[req[q].token]
           /\ \A s \in TokenIds \ {n, req[q].token} : token'[s] = token[s]
    BY <1>3, RotateMeans
  <2>2. CASE t = n
    <3>1. token'[t].family = req[q].family
      <4>1. token'[t] = NewRow(req[q].family, req[q].password)
        BY <2>1, <2>2
      <4>2. QED
        BY <4>1 DEF NewRow
    <3>2. req[q].family \in TokenIds /\ token[req[q].family] # Unused
      <4>1. At(q, "refresh", "rotate")
        BY <1>3 DEF RefreshRotate
      <4>2. token[req[q].family] # Unused
        BY <4>1 DEF SessionInv, RefreshSound
      <4>3. req[q].family \in TokenIds
        BY <4>1 DEF At, Served, TypeOK, Request
      <4>4. QED
        BY <4>2, <4>3
    <3>3. QED
      BY <3>1, <3>2, DrawnForGood
  <2>3. CASE t # n
    <3>1. Kept(t)
      BY <2>1, <2>3, Presented DEF Kept
    <3>2. QED
      BY <1>1, <3>1, KeptMeans
  <2>4. QED
    BY <2>2, <2>3
<1>4. CASE \A q \in Requests : ~LoginIssue(q) /\ ~RefreshRotate(q)
  BY <1>1, <1>4, TokensKept, KeptMeans
<1>5. QED
  BY <1>2, <1>3, <1>4

(***************************************************************************)
(* A token of which there is a row, of some family, stays so or loses its  *)
(* row.                                                                    *)
(***************************************************************************)
LEMMA RowsKeepFamily ==
    ASSUME TypeOK, TypeOK', SessionInv, [Next]_vars,
           NEW t \in TokenIds, token[t] # Unused, t \in Rows'
    PROVE  /\ t \in Rows
           /\ token'[t].family = token[t].family
           /\ t \in Live' => t \in Live
<1>1. ASSUME NEW q \in Requests, LoginIssue(q) PROVE token'[t] = token[t]
  <2>1. PICK n \in TokenIds :
           /\ token[n] = Unused
           /\ \A s \in TokenIds \ {n} : token'[s] \in {token[s], Gone}
    BY <1>1, IssueMeans
  <2>2. QED
    BY <2>1 DEF Rows
<1>2. ASSUME NEW q \in Requests, RefreshRotate(q) PROVE Kept(t)
  <2>1. PICK n \in TokenIds :
           /\ token[n] = Unused
           /\ req[q].token \in TokenIds
           /\ token'[req[q].token] =
                IF req[q].token \in Live THEN [token[req[q].token] EXCEPT !.revoked = "ROTATED"]
                ELSE token[req[q].token]
           /\ \A s \in TokenIds \ {n, req[q].token} : token'[s] = token[s]
    BY <1>2, RotateMeans
  <2>2. QED
    BY <2>1, Presented DEF Kept
<1>3. CASE \A q \in Requests : ~LoginIssue(q) /\ ~RefreshRotate(q)
  BY <1>3, TokensKept, KeptMeans
<1>4. QED
  BY <1>1, <1>2, <1>3, KeptMeans DEF Kept

LEMMA RefreshSoundStep ==
    ASSUME TypeOK, TypeOK', SessionInv, [Next]_vars, NEW q \in Requests
    PROVE  RefreshSound(q)'
<1> SUFFICES ASSUME (At(q, "refresh", "access") \/ At(q, "refresh", "rotate"))'
             PROVE  /\ token'[req'[q].token] # Unused
                    /\ token'[req'[q].family] # Unused
                    /\ req'[q].token \in handed'
                    /\ req'[q].token \in Rows' =>
                          token'[req'[q].token].family = req'[q].family
  BY DEF RefreshSound
<1>1. req'[q].token \in TokenIds /\ req'[q].family \in TokenIds
  BY DEF At, Served, TypeOK, Request
<1>2. /\ token[req'[q].token] # Unused
      /\ token[req'[q].family] # Unused
      /\ req'[q].token \in handed
      /\ req'[q].token \in Rows => token[req'[q].token].family = req'[q].family
  <2>1. CASE RefreshRead(q)
    <3>1. PICK t \in Rows :
             /\ t \in handed
             /\ \/ Begin(q, Revoking("refresh", token[t].family, "REUSE_DETECTED"))
                \/ Begin(q, Revoking("refresh", token[t].family, "INACTIVE_USER"))
                \/ Begin(q, [op |-> "refresh", pc |-> "access", token |-> t,
                             family |-> token[t].family, password |-> token[t].password])
      BY <2>1 DEF RefreshRead
    <3>2. req'[q].token = t /\ req'[q].family = token[t].family
      BY <3>1 DEF Begin, Revoking, TypeOK, At
    <3>3. QED
      BY <3>1, <3>2 DEF Rows, SessionInv, FamiliesDrawn
  <2>2. CASE RefreshAccess(q)
    <3>1. req'[q] = [req[q] EXCEPT !.pc = "rotate"]
      BY <2>2 DEF RefreshAccess, Continue, Revoking, TypeOK, At
    <3>2. req'[q].token = req[q].token /\ req'[q].family = req[q].family
      BY <2>2, <3>1 DEF RefreshAccess, At, Served, TypeOK, Request
    <3>3. QED
      BY <2>2, <3>2 DEF RefreshAccess, SessionInv, RefreshSound
  <2>3. CASE ~RefreshRead(q) /\ ~RefreshAccess(q)
    <3>0. ~RefreshRotate(q)
      <4>1. RefreshRotate(q) => \/ \E n \in TokenIds : req'[q] = Sending(n)
                                \/ req'[q] = Revoking("refresh", req[q].family, "REUSE_DETECTED")
        BY DEF RefreshRotate, Continue, TypeOK
      <4>2. RefreshRotate(q) => req'[q].pc \in {"send", "list"}
        BY <4>1, NextOfRotation
      <4>3. QED
        BY <4>2 DEF At
    <3>1. req'[q] = req[q]
      BY <2>3, <3>0, RefreshComes DEF At
    <3>2. At(q, "refresh", "access") \/ At(q, "refresh", "rotate")
      BY <3>1 DEF At, Served
    <3>3. QED
      BY <3>1, <3>2 DEF SessionInv, RefreshSound
  <2>4. QED
    BY <2>1, <2>2, <2>3
<1>3. QED
  BY <1>1, <1>2, DrawnForGood, RowsKeepFamily, HandedStays

LEMMA OneTokenStep ==
    ASSUME TypeOK, TypeOK', SessionInv, [Next]_vars
    PROVE  OneTokenPerSession'
<1> SUFFICES ASSUME NEW s \in Live', NEW t \in Live',
                    s \in Promised', t \in Promised',
                    token'[s].family = token'[t].family, s # t
             PROVE  FALSE
  BY DEF OneTokenPerSession
<1>0. s \in TokenIds /\ t \in TokenIds /\ s \in Rows' /\ t \in Rows'
  BY DEF Live, Rows, Unused, Gone
<1>1. CASE token[s] # Unused /\ token[t] # Unused
  BY <1>0, <1>1, RowsKeepFamily, PromisesKept DEF SessionInv, OneTokenPerSession
<1>2. ASSUME NEW q \in Requests, LoginIssue(q) PROVE FALSE
  <2>1. PICK n \in TokenIds :
           /\ token[n] = Unused
           /\ token'[n] = NewRow(n, req[q].password)
           /\ \A x \in TokenIds \ {n} : token'[x] \in {token[x], Gone}
    BY <1>2, IssueMeans
  <2>2. token'[n].family = n
    BY <2>1 DEF NewRow
  <2>3. ASSUME NEW x \in TokenIds, x \in Rows', x # n
        PROVE  token[x] # Unused /\ token'[x].family # n
    <3>1. token'[x] = token[x] /\ x \in Rows
      BY <2>1, <2>3 DEF Rows
    <3>2. QED
      BY <2>1, <3>1 DEF SessionInv, FamiliesDrawn, Rows
  <2>4. QED
    BY <1>0, <1>1, <2>2, <2>3
<1>3. ASSUME NEW q \in Requests, RefreshRotate(q) PROVE FALSE
  <2>1. PICK n \in TokenIds :
           /\ token[n] = Unused
           /\ n # req[q].token /\ req[q].token \in TokenIds
           /\ token'[n] = NewRow(req[q].family, req[q].password)
           /\ token'[req[q].token] =
                IF req[q].token \in Live THEN [token[req[q].token] EXCEPT !.revoked = "ROTATED"]
                ELSE token[req[q].token]
           /\ \A x \in TokenIds \ {n, req[q].token} : token'[x] = token[x]
           /\ req' = [req EXCEPT ![q] =
                        IF req[q].token \in Live THEN Sending(n)
                        ELSE Revoking("refresh", req[q].family, "REUSE_DETECTED")]
    BY <1>3, RotateMeans
  <2>2. /\ token'[n].family = req[q].family
        /\ n \in Promised' => req[q].token \in Live
    <3>1. n \notin Promised
      BY <2>1 DEF SessionInv, FamiliesDrawn
    <3>2. Promised' = Promised \cup (IF req[q].token \in Live THEN {n} ELSE {})
      BY <1>3, <2>1, RotatePromises
    <3>3. QED
      BY <2>1, <3>1, <3>2 DEF NewRow
  <2>3. req[q].token \notin Live'
    BY <2>1, Presented
  <2>4. req[q].token \in Live => /\ req[q].token \in Promised
                                 /\ token[req[q].token].family = req[q].family
    BY <1>3, <2>1, RowShape DEF SessionInv, RefreshSound, RefreshRotate, Promised
  <2>5. ASSUME NEW x \in Live', n \in Promised', x \in Promised',
               token'[x].family = token'[n].family, x # n
        PROVE  FALSE
    <3>1. x # req[q].token /\ x \in TokenIds
      BY <2>3 DEF Live
    <3>2. token'[x] = token[x] /\ x \in Live
      BY <2>1, <2>5, <3>1 DEF Live
    <3>3. x \in Promised
      BY <2>5, <3>2, PromisesKept DEF Live, Unused
    <3>4. QED
      BY <2>2, <2>4, <2>5, <3>1, <3>2, <3>3 DEF SessionInv, OneTokenPerSession
  <2>6. ASSUME NEW x \in TokenIds, x \in Live', x # n PROVE token[x] # Unused
    <3>1. token'[x] = token[x]
      BY <2>1, <2>3, <2>6
    <3>2. QED
      BY <2>6, <3>1 DEF Live, Unused
  <2>7. QED
    BY <1>0, <1>1, <2>5, <2>6
<1>4. CASE \A q \in Requests : ~LoginIssue(q) /\ ~RefreshRotate(q)
  <2>1. Kept(s) /\ Kept(t)
    BY <1>0, <1>4, TokensKept
  <2>2. token[s] # Unused /\ token[t] # Unused
    BY <1>0, <2>1, KeptMeans DEF Rows
  <2>3. QED
    BY <1>1, <2>2
<1>5. QED
  BY <1>2, <1>3, <1>4

\* A request that is about to revoke goes on to revoke, unless it dies.
LEMMA RevokingGoesOn ==
    ASSUME TypeOK, [Next]_vars, NEW q \in Requests, Served(q),
           req[q].pc \in {"list", "revoke"}, "death" \notin incidents'
    PROVE  req'[q] = req[q] \/ RevokeList(q) \/ RevokeWrite(q)
<1>1. ASSUME NEW p \in Requests, p # q, Start(p) \/ Step(p) \/ Fail(p)
      PROVE  req'[q] = req[q]
  BY <1>1 DEF Start, Step, Fail, LoginRead, RefreshRead, ResetRead, ChangeRead,
     LoginWrong, LoginRight, LoginAccess, LoginOthers, LoginIssue, RefreshAccess,
     RefreshRotate, RefreshSend, ResetWrite, ChangeWrite, RevokeList, RevokeWrite, Begin,
     Continue, Answer, TypeOK
<1>2. ~Fail(q)
  BY DEF Fail
<1>3. ~Start(q)
  BY DEF Start, LoginRead, RefreshRead, ResetRead, ChangeRead, Begin
<1>4. Step(q) => RevokeList(q) \/ RevokeWrite(q)
  BY DEF Step, LoginWrong, LoginRight, LoginAccess, LoginOthers, LoginIssue,
     RefreshAccess, RefreshRotate, RefreshSend, ResetWrite, ChangeWrite, At
<1>5. QED
  BY <1>1, <1>2, <1>3, <1>4 DEF Next, vars, World, Logout, ForgotPassword, SetStanding,
     LinkExpires, LockLapses

LEMMA DeathIsRemembered ==
    ASSUME TypeOK, [Next]_vars, "death" \notin incidents'
    PROVE  "death" \notin incidents
  BY DEF Next, vars, World, Logout, ForgotPassword, SetStanding, LinkExpires, LockLapses,
     Start, Step, Fail, LoginRead, RefreshRead, ResetRead, ChangeRead,
     LoginWrong, LoginRight, LoginAccess, LoginOthers, LoginIssue, RefreshAccess,
     RefreshRotate, RefreshSend, ResetWrite, ChangeWrite, RevokeList, RevokeWrite, Begin,
     Continue, Answer

\* A token on its way is sent, unless the request that sends it dies.
LEMMA PromisesGoOn ==
    ASSUME TypeOK, [Next]_vars, "death" \notin incidents'
    PROVE  Promised \subseteq Promised'
<1>1. ASSUME NEW q \in Requests, At(q, "refresh", "send")
      PROVE  req[q].token \in Promised'
  <2>1. ASSUME NEW p \in Requests, p # q, Start(p) \/ Step(p) \/ Fail(p)
        PROVE  req'[q] = req[q]
    BY <2>1 DEF Start, Step, Fail, LoginRead, RefreshRead, ResetRead, ChangeRead,
       LoginWrong, LoginRight, LoginAccess, LoginOthers, LoginIssue, RefreshAccess,
       RefreshRotate, RefreshSend, ResetWrite, ChangeWrite, RevokeList, RevokeWrite, Begin,
       Continue, Answer, TypeOK
  <2>2. ~Fail(q)
    BY DEF Fail
  <2>3. ~Start(q)
    BY <1>1 DEF Start, LoginRead, RefreshRead, ResetRead, ChangeRead, Begin, At
  <2>4. Step(q) => RefreshSend(q)
    BY <1>1 DEF Step, LoginWrong, LoginRight, LoginAccess, LoginOthers, LoginIssue,
       RefreshAccess, RefreshRotate, ResetWrite, ChangeWrite, RevokeList, RevokeWrite, At
  <2>5. req'[q] = req[q] \/ RefreshSend(q)
    BY <2>1, <2>2, <2>3, <2>4 DEF Next, vars, World, Logout, ForgotPassword, SetStanding,
       LinkExpires, LockLapses
  <2>6. CASE req'[q] = req[q]
    BY <1>1, <2>6 DEF Promised, OnTheWay, At, Served
  <2>7. CASE RefreshSend(q)
    BY <2>7 DEF RefreshSend, Promised
  <2>8. QED
    BY <2>5, <2>6, <2>7
<1>2. QED
  BY <1>1, HandedStays DEF Promised, OnTheWay

LEMMA UnsentStep ==
    ASSUME TypeOK, TypeOK', SessionInv, [Next]_vars
    PROVE  UnsentIsDoomed'
<1> SUFFICES ASSUME "death" \notin incidents', NEW t \in Live', t \notin Promised'
             PROVE  Doomed(t)'
  BY DEF UnsentIsDoomed
<1>0. t \in TokenIds /\ t \in Rows'
  BY DEF Live, Rows, Unused, Gone
<1>1. CASE token[t] # Unused
  <2>1. t \in Live /\ t \notin Promised /\ token'[t].family = token[t].family
    BY <1>0, <1>1, RowsKeepFamily, PromisesGoOn
  <2>2. "death" \notin incidents
    BY DeathIsRemembered
  <2>3. PICK q \in Requests :
           /\ Served(q)
           /\ \/ req[q].pc = "list" /\ req[q].family \in {Null, token[t].family}
              \/ req[q].pc = "revoke" /\ t \in req[q].hits
    BY <2>1, <2>2 DEF SessionInv, UnsentIsDoomed, Doomed
  <2>4. CASE req'[q] = req[q]
    BY <2>1, <2>3, <2>4 DEF Doomed, Served
  <2>5. CASE RevokeList(q)
    <3>1. /\ req'[q].pc = "revoke" /\ Served(q)'
          /\ req'[q].hits = {x \in Live : req[q].family \in {Null, token[x].family}}
      BY <2>5 DEF RevokeList, Continue, TypeOK, Served, Idle
    <3>2. req[q].family \in {Null, token[t].family}
      BY <2>3, <2>5 DEF RevokeList
    <3>3. QED
      BY <2>1, <3>1, <3>2 DEF Doomed
  <2>6. CASE RevokeWrite(q)
    <3>1. t \in req[q].hits \cap Live
      BY <2>1, <2>3, <2>6 DEF RevokeWrite
    <3>2. token'[t] = [token[t] EXCEPT !.revoked = req[q].reason]
      BY <1>0, <2>6, <3>1 DEF RevokeWrite
    <3>3. token[t] \in TokenRow
      BY <1>0, <2>1, RowShape
    <3>4. token'[t].revoked = req[q].reason
      BY <3>2, <3>3 DEF TokenRow
    <3>5. req[q].reason # "NO"
      <4>1. req[q] \in Request /\ req[q].pc = "revoke"
        BY <2>6 DEF RevokeWrite, TypeOK, Served
      <4>2. req[q].reason \in Reasons
        BY <4>1 DEF Request
      <4>3. QED
        BY <4>2 DEF Reasons
    <3>6. QED
      BY <3>4, <3>5 DEF Live
  <2>7. QED
    BY <2>3, <2>4, <2>5, <2>6, RevokingGoesOn
<1>2. CASE token[t] = Unused
  <2>1. ASSUME NEW q \in Requests, LoginIssue(q) PROVE FALSE
    <3>1. PICK n \in TokenIds :
             /\ handed' = handed \cup {n}
             /\ \A x \in TokenIds \ {n} : token'[x] \in {token[x], Gone}
      BY <2>1, IssueMeans
    <3>2. t = n
      BY <1>0, <1>2, <3>1 DEF Rows
    <3>3. QED
      BY <3>1, <3>2 DEF Promised
  <2>2. ASSUME NEW q \in Requests, RefreshRotate(q) PROVE Doomed(t)'
    <3>1. PICK n \in TokenIds :
             /\ req[q].token \in TokenIds
             /\ token'[n] = NewRow(req[q].family, req[q].password)
             /\ \A x \in TokenIds \ {n, req[q].token} : token'[x] = token[x]
             /\ req' = [req EXCEPT ![q] =
                          IF req[q].token \in Live THEN Sending(n)
                          ELSE Revoking("refresh", req[q].family, "REUSE_DETECTED")]
      BY <2>2, RotateMeans
    <3>2. token[req[q].token] # Unused
      BY <2>2 DEF SessionInv, RefreshSound, RefreshRotate
    <3>3. t = n
      BY <1>0, <1>2, <3>1, <3>2 DEF Rows
    <3>4. token'[t].family = req[q].family /\ req[q].token \notin Live
      <4>1. Promised' = Promised \cup (IF req[q].token \in Live THEN {n} ELSE {})
        BY <2>2, <3>1, RotatePromises
      <4>2. QED
        BY <3>1, <3>3, <4>1 DEF NewRow
    <3>6. req'[q] = Revoking("refresh", req[q].family, "REUSE_DETECTED")
      BY <3>1, <3>4 DEF TypeOK
    <3>7. Served(q)' /\ req'[q].pc = "list" /\ req'[q].family = req[q].family
      BY <3>6 DEF Revoking, Served, Idle
    <3>8. QED
      BY <3>4, <3>7 DEF Doomed
  <2>3. CASE \A q \in Requests : ~LoginIssue(q) /\ ~RefreshRotate(q)
    BY <1>0, <1>2, <2>3, TokensKept, KeptMeans DEF Rows
  <2>4. QED
    BY <2>1, <2>2, <2>3
<1>3. QED
  BY <1>1, <1>2

-----------------------------------------------------------------------------
LEMMA SessionInvInit == Init => SessionInv
<1> SUFFICES ASSUME Init PROVE SessionInv
  OBVIOUS
<1>1. Rows = {} /\ Live = {}
  BY DEF Init, Rows, Live, Unused, Gone
<1>2. \A q \in Requests : ~Served(q)
  BY DEF Init, Served
<1>3. Promised = {}
  BY <1>2 DEF Init, Promised, OnTheWay, At
<1>4. QED
  BY <1>1, <1>2, <1>3 DEF SessionInv, FamiliesDrawn, RefreshSound, At, OneTokenPerSession,
     UnsentIsDoomed

LEMMA SessionInvStep ==
    ASSUME TypeOK, TypeOK', SessionInv, [Next]_vars
    PROVE  SessionInv'
<1>1. FamiliesDrawn'
  BY FamiliesStep
<1>2. \A q \in Requests : RefreshSound(q)'
  BY RefreshSoundStep
<1>3. OneTokenPerSession'
  BY OneTokenStep
<1>4. UnsentIsDoomed'
  BY UnsentStep
<1>5. QED
  BY <1>1, <1>2, <1>3, <1>4 DEF SessionInv

(***************************************************************************)
(* The inductive invariant of login, refresh, logout and the password      *)
(* operations, for any number of tokens and of overlapping requests.       *)
(***************************************************************************)
THEOREM SessionsSound == Spec => []SessionInv
<1>1. TypeOK /\ TypeOK' /\ SessionInv /\ [Next]_vars => SessionInv'
  BY SessionInvStep
<1>2. QED
  BY <1>1, SessionInvInit, SessionTypeCorrect, PTL DEF Spec

(***************************************************************************)
(* A client has, or is about to get, at most one live token of a session:  *)
(* two refreshes with the same token never both end with one that works.   *)
(***************************************************************************)
THEOREM OneTokenAlways == Spec => []OneTokenPerSession
<1>1. SessionInv => OneTokenPerSession
  BY DEF SessionInv
<1>2. QED
  BY <1>1, SessionsSound, PTL

(***************************************************************************)
(* The token that a refused refresh has inserted is revoked by the time    *)
(* all requests are answered, unless one of them has died.                 *)
(***************************************************************************)
THEOREM NothingLeftBehind == Spec => []NoTokenLeftBehind
<1>1. SessionInv => NoTokenLeftBehind
  <2>1. AtRest => Promised = handed
    BY DEF AtRest, Promised, OnTheWay, At
  <2>2. QED
    BY <2>1 DEF SessionInv, UnsentIsDoomed, Doomed, NoTokenLeftBehind, AtRest
<1>2. QED
  BY <1>1, SessionsSound, PTL

(***************************************************************************)
(* A revoked token is never live again, and no later revocation writes     *)
(* over the reason.                                                        *)
(***************************************************************************)
THEOREM NeverRevived == Spec => RevokedForGood
<1>1. TypeOK /\ TypeOK' /\ SessionInv /\ [Next]_vars =>
        [\A t \in TokenIds :
            token[t].revoked \in Reasons \cup {"GONE"} =>
                token'[t].revoked \in {token[t].revoked, "GONE"}]_vars
  BY RevokedStep
<1>2. QED
  BY <1>1, SessionTypeCorrect, SessionsSound, PTL DEF Spec, RevokedForGood
-----------------------------------------------------------------------------
(***************************************************************************)
(* While requests neither overlap nor die: what the one in flight knows is *)
(* so, and the tokens are those of one session and one password.           *)
(***************************************************************************)
OneServed == \A p, q \in Requests : Served(p) /\ Served(q) => p = q

OneFamily == \A s, t \in Live : token[s].family = token[t].family

Knows(r) ==
    /\ r.op = "login" => r.password = user.password
    /\ r.op = "login" /\ r.pc = "issue" => Rows \subseteq r.hits
    /\ r.op = "refresh" /\ r.pc \in {"access", "rotate"} =>
          r.password = user.password /\ \A t \in Live : token[t].family = r.family
    /\ r.pc = "revoke" => \A t \in Live : r.family \in {Null, token[t].family} => t \in r.hits
    /\ r.op = "password" /\ r.pc \in {"list", "revoke"} => r.family = Null

EndsSessions(r) == r.op = "password" /\ r.pc \in {"list", "revoke"}

PresentPassword ==
    \/ \A t \in Live : token[t].password = user.password
    \/ \E q \in Requests : Served(q) /\ EndsSessions(req[q])

SequentialInv ==
    incidents = {} =>
        /\ OneServed
        /\ OneFamily
        /\ PresentPassword
        /\ \A q \in Requests : Served(q) => Knows(req[q])

\* Without an incident a step is somebody else's, or that of the one request.
LEMMA QuietStep ==
    ASSUME TypeOK, SequentialInv, [Next]_vars, incidents' = {}
    PROVE  /\ incidents = {}
           /\ \/ UNCHANGED vars
              \/ World
              \/ \E q \in Requests :
                    /\ \A p \in Requests \ {q} : ~Served(p) /\ req'[p] = Idle
                    /\ Start(q) \/ Step(q)
<1>0. req \in [Requests -> Request \cup {Idle}]
  BY DEF TypeOK
<1>1. ASSUME NEW q \in Requests, NEW first, Begin(q, first)
      PROVE  incidents = {} /\ \A p \in Requests \ {q} : ~Served(p) /\ req'[p] = Idle
  <2>1. incidents = {} /\ AtRest /\ req' = [req EXCEPT ![q] = first]
    BY <1>1 DEF Begin
  <2>2. QED
    BY <1>0, <2>1 DEF AtRest, Served
<1>2. ASSUME NEW q \in Requests, Served(q), NEW next, Continue(q, next)
      PROVE  incidents = {} /\ \A p \in Requests \ {q} : ~Served(p) /\ req'[p] = Idle
  <2>1. incidents = {} /\ req' = [req EXCEPT ![q] = next]
    BY <1>2 DEF Continue
  <2>2. QED
    BY <1>0, <1>2, <2>1 DEF SequentialInv, OneServed, Served
<1>3. ASSUME NEW q \in Requests, Start(q)
      PROVE  incidents = {} /\ \A p \in Requests \ {q} : ~Served(p) /\ req'[p] = Idle
  <2>1. \E first : Begin(q, first)
    BY <1>3 DEF Start, LoginRead, RefreshRead, ResetRead, ChangeRead
  <2>2. QED
    BY <1>1, <2>1
<1>4. ASSUME NEW q \in Requests, Step(q)
      PROVE  incidents = {} /\ \A p \in Requests \ {q} : ~Served(p) /\ req'[p] = Idle
  <2>1. Served(q)
    BY <1>4 DEF Step, LoginWrong, LoginRight, LoginAccess, LoginOthers, LoginIssue,
       RefreshAccess, RefreshRotate, RefreshSend, ResetWrite, ChangeWrite, RevokeList,
       RevokeWrite, At
  <2>2. Answer(q) \/ \E next : Continue(q, next)
    BY <1>4 DEF Step, LoginWrong, LoginRight, LoginAccess, LoginOthers, LoginIssue,
       RefreshAccess, RefreshRotate, RefreshSend, ResetWrite, ChangeWrite, RevokeList,
       RevokeWrite
  <2>3. QED
    BY <1>2, <2>1, <2>2 DEF Answer, Continue
<1>5. ASSUME NEW q \in Requests PROVE ~Fail(q)
  BY DEF Fail
<1>6. World => incidents = {}
  BY DEF World, Logout, ForgotPassword, SetStanding, LinkExpires, LockLapses
<1>7. QED
  BY <1>3, <1>4, <1>5, <1>6 DEF Next, vars

\* What revocations leave as it is.
LEMMA KeptKnows ==
    ASSUME TypeOK, TypeOK', \A t \in TokenIds : Kept(t), user'.password = user.password
    PROVE  /\ \A t \in Live' : t \in Live /\ token'[t] = token[t]
           /\ OneFamily => OneFamily'
           /\ (\A t \in Live : token[t].password = user.password) =>
                  \A t \in Live' : token'[t].password = user'.password
           /\ \A r : Knows(r) => Knows(r)'
<1>1. ASSUME NEW t \in Live' PROVE t \in Live /\ token'[t] = token[t]
  <2>1. Kept(t) /\ t \in TokenIds /\ token'[t].revoked = "NO"
    BY <1>1 DEF Live
  <2>2. t \in Live
    BY <1>1, <2>1, KeptMeans
  <2>3. token[t] \in TokenRow
    BY <2>1, <2>2, RowShape
  <2>4. ASSUME NEW reason \in Reasons, token'[t] = [token[t] EXCEPT !.revoked = reason]
        PROVE  FALSE
    BY <2>1, <2>3, <2>4 DEF TokenRow, Reasons
  <2>5. QED
    BY <2>1, <2>2, <2>4 DEF Kept
<1>2. Rows' = Rows
  BY KeptMeans DEF Rows
<1>3. QED
  BY <1>1, <1>2 DEF OneFamily, Knows

\* Whoever asks about the table and the password alone is told the same again.
LEMMA SameKnows ==
    ASSUME UNCHANGED token, user'.password = user.password
    PROVE  /\ OneFamily => OneFamily'
           /\ (\A t \in Live : token[t].password = user.password) =>
                  \A t \in Live' : token'[t].password = user'.password
           /\ \A r : Knows(r) => Knows(r)'
  BY DEF OneFamily, Knows, Live, Rows

LEMMA SequentialWorld ==
    ASSUME TypeOK, TypeOK', SequentialInv, incidents = {}, World
    PROVE  SequentialInv'
<1>1. req' = req /\ incidents' = incidents
  BY DEF World, Logout, ForgotPassword, SetStanding, LinkExpires, LockLapses
<1>2. user'.password = user.password
  BY DEF World, Logout, ForgotPassword, SetStanding, LinkExpires, LockLapses, TypeOK, UserRow
<1>3. \A t \in TokenIds : Kept(t)
  <2>1. UNCHANGED token \/ \E s \in TokenIds : Logout(s)
    BY DEF World, ForgotPassword, SetStanding, LinkExpires, LockLapses
  <2>2. QED
    BY <2>1 DEF Logout, Kept, TypeOK, Reasons
<1>4. QED
  BY <1>1, <1>2, <1>3, KeptKnows DEF SequentialInv, OneServed, PresentPassword, Served

\* The reading calls, and those that write no token and no password.
LEMMA SequentialReads ==
    ASSUME TypeOK, TypeOK', SequentialInv, incidents = {}, NEW q \in Requests,
           \A p \in Requests \ {q} : ~Served(p) /\ req'[p] = Idle,
           \/ Start(q) \/ LoginWrong(q) \/ LoginRight(q) \/ LoginAccess(q) \/ LoginOthers(q)
           \/ RefreshAccess(q) \/ RefreshSend(q) \/ RevokeList(q)
    PROVE  /\ OneFamily' /\ PresentPassword'
           /\ Served(q)' => Knows(req[q])'
<1>1. UNCHANGED token
  BY DEF Start, LoginRead, RefreshRead, ResetRead, ChangeRead, LoginWrong, LoginRight,
     LoginAccess, LoginOthers, RefreshAccess, RefreshSend, RevokeList
<1>2. user'.password = user.password
  BY DEF Start, LoginRead, RefreshRead, ResetRead, ChangeRead, LoginWrong, LoginRight,
     LoginAccess, LoginOthers, RefreshAccess, RefreshSend, RevokeList, TypeOK, UserRow
<1>3. OneFamily'
  BY <1>1, <1>2, SameKnows DEF SequentialInv
<1>4. Served(q) => Knows(req[q])
  BY DEF SequentialInv
<1>5. Served(q) => req[q] \in Request
  BY DEF TypeOK, Served
<1>6. ASSUME ~(Served(q) /\ EndsSessions(req[q]))
      PROVE  \A t \in Live : token[t].password = user.password
  BY <1>6 DEF SequentialInv, PresentPassword
<1>7. ASSUME Served(q) /\ EndsSessions(req[q]) => (Served(q) /\ EndsSessions(req[q]))'
      PROVE  PresentPassword'
  BY <1>1, <1>2, <1>6, <1>7, SameKnows DEF PresentPassword
<1>8. \A next : req' = [req EXCEPT ![q] = next] => req'[q] = next
  BY DEF TypeOK
<1>9. CASE LoginRead(q)
  <2>1. PICK right \in BOOLEAN :
           req'[q] = [op |-> "login", pc |-> IF right THEN "right" ELSE "wrong",
                      password |-> user.password, failed |-> user.failed]
    BY <1>8, <1>9 DEF LoginRead, Begin
  <2>2. ~Served(q)
    BY <1>9 DEF LoginRead, Begin
  <2>3. Knows(req[q])'
    BY <1>2, <2>1 DEF Knows
  <2>4. QED
    BY <1>3, <1>7, <2>2, <2>3
<1>10. CASE RefreshRead(q)
  <2>1. ~Served(q)
    BY <1>10 DEF RefreshRead, Begin
  <2>2. PICK old \in Rows :
           \/ \E reason : req'[q] = Revoking("refresh", token[old].family, reason)
           \/ /\ old \in Live
              /\ req'[q] = [op |-> "refresh", pc |-> "access", token |-> old,
                            family |-> token[old].family, password |-> token[old].password]
    BY <1>8, <1>10 DEF RefreshRead, Begin
  <2>3. old \in Live => \A s \in Live : token[s].family = token[old].family
    BY DEF SequentialInv, OneFamily
  <2>4. old \in Live => token[old].password = user.password
    BY <1>6, <2>1
  <2>5. Live' = Live /\ token' = token
    BY <1>1 DEF Live
  <2>6. CASE \E reason : req'[q] = Revoking("refresh", token[old].family, reason)
    <3>1. req'[q].op = "refresh" /\ req'[q].pc = "list"
      BY <2>6 DEF Revoking
    <3>2. QED
      BY <1>3, <1>7, <2>1, <3>1 DEF Knows
  <2>7. CASE /\ old \in Live
             /\ req'[q] = [op |-> "refresh", pc |-> "access", token |-> old,
                           family |-> token[old].family, password |-> token[old].password]
    <3>1. /\ req'[q].op = "refresh" /\ req'[q].pc = "access"
          /\ req'[q].family = token[old].family /\ req'[q].password = user'.password
          /\ \A s \in Live' : token'[s].family = token[old].family
      BY <1>2, <2>3, <2>4, <2>5, <2>7
    <3>2. QED
      BY <1>3, <1>7, <2>1, <3>1 DEF Knows
  <2>8. QED
    BY <2>2, <2>6, <2>7
<1>11. CASE ResetRead(q) \/ ChangeRead(q)
  <2>1. ~Served(q) /\ \E pc \in {"reset", "change"} : req'[q] = [op |-> "password", pc |-> pc]
    BY <1>8, <1>11 DEF ResetRead, ChangeRead, Begin
  <2>2. Knows(req[q])'
    BY <2>1 DEF Knows
  <2>3. QED
    BY <1>3, <1>7, <2>1, <2>2
<1>12. CASE LoginWrong(q)
  <2>1. req'[q] = Idle /\ Served(q) /\ req[q].op = "login"
    BY <1>8, <1>12 DEF LoginWrong, Answer, At
  <2>2. QED
    BY <1>3, <1>7, <2>1 DEF Served, EndsSessions
<1>13. CASE LoginRight(q) \/ LoginAccess(q)
  <2>1. /\ Served(q) /\ req[q].op = "login"
        /\ req[q].pc \in {"right", "access"}
        /\ \/ req'[q] = Idle
           \/ \E pc \in {"access", "others"} : req'[q] = [req[q] EXCEPT !.pc = pc]
    BY <1>8, <1>13 DEF LoginRight, LoginAccess, Answer, Continue, At
  <2>2. req[q] \in [op: {"login"}, pc: {"right", "wrong", "access", "others"},
                    password: Nat, failed: 0..MaxFailedAttempts]
    BY <1>5, <2>1 DEF Request
  <2>3. req'[q] = Idle \/ /\ req'[q].op = "login" /\ req'[q].pc \in {"access", "others"}
                          /\ req'[q].password = req[q].password
    BY <2>1, <2>2
  <2>4. req[q].password = user.password
    BY <1>4, <2>1 DEF Knows
  <2>5. Served(q)' => Knows(req[q])'
    BY <1>2, <2>3, <2>4 DEF Served, Knows
  <2>6. QED
    BY <1>3, <1>7, <2>1, <2>5 DEF EndsSessions
<1>14. CASE LoginOthers(q)
  <2>1. /\ Served(q) /\ req[q].op = "login"
        /\ req'[q] = [op |-> "login", pc |-> "issue", password |-> req[q].password,
                      hits |-> Rows]
    BY <1>8, <1>14 DEF LoginOthers, Continue, At
  <2>2. req[q].password = user.password
    BY <1>4, <2>1 DEF Knows
  <2>3. Knows(req[q])'
    BY <1>1, <1>2, <2>1, <2>2 DEF Knows, Rows
  <2>4. QED
    BY <1>3, <1>7, <2>1, <2>3 DEF EndsSessions
<1>15. CASE RefreshAccess(q)
  <2>1. /\ Served(q) /\ req[q].op = "refresh" /\ req[q].pc = "access"
        /\ \/ req'[q] = [req[q] EXCEPT !.pc = "rotate"]
           \/ req'[q] = Revoking("refresh", req[q].family, "INACTIVE_ORGANIZATION")
    BY <1>8, <1>15 DEF RefreshAccess, Continue, At
  <2>2. req[q] \in [op: {"refresh"}, pc: {"access", "rotate"}, token: TokenIds,
                    family: TokenIds, password: Nat]
    BY <1>5, <2>1 DEF Request
  <2>3. \/ /\ req'[q].op = "refresh" /\ req'[q].pc = "rotate"
           /\ req'[q].password = req[q].password /\ req'[q].family = req[q].family
        \/ req'[q].op = "refresh" /\ req'[q].pc = "list"
    BY <2>1, <2>2 DEF Revoking
  <2>4. req[q].password = user.password /\ \A t \in Live : token[t].family = req[q].family
    BY <1>4, <2>1 DEF Knows
  <2>5. Knows(req[q])'
    BY <1>1, <1>2, <2>3, <2>4 DEF Knows, Live
  <2>6. QED
    BY <1>3, <1>7, <2>1, <2>5 DEF EndsSessions
<1>16. CASE RevokeList(q)
  <2>1. /\ Served(q) /\ req[q].pc = "list"
        /\ req'[q] = [op |-> req[q].op, pc |-> "revoke", family |-> req[q].family,
                      reason |-> req[q].reason,
                      hits |-> {t \in Live : req[q].family \in {Null, token[t].family}}]
    BY <1>8, <1>16 DEF RevokeList, Continue
  <2>2. req[q].op \in {"refresh", "password"}
    BY <1>5, <2>1 DEF Request
  <2>3. req[q].op = "password" => req[q].family = Null
    BY <1>4, <2>1 DEF Knows
  <2>4. Knows(req[q])'
    BY <1>1, <2>1, <2>2, <2>3 DEF Knows, Live
  <2>5. Served(q)'
    BY <2>1 DEF Served, Idle
  <2>6. QED
    BY <1>3, <1>7, <2>1, <2>4, <2>5 DEF EndsSessions
<1>17. CASE RefreshSend(q)
  <2>1. req'[q] = Idle /\ Served(q) /\ req[q].op = "refresh"
    BY <1>8, <1>17 DEF RefreshSend, Answer, At
  <2>2. QED
    BY <1>3, <1>7, <2>1 DEF Served, EndsSessions
<1>18. QED
  BY <1>9, <1>10, <1>11, <1>12, <1>13, <1>14, <1>15, <1>16, <1>17 DEF Start

\* The calls that draw or revoke tokens or change the password.
LEMMA SequentialWrites ==
    ASSUME TypeOK, TypeOK', SessionInv, SequentialInv, incidents = {}, NEW q \in Requests,
           \A p \in Requests \ {q} : ~Served(p) /\ req'[p] = Idle,
           \/ LoginIssue(q) \/ RefreshRotate(q) \/ ResetWrite(q) \/ ChangeWrite(q)
           \/ RevokeWrite(q)
    PROVE  /\ OneFamily' /\ PresentPassword'
           /\ Served(q)' => Knows(req[q])'
<1>1. Served(q) /\ Knows(req[q]) /\ req[q] \in Request
  BY DEF SequentialInv, TypeOK, Served, LoginIssue, RefreshRotate, ResetWrite, ChangeWrite,
     RevokeWrite, At
<1>2. ~EndsSessions(req[q]) => \A t \in Live : token[t].password = user.password
  BY DEF SequentialInv, PresentPassword
<1>3. \A next : req' = [req EXCEPT ![q] = next] => req'[q] = next
  BY DEF TypeOK
<1>4. CASE LoginIssue(q)
  <2>1. req[q].op = "login" /\ req[q].pc = "issue" /\ req'[q] = Idle /\ user' = user
    BY <1>3, <1>4 DEF LoginIssue, At, Answer
  <2>2. req[q].password = user.password /\ Rows \subseteq req[q].hits
    BY <1>1, <2>1 DEF Knows
  <2>3. PICK n \in TokenIds :
           /\ token'[n] = NewRow(n, req[q].password)
           /\ \A t \in TokenIds \ {n} :
                 token'[t] = IF t \in req[q].hits \cap Rows THEN Gone ELSE token[t]
    BY <1>4 DEF LoginIssue
  <2>4. ASSUME NEW t \in Live' PROVE t = n
    <3>1. t \in TokenIds /\ token'[t].revoked = "NO"
      BY <2>4 DEF Live
    <3>2. CASE t # n
      <4>1. token'[t] = token[t] => t \in Live
        BY <3>1 DEF Live
      <4>2. t \in Live => t \in req[q].hits \cap Rows
        BY <2>2, <3>1, RowShape
      <4>3. token'[t] = Gone
        BY <2>3, <3>1, <3>2, <4>1, <4>2
      <4>4. QED
        BY <3>1, <4>3 DEF Gone
    <3>3. QED
      BY <3>2
  <2>5. token'[n].password = req[q].password
    BY <2>3 DEF NewRow
  <2>6. OneFamily' /\ PresentPassword'
    BY <2>1, <2>2, <2>4, <2>5 DEF OneFamily, PresentPassword
  <2>7. QED
    BY <2>1, <2>6 DEF Served
<1>5. CASE RefreshRotate(q)
  <2>1. /\ req[q].op = "refresh" /\ req[q].pc = "rotate" /\ user' = user
        /\ \/ \E n \in TokenIds : req'[q] = Sending(n)
           \/ req'[q] = Revoking("refresh", req[q].family, "REUSE_DETECTED")
    BY <1>3, <1>5 DEF RefreshRotate, At, Continue
  <2>2. req[q].password = user.password /\ \A t \in Live : token[t].family = req[q].family
    BY <1>1, <2>1 DEF Knows
  <2>3. PICK n \in TokenIds :
           /\ n # req[q].token /\ req[q].token \in TokenIds
           /\ token'[n] = NewRow(req[q].family, req[q].password)
           /\ token'[req[q].token] =
                IF req[q].token \in Live THEN [token[req[q].token] EXCEPT !.revoked = "ROTATED"]
                ELSE token[req[q].token]
           /\ \A x \in TokenIds \ {n, req[q].token} : token'[x] = token[x]
    BY <1>5, RotateMeans
  <2>4. req[q].token \notin Live'
    BY <2>3, Presented
  <2>5. ASSUME NEW t \in Live', t # n PROVE t \in Live /\ token'[t] = token[t]
    BY <2>3, <2>4, <2>5 DEF Live
  <2>6. token'[n].family = req[q].family /\ token'[n].password = req[q].password
    BY <2>3 DEF NewRow
  <2>7. \A t \in Live : token[t].password = user.password
    BY <1>2, <2>1 DEF EndsSessions
  <2>8. OneFamily' /\ PresentPassword'
    BY <2>1, <2>2, <2>5, <2>6, <2>7 DEF OneFamily, PresentPassword
  <2>9. Served(q)' => Knows(req[q])'
    <3>1. req'[q].op = "refresh" /\ req'[q].pc \in {"send", "list"}
      BY <2>1, NextOfRotation
    <3>2. QED
      BY <3>1 DEF Knows
  <2>10. QED
    BY <2>8, <2>9
<1>6. CASE ResetWrite(q) \/ ChangeWrite(q)
  <2>1. /\ UNCHANGED token
        /\ \E reason : req'[q] = Revoking("password", Null, reason)
    BY <1>3, <1>6 DEF ResetWrite, ChangeWrite, Continue
  <2>2. OneFamily'
    BY <2>1 DEF SequentialInv, OneFamily, Live
  <2>3. Served(q)' /\ EndsSessions(req[q])' /\ Knows(req[q])'
    BY <2>1 DEF Served, Idle, EndsSessions, Knows, Revoking
  <2>4. QED
    BY <2>2, <2>3 DEF PresentPassword
<1>7. CASE RevokeWrite(q)
  <2>1. req[q].pc = "revoke" /\ req'[q] = Idle /\ user' = user
    BY <1>3, <1>7 DEF RevokeWrite, Answer
  <2>2. req[q].reason \in Reasons
    BY <1>1, <2>1 DEF Request
  <2>3. /\ \A t \in TokenIds : Kept(t)
        /\ \A t \in req[q].hits \cap Live : token'[t] = [token[t] EXCEPT !.revoked = req[q].reason]
    BY <1>7, <2>2 DEF RevokeWrite, Kept, Live
  <2>4. OneFamily' /\ \A t \in Live' : t \in Live /\ token'[t] = token[t]
    BY <2>1, <2>3, KeptKnows DEF SequentialInv
  <2>5. CASE EndsSessions(req[q])
    <3>1. Live \subseteq req[q].hits
      BY <1>1, <2>1, <2>5 DEF Knows, EndsSessions
    <3>2. ASSUME NEW t \in Live' PROVE FALSE
      <4>1. t \in TokenIds /\ token[t] \in TokenRow /\ token'[t].revoked = "NO"
        BY <2>4, <3>2, RowShape DEF Live
      <4>2. token'[t].revoked = req[q].reason
        BY <2>3, <2>4, <3>1, <4>1 DEF TokenRow
      <4>3. QED
        BY <2>2, <4>1, <4>2 DEF Reasons
    <3>3. QED
      BY <2>1, <2>4, <3>2 DEF PresentPassword, Served
  <2>6. CASE ~EndsSessions(req[q])
    BY <1>2, <2>1, <2>4, <2>6 DEF PresentPassword, Served
  <2>7. QED
    BY <2>1, <2>4, <2>5, <2>6 DEF Served
<1>8. QED
  BY <1>4, <1>5, <1>6, <1>7

LEMMA SequentialStep ==
    ASSUME TypeOK, TypeOK', SessionInv, SequentialInv, [Next]_vars
    PROVE  SequentialInv'
<1> SUFFICES ASSUME incidents' = {} PROVE SequentialInv'
  BY DEF SequentialInv
<1>1. incidents = {}
  BY QuietStep
<1>2. CASE UNCHANGED vars
  BY <1>2 DEF vars, SequentialInv, OneServed, OneFamily, PresentPassword, Knows,
     EndsSessions, Served, Live, Rows
<1>3. CASE World
  BY <1>1, <1>3, SequentialWorld
<1>4. ASSUME NEW q \in Requests, Start(q) \/ Step(q),
             \A p \in Requests \ {q} : ~Served(p) /\ req'[p] = Idle
      PROVE  SequentialInv'
  <2>1. OneFamily' /\ PresentPassword' /\ (Served(q)' => Knows(req[q])')
    BY <1>1, <1>4, SequentialReads, SequentialWrites DEF Step
  <2>2. \A p \in Requests \ {q} : ~Served(p)'
    BY <1>4 DEF Served
  <2>3. QED
    BY <2>1, <2>2 DEF SequentialInv, OneServed
<1>5. QED
  BY <1>2, <1>3, <1>4, QuietStep

LEMMA SequentialSound == Spec => []SequentialInv
<1>1. Init => SequentialInv
  BY DEF Init, SequentialInv, OneServed, OneFamily, PresentPassword, Served, Live, Unused
<1>2. QED
  BY <1>1, SequentialStep, SessionTypeCorrect, SessionsSound, PTL DEF Spec

(***************************************************************************)
(* When requests have neither overlapped nor died the user has one         *)
(* session: a login leaves no token of the sessions before it.             *)
(***************************************************************************)
THEOREM OneSessionAtATime == Spec => []OneSession
<1>1. SequentialInv => OneSession
  BY DEF SequentialInv, OneFamily, OneSession
<1>2. QED
  BY <1>1, SequentialSound, PTL

(***************************************************************************)
(* When requests have neither overlapped nor died, every live token goes   *)
(* back to a login with the present password.                              *)
(***************************************************************************)
THEOREM PasswordEndsSessions == Spec => []SessionsOfThePassword
<1>1. SequentialInv => SessionsOfThePassword
  BY DEF SequentialInv, PresentPassword, SessionsOfThePassword, AtRest
<1>2. QED
  BY <1>1, SequentialSound, PTL

(***************************************************************************)
(* While requests have neither overlapped nor died, the request that       *)
(* brings a rotated token back leaves no live token of its family.         *)
(***************************************************************************)
THEOREM ReuseAlwaysEnds == Spec => ReuseEndsSession
<1>1. ASSUME TypeOK, SequentialInv, [Next]_vars, NEW q \in Requests, incidents' = {},
             Served(q), req[q].pc = "revoke", req'[q] = Idle, req[q].reason = "REUSE_DETECTED",
             NEW t \in TokenIds, token'[t].revoked = "NO"
      PROVE  token[t].family # req[q].family
  <2>1. incidents = {} /\ Knows(req[q])
    BY <1>1, QuietStep DEF SequentialInv
  <2>2. RevokeWrite(q)
    BY <1>1, RevokingGoesOn DEF Served, RevokeList
  <2>3. token'[t] = IF t \in req[q].hits \cap Live
                    THEN [token[t] EXCEPT !.revoked = req[q].reason] ELSE token[t]
    BY <2>2 DEF RevokeWrite
  <2>4. ASSUME t \in Live, t \in req[q].hits PROVE FALSE
    <3>1. token[t] \in TokenRow
      BY <1>1, <2>4, RowShape
    <3>2. QED
      BY <1>1, <2>3, <2>4, <3>1 DEF TokenRow
  <2>5. t \in Live /\ t \notin req[q].hits
    BY <1>1, <2>3, <2>4 DEF Live
  <2>6. QED
    BY <1>1, <2>1, <2>5 DEF Knows
<1>2. TypeOK /\ SequentialInv /\ [Next]_vars =>
        [\A q \in Requests :
            /\ incidents' = {}
            /\ Served(q) /\ req[q].pc = "revoke" /\ req'[q] = Idle
            /\ req[q].reason = "REUSE_DETECTED"
            => \A t \in TokenIds :
                  token'[t].revoked = "NO" => token[t].family # req[q].family]_vars
  BY <1>1
<1>3. QED
  BY <1>2, SessionTypeCorrect, SequentialSound, PTL DEF Spec, ReuseEndsSession

-----------------------------------------------------------------------------
(***************************************************************************)
(* The tokens implement SessionChain.                                      *)
(***************************************************************************)
Hand == [family \in TokenIds |-> Exchangeable(family)]

\* What the client can exchange is the one live token of the session it has.
LEMMA TokenInHand ==
    ASSUME OneTokenPerSession, NEW f \in TokenIds
    PROVE  /\ Exchangeable(f) \in TokenIds \cup {Null}
           /\ Hand[f] = Exchangeable(f)
           /\ Exchangeable(f) # Null => Exchangeable(f) \in InHand(f)
           /\ \A t \in InHand(f) : Exchangeable(f) = t
<1>1. Hand[f] = Exchangeable(f)
  BY Zenon DEF Hand
<1>2. InHand(f) # {} => Exchangeable(f) \in InHand(f)
  BY Zenon DEF Exchangeable
<1>3. InHand(f) = {} => Exchangeable(f) = Null
  BY Zenon DEF Exchangeable
<1>4. \A s, t \in InHand(f) : s = t
  BY DEF InHand, OneTokenPerSession
<1>5. InHand(f) \subseteq TokenIds
  BY DEF InHand, Live
<1>6. QED
  BY <1>1, <1>2, <1>3, <1>4, <1>5

\* The same of the state after a step.
LEMMA TokenInHandNext ==
    ASSUME OneTokenPerSession', NEW f \in TokenIds
    PROVE  /\ Exchangeable(f)' \in TokenIds \cup {Null}
           /\ Hand'[f] = Exchangeable(f)'
           /\ Exchangeable(f)' # Null => Exchangeable(f)' \in InHand(f)'
           /\ \A t \in InHand(f)' : Exchangeable(f)' = t
<1>1. Hand'[f] = Exchangeable(f)'
  BY Zenon DEF Hand
<1>2. InHand(f)' # {} => Exchangeable(f)' \in InHand(f)'
  BY Zenon DEF Exchangeable
<1>3. InHand(f)' = {} => Exchangeable(f)' = Null
  BY Zenon DEF Exchangeable
<1>4. \A s, t \in InHand(f)' : s = t
  BY DEF InHand, OneTokenPerSession
<1>5. InHand(f)' \subseteq TokenIds
  BY DEF InHand, Live
<1>6. QED
  BY <1>1, <1>2, <1>3, <1>4, <1>5

\* A session without a new token keeps the one it has, or ends.
LEMMA SessionMayEnd ==
    ASSUME OneTokenPerSession, OneTokenPerSession', NEW f \in TokenIds,
           InHand(f)' \subseteq InHand(f)
    PROVE  Exchangeable(f)' \in {Exchangeable(f), Null}
<1>1. CASE Exchangeable(f)' = Null
  BY <1>1
<1>2. CASE Exchangeable(f)' # Null
  <2>1. Exchangeable(f)' \in InHand(f)
    BY <1>2, TokenInHandNext
  <2>2. QED
    BY <2>1, TokenInHand
<1>3. QED
  BY <1>1, <1>2

\* The token in hand stays where nothing happens to the tokens of the session.
LEMMA SessionStays ==
    ASSUME OneTokenPerSession, OneTokenPerSession', NEW f \in TokenIds,
           InHand(f)' = InHand(f)
    PROVE  Exchangeable(f)' = Exchangeable(f)
<1>1. CASE InHand(f) = {}
  BY <1>1, Zenon DEF Exchangeable
<1>2. CASE InHand(f) # {}
  <2>1. PICK t : t \in InHand(f)
    BY <1>2
  <2>2. QED
    BY <2>1, TokenInHand, TokenInHandNext
<1>3. QED
  BY <1>1, <1>2

\* The functions that SessionChain speaks of.
LEMMA HandShape ==
    /\ Hand = [s \in TokenIds |-> Hand[s]]
    /\ Hand' = [s \in TokenIds |-> Hand'[s]]
  BY Zenon DEF Hand

\* A login opens a session.
LEMMA LoginOpens ==
    ASSUME TypeOK, TypeOK', SessionInv, SessionInv', NEW q \in Requests, LoginIssue(q)
    PROVE  Chains!Next
<1>1. PICK n \in TokenIds :
         /\ token[n] = Unused
         /\ token'[n] = NewRow(n, req[q].password)
         /\ Promised' = Promised \cup {n}
         /\ \A t \in TokenIds \ {n} : token'[t] \in {token[t], Gone}
         /\ \A t \in TokenIds \ {n} : token'[t] = Unused <=> token[t] = Unused
  BY IssueMeans, IssuePromises
<1>2. n \in Live' /\ token'[n].family = n /\ n \in Promised'
  BY <1>1 DEF NewRow, Live
<1>3. OneTokenPerSession /\ OneTokenPerSession'
  BY DEF SessionInv
<1>4. Hand'[n] = n
  <2>1. n \in InHand(n)'
    BY <1>2 DEF InHand
  <2>2. QED
    BY <1>3, <2>1, TokenInHandNext
<1>5. ASSUME NEW s \in TokenIds \ {n} PROVE Hand'[s] \in {Hand[s], Null}
  <2>1. ASSUME NEW t \in InHand(s)' PROVE t \in InHand(s)
    <3>1. t \in TokenIds /\ t \in Live' /\ t \in Promised' /\ token'[t].family = s
      BY <2>1 DEF InHand, Live
    <3>2. t # n /\ token'[t] # Gone
      BY <1>2, <1>5, <3>1 DEF Live, Gone
    <3>3. token'[t] = token[t]
      BY <1>1, <3>1, <3>2
    <3>4. QED
      BY <1>1, <3>1, <3>2, <3>3 DEF InHand, Live
  <2>2. Exchangeable(s)' \in {Exchangeable(s), Null}
    BY <1>3, <2>1, SessionMayEnd
  <2>3. QED
    BY <1>3, <2>2, TokenInHand, TokenInHandNext
<1>6. n \notin Drawn /\ Drawn' = Drawn \cup {n}
  <2>1. Gone # Unused /\ token'[n] # Unused
    BY <1>1 DEF Gone, Unused, NewRow
  <2>2. QED
    BY <1>1, <2>1 DEF Drawn
<1>7. Hand' \in [TokenIds -> TokenIds \cup {Null}]
  BY <1>3, TokenInHandNext, HandShape
<1>8. Chains!Open(n)
  BY <1>4, <1>5, <1>6, <1>7, Zenon DEF Chains!Open, Chains!Draw, Chains!MayEnd, Hand
<1>9. QED
  BY <1>8, Zenon DEF Chains!Next

\* A refresh exchanges the token, or draws one in vain.
LEMMA RefreshExchanges ==
    ASSUME TypeOK, TypeOK', SessionInv, SessionInv', NEW q \in Requests,
           RefreshRotate(q)
    PROVE  Chains!Next
<1>1. req[q].token \in TokenIds /\ req[q].family \in TokenIds
  BY DEF RefreshRotate, At, Served, TypeOK, Request
<1>2. PICK t \in TokenIds, f \in TokenIds : t = req[q].token /\ f = req[q].family
  BY <1>1
<1>3. PICK n \in TokenIds :
         /\ token[n] = Unused /\ n # t
         /\ token'[n] = NewRow(f, req[q].password)
         /\ token'[t] = IF t \in Live THEN [token[t] EXCEPT !.revoked = "ROTATED"]
                        ELSE token[t]
         /\ \A s \in TokenIds \ {n, t} : token'[s] = token[s]
         /\ Promised' = Promised \cup (IF t \in Live THEN {n} ELSE {})
  BY <1>2, RotateMeans, RotatePromises
<1>4. /\ n \in Live' /\ token'[n].family = f
      /\ t \notin Live'
  BY <1>3, NewRowFields, Presented
<1>5. OneTokenPerSession /\ OneTokenPerSession'
  BY DEF SessionInv
<1>6. t \in Live => t \in Promised /\ token[t].family = f
  BY <1>2, RowShape DEF SessionInv, RefreshSound, RefreshRotate, Promised
<1>7. n \notin Live /\ n \notin Promised
  BY <1>3 DEF Live, Unused, SessionInv, FamiliesDrawn
<1>8. n \notin Drawn /\ Drawn' = Drawn \cup {n}
  <2>1. token'[n] # Unused
    BY <1>3 DEF Unused, NewRow
  <2>2. token[t] # Unused
    BY <1>2 DEF SessionInv, RefreshSound, RefreshRotate
  <2>3. token'[t] # Unused
    BY <1>3, <2>2, RowShape DEF TokenRow, Unused
  <2>4. QED
    BY <1>3, <2>1, <2>2, <2>3 DEF Drawn
<1>9. CASE t \in Live
  <2>1. Hand[f] # Null
    <3>1. t \in InHand(f)
      BY <1>6, <1>9 DEF InHand
    <3>2. QED
      BY <1>3, <1>2, <1>5, <3>1, TokenInHand, NullAssumption
  <2>2. Hand'[f] = n
    <3>1. n \in InHand(f)'
      BY <1>3, <1>4, <1>9 DEF InHand
    <3>2. QED
      BY <1>2, <1>5, <3>1, TokenInHandNext
  <2>3. ASSUME NEW s \in TokenIds \ {f} PROVE Hand'[s] = Hand[s]
    <3>1. \A x \in TokenIds : x \in InHand(s)' <=> x \in InHand(s)
      BY <1>3, <1>4, <1>6, <1>7, <1>9, <2>3 DEF InHand, Live
    <3>2. InHand(s)' = InHand(s)
      BY <3>1 DEF InHand, Live
    <3>3. QED
      BY <1>5, <3>2, SessionStays, TokenInHand, TokenInHandNext
  <2>4. Hand' = [Hand EXCEPT ![f] = n]
    BY <1>2, <2>2, <2>3, HandShape
  <2>5. Chains!Exchange(f, n)
    BY <1>8, <2>1, <2>4, Zenon DEF Chains!Exchange, Chains!Draw, Hand
  <2>6. QED
    BY <1>2, <2>5, Zenon DEF Chains!Next
<1>10. CASE t \notin Live
  <2>1. ASSUME NEW s \in TokenIds PROVE Hand'[s] = Hand[s]
    <3>1. \A x \in TokenIds : x \in InHand(s)' <=> x \in InHand(s)
      BY <1>3, <1>4, <1>7, <1>10 DEF InHand, Live
    <3>2. InHand(s)' = InHand(s)
      BY <3>1 DEF InHand, Live
    <3>3. QED
      BY <1>5, <3>2, SessionStays, TokenInHand, TokenInHandNext
  <2>2. Hand' = Hand
    BY <2>1, HandShape
  <2>3. Chains!Waste(n)
    BY <1>8, <2>2, Zenon DEF Chains!Waste, Chains!Draw, Hand
  <2>4. QED
    BY <2>3, Zenon DEF Chains!Next
<1>11. QED
  BY <1>9, <1>10

\* Every other step leaves the sessions or ends some.
LEMMA SessionsEnd ==
    ASSUME TypeOK, TypeOK', SessionInv, SessionInv', [Next]_vars,
           \A q \in Requests : ~LoginIssue(q) /\ ~RefreshRotate(q)
    PROVE  Chains!Next
<1>1. \A t \in TokenIds : Kept(t)
  BY TokensKept
<1>2. OneTokenPerSession /\ OneTokenPerSession'
  BY DEF SessionInv
<1>3. Drawn' = Drawn
  BY <1>1, KeptMeans DEF Drawn
<1>4. ASSUME NEW s \in TokenIds PROVE Hand'[s] \in {Hand[s], Null}
  <2>1. ASSUME NEW t \in InHand(s)' PROVE t \in InHand(s)
    <3>1. t \in TokenIds /\ t \in Live' /\ t \in Promised' /\ token'[t].family = s
      BY <2>1 DEF InHand, Live
    <3>2. t \in Live /\ t \in Rows
      BY <1>1, <3>1, KeptMeans, RowShape
    <3>3. QED
      BY <1>1, <3>1, <3>2, KeptMeans, NothingPromised DEF InHand
  <2>2. Exchangeable(s)' \in {Exchangeable(s), Null}
    BY <1>2, <2>1, SessionMayEnd
  <2>3. QED
    BY <1>2, <2>2, TokenInHand, TokenInHandNext
<1>5. Hand' \in [TokenIds -> TokenIds \cup {Null}]
  BY <1>2, TokenInHandNext, HandShape
<1>6. Chains!End
  BY <1>3, <1>4, <1>5, Zenon DEF Chains!End, Chains!MayEnd, Hand
<1>7. QED
  BY <1>6, Zenon DEF Chains!Next

(***************************************************************************)
(* The refresh tokens of auth.service.ts implement SessionChain, for any   *)
(* number of tokens and of overlapping or dying requests: a refresh gives  *)
(* the client one new token for the one it had, or nothing, and what has   *)
(* left its hands is never good again.                                     *)
(***************************************************************************)
THEOREM ImplementsSessionChain == Spec => ChainRefined
<1>1. Init => Chains!Init
  <2> SUFFICES ASSUME Init PROVE Chains!Init
    OBVIOUS
  <2>1. Drawn = {} /\ Live = {}
    BY DEF Init, Drawn, Live, Unused
  <2>2. \A f \in TokenIds : Exchangeable(f) = Null
    BY <2>1 DEF Exchangeable, InHand
  <2>3. QED
    BY <2>1, <2>2 DEF Chains!Init
<1>2. TypeOK /\ TypeOK' /\ SessionInv /\ SessionInv' /\ [Next]_vars
        => [Chains!Next]_<<Hand, Drawn>>
  BY LoginOpens, RefreshExchanges, SessionsEnd
<1>3. TypeOK /\ TypeOK' /\ SessionInv /\ SessionInv' /\ [Next]_vars
        => [Chains!Next]_<<[family \in TokenIds |-> Exchangeable(family)], Drawn>>
  BY <1>2, Zenon DEF Hand
<1>4. QED
  BY <1>1, <1>3, SessionTypeCorrect, SessionsSound, PTL
     DEF Spec, ChainRefined, Chains!Spec
==============================================================================
