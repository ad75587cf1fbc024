------------------------------ MODULE ReviewDesk ------------------------------
(***************************************************************************)
(* reviews.service.ts: what managers do with the reviews of a branch.      *)
(***************************************************************************)
EXTENDS Access

\* Guests write their reviews elsewhere.
ReviewArrives(v, b) ==
    /\ {"reply", "publish"} \cap clients.ops # {}
    /\ clients.turns => AtRest
    /\ review[v] = NoRow
    /\ branch[b] # NoRow
    /\ review' = [review EXCEPT ![v] = [branch |-> b, published |-> TRUE,
                                        replied |-> FALSE, by |-> Null]]
    /\ UNCHANGED <<accountVars, staff, estateVars, pictureVars, clients, req>>

\* reply; the owner signs with no staff record, a manager with the active one.
ReplyRead(q) ==
    \E a \in Emails, v \in Reviews :
        /\ review[v] # NoRow
        /\ review[v].branch \in LiveBranches
        /\ MayReply(a)
        /\ InScope(a, review[v].branch)
        /\ user[a].role # "ORG_OWNER" =>
              staff[a] # NoRow /\ staff[a].active
                /\ staff[a].role \in {"ORG_MANAGER", "BRANCH_MANAGER"}
        /\ Begin(q, [op |-> "reply", pc |-> "write", actor |-> a, review |-> v,
                     branch |-> review[v].branch,
                     by |-> IF user[a].role = "ORG_OWNER" THEN Null ELSE a])
        /\ UNCHANGED <<accountVars, staff, estateVars, pictureVars, review>>

ReplyWrite(q) ==
    /\ At(q, "reply", "write")
    /\ review' = [review EXCEPT ![req[q].review].replied = TRUE,
                                ![req[q].review].by = req[q].by]
    /\ Answer(q)
    /\ UNCHANGED <<accountVars, staff, estateVars, pictureVars>>

PublishRead(q) ==
    \E a \in Emails, v \in Reviews, published \in BOOLEAN :
        /\ review[v] # NoRow
        /\ review[v].branch \in LiveBranches
        /\ MayPublish(a)
        /\ InScope(a, review[v].branch)
        /\ Begin(q, [op |-> "publish", pc |-> "write", actor |-> a, review |-> v,
                     branch |-> review[v].branch, published |-> published])
        /\ UNCHANGED <<accountVars, staff, estateVars, pictureVars, review>>

PublishWrite(q) ==
    /\ At(q, "publish", "write")
    /\ review' = [review EXCEPT ![req[q].review].published = req[q].published]
    /\ Answer(q)
    /\ UNCHANGED <<accountVars, staff, estateVars, pictureVars>>

-----------------------------------------------------------------------------
ReviewStart(q) == ReplyRead(q) \/ PublishRead(q)

ReviewStep(q) == ReplyWrite(q) \/ PublishWrite(q)

ReviewRequest ==
    [op: {"reply"}, pc: {"write"}, actor: Emails, review: Reviews, branch: Branches,
          by: Emails \cup {Null}]
    \cup [op: {"publish"}, pc: {"write"}, actor: Emails, review: Reviews, branch: Branches,
          published: BOOLEAN]
==============================================================================
