----------------------------- MODULE SessionChain -----------------------------
(***************************************************************************)
(* What the authentication service promises a client about its refresh     *)
(* tokens, without rows, reasons or requests in flight: a session is a     *)
(* chain, of which the client has one token at a time.  The token may be   *)
(* exchanged for one never drawn before, and a session that has ended, or  *)
(* a token given away in an exchange, never comes back.                    *)
(***************************************************************************)
CONSTANTS
    TokenIds,
    NoToken          \* nothing to exchange: no session of that name, or it has ended

VARIABLES
    hand,    \* session, named after its first token -> the token the client can exchange
    used     \* the tokens drawn so far

Init ==
    /\ hand = [s \in TokenIds |-> NoToken]
    /\ used = {}

Draw(n) == n \notin used /\ used' = used \cup {n}

\* Any sessions of a set may end at once, and nothing else happens to them.
MayEnd(sessions) ==
    /\ hand' \in [TokenIds -> TokenIds \cup {NoToken}]
    /\ \A s \in sessions : hand'[s] \in {hand[s], NoToken}

\* A login, which may end other sessions.
Open(n) ==
    /\ Draw(n)
    /\ MayEnd(TokenIds \ {n})
    /\ hand'[n] = n

Exchange(s, n) ==
    /\ hand[s] # NoToken
    /\ Draw(n)
    /\ hand' = [hand EXCEPT ![s] = n]

\* A refresh that comes too late draws a token and does not send it.
Waste(n) == Draw(n) /\ UNCHANGED hand

End ==
    /\ UNCHANGED used
    /\ MayEnd(TokenIds)

Next ==
    \/ End
    \/ \E n \in TokenIds : Open(n) \/ Waste(n)
    \/ \E s, n \in TokenIds : Exchange(s, n)

Spec == Init /\ [][Next]_<<hand, used>>
==============================================================================
