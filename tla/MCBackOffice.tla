----------------------------- MODULE MCBackOffice -----------------------------
(***************************************************************************)
(* Instance of BackOffice for TLC.  An opening is a set of endpoints whose *)
(* tables meet; each behaviour has one of them.                            *)
(***************************************************************************)
EXTENDS BackOffice, TLC

Trial     == [maxBranches |-> 1, maxRooms |-> 1, listing |-> FALSE]
OneHouse  == [maxBranches |-> 1, maxRooms |-> Unlimited, listing |-> TRUE]
TwoHouses == [maxBranches |-> 2, maxRooms |-> Unlimited, listing |-> TRUE]
AllPlans  == {Trial, OneHouse, TwoHouses}

InTurn(ops, people, plan) ==
    [ops |-> ops, turns |-> TRUE, people |-> people, plan |-> plan]
Overlapping(ops, people, plan) ==
    [ops |-> ops, turns |-> FALSE, people |-> people, plan |-> plan]

CONSTANTS e1, e2

AllOpenings ==
    {InTurn({"register", "resend", "verify", "hire"}, {e1, e2}, Trial),
     Overlapping({"register", "resend", "verify", "hire"}, {e1}, Trial),
     InTurn({"plan", "status", "branch", "list", "archive", "room"}, {}, Trial),
     InTurn({"branch", "edit", "hire", "staff", "archive"}, {e1}, TwoHouses),
     Overlapping({"hire", "staff"}, {e1}, Trial),
     InTurn({"branch", "hire", "upload", "cover", "delete"}, {e1}, TwoHouses),
     InTurn({"branch", "room", "upload", "cover", "delete"}, {}, OneHouse),
     InTurn({"branch", "room", "hire", "upload"}, {e1}, TwoHouses),
     Overlapping({"branch", "upload", "cover", "delete", "archive"}, {}, Trial),
     InTurn({"branch", "hire", "archive", "reply", "publish"}, {e1}, TwoHouses)}

Symmetry ==
    Permutations(Requests) \cup Permutations(Links) \cup Permutations(Branches)
        \cup Permutations(Rooms) \cup Permutations(Images)
==============================================================================
