------------------------------ MODULE MCSessions ------------------------------
(* Instance of Sessions for TLC. *)
EXTENDS Sessions, TLC

(***************************************************************************)
(* INACTIVE_ORGANIZATION is left out: a look-up made under it proceeds as  *)
(* under GOOD, and the refusal it leads to as under INACTIVE_USER, of whose *)
(* organization nothing is said.                                           *)
(***************************************************************************)
GoodOrInactive == {"GOOD", "INACTIVE_USER"}

\* Tokens and request slots are only compared for equality.
Symmetry == Permutations(TokenIds) \cup Permutations(Requests)
==============================================================================
