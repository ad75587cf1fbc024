------------------------------ MODULE MCPricing ------------------------------
(* Instance of Pricing for TLC. *)
EXTENDS Pricing, TLC

\* 15 cents at +50% are 22.5 cents: half a cent is rounded.
MCAdjustments ==
    {[type |-> "FIXED", value |-> 0, override |-> 90],
     [type |-> "PERCENT_INCREASE", value |-> 5000, override |-> 0]}

Symmetry == Permutations(RateIds) \cup Permutations(RuleIds) \cup Permutations(Requests)
==============================================================================
