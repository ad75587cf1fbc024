CONSTANTS
    RateIds = {r1}
    RuleIds = {x1, x2}
    Days = {1, 2}
    Prices = {15}
    Adjustments <- MCAdjustments
    Requests = {q1, q2}
    RulesTakeTurns = TRUE
    MayFail = TRUE
    Null = Null
SPECIFICATION Spec
SYMMETRY Symmetry
INVARIANTS
    TypeOK
    RulesApart
    SoldAsListed
PROPERTIES
    QuoteDetermined
CHECK_DEADLOCK FALSE
