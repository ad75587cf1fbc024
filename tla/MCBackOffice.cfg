CONSTANTS
    e1 = e1
    e2 = e2
    Emails = {e0, e1, e2}
    Owner = e0
    Slugs = {s0, s1, s2}
    Home = s0
    Links = {l1, l2, l3}
    Branches = {b1, b2}
    Rooms = {r1, r2}
    Images = {i1, i2}
    Reviews = {v1}
    Plans <- AllPlans
    TrialPlan <- Trial
    Requests = {q1, q2}
    Openings <- AllOpenings
    MayFail = TRUE
    Null = Null
    Unsent = Unsent
SPECIFICATION Spec
SYMMETRY Symmetry
INVARIANTS
    TypeOK
    RegistrationSound
    RolesAgree
    ArchivedIsClosed
    GallerySound
PROPERTIES
    LinkOpensItsAccount
    ManagersStayInBranch
    PlanLimitsKept
CHECK_DEADLOCK FALSE
