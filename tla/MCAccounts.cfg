CONSTANTS
    u1 = u1
    u2 = u2
    u3 = u3
    main = main
    n1 = n1
    n2 = n2
    g1 = g1
    g2 = g2
    Unborn = Unborn
    Deleted = Deleted
    Keep = Keep
    Nobody = Nobody
    Users = {u1, u2, u3}
    Names = {main, n1, n2}
    MainNames = {main}
    Gateways = {g1, g2}
    Requests = {r1, r2}
    InitialUsers <- MCInitialUsers
    Jobs <- MCJobs
    MaxCalls = 4
SPECIFICATION Spec
INVARIANTS
    TypeOK
    LastAdminNeedsOverlap
PROPERTIES
    PatchKeepsRest
    MainAdminProtected
SYMMETRY Symmetry
CHECK_DEADLOCK FALSE
