CONSTANTS
    ann = ann
    bob = bob
    NoUser = NoUser
    Tabs = {1, 2}
    Users <- MCUsers
    Admins = {ann}
    MaxPairs = 3
    MaxCalls = 2
    MaxLoads = 2
    Ids = {1, 2}
    MaxHandlers = 3
    MaxAtOnce = 2
    MaxMishaps = 1
SPECIFICATION PartsSpec
INVARIANTS
    PartsTypeOK
    SessionWhole
    WaitsHaveCause
    ToldIsDone
CHECK_DEADLOCK FALSE
