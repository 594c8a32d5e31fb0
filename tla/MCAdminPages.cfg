CONSTANTS
    Accounts = {1, 2}
    MainAdmin = 1
    Pages = 3
    MaxTasks = 4
    MaxAtOnce = 2
    MaxMishaps = 1
    NotHere = NotHere
SPECIFICATION PagesSpec
INVARIANTS
    PagesTypeOK
    DraftIsOfShown
    ShownIsStored
    WaitsHaveCause
PROPERTIES
    UntouchedFieldsKept
CHECK_DEADLOCK FALSE
