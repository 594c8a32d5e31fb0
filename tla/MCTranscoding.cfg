CONSTANTS
    t1 = t1
    g1 = g1
    g2 = g2
    a = a
    b = b
    starter = starter
    high = high
    short = short
    long = long
    s0 = s0
    s1 = s1
    Absent = Absent
    Torn = Torn
    Open = Open
    Playlist = Playlist
    Tracks = {t1}
    Gateways = {g1, g2}
    Callers = {a, b}
    Rates = {starter, high}
    Durations = {short, long}
    Segments = {s0, s1}
    SegmentsOf <- MCSegmentsOf
    Workloads <- MCWorkloads
    MaxCancels = 1
    MaxRestarts = 1
SPECIFICATION FairSpec
INVARIANTS
    TypeOK
    StoredAsPromised
PROPERTIES
    FinishedJobsStay
    EveryCallerAnswered
CHECK_DEADLOCK FALSE
