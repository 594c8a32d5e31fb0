CONSTANTS
    t1 = t1
    g1 = g1
    g2 = g2
    a = a
    b = b
    starter = starter
    high = high
    short = short
    long = long
    s0 = s0
    s1 = s1
    Absent = Absent
    Torn = Torn
    Open = Open
    Playlist = Playlist
    Tracks = {t1}
    Gateways = {g1, g2}
    Callers = {a, b}
    Rates = {starter, high}
    Durations = {short, long}
    Segments = {s0, s1}
    SegmentsOf <- MCSegmentsOf
    Workloads <- MCListenAndPrewarm
    MaxCancels = 0
    MaxRestarts = 0
SPECIFICATION Spec
INVARIANTS
    ManifestMeansPlayable
CHECK_DEADLOCK FALSE
