CONSTANTS
    t1 = t1
    t2 = t2
    NoTrack = NoTrack
    Tracks <- MCTracks
    PageSize = 2
    MaxLists = 3
    MaxTasks = 6
    MaxAtOnce = 2
    MaxFailures = 1
    Ids = {1, 2}
    TracksPerPage = 2
    MaxTracks = 5
    MaxLoads = 4
    ShelfTracks = {1, 2, 3}
    Listings <- MCListings
    Histories <- MCHistories
    Rankings <- MCRankings
    Limit = 2
    MaxFeatured = 2
    MaxHistory = 4
    MaxActs = 3
    MaxEdits = 2
    MaxAsked = 1
    MaxMishaps = 1
SPECIFICATION PagesSpec
INVARIANTS
    PagesTypeOK
    FavoritesOnce
    SettledIsTrue
    ShownIsAsked
    EveryTrackListed
    ShelvesAsRanked
    NamesHaveSource
CHECK_DEADLOCK FALSE
