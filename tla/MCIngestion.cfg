CONSTANTS
    r1 = r1
    r2 = r2
    g1 = g1
    g2 = g2
    p1 = p1
    p2 = p2
    c1 = c1
    c2 = c2
    Muse = Muse
    Absolution = Absolution
    Blank = Blank
    Missing = Missing
    Nobody = Nobody
    UnknownArtist = UnknownArtist
    UnknownAlbum = UnknownAlbum
    Requests = {r1, r2}
    Gateways <- MCGateways
    Paths <- MCPaths
    Contents <- MCContents
    ArtistNames <- MCArtistNames
    AlbumTitles <- MCAlbumTitles
    Library <- MCLibrary
    TagArtist <- MCTagArtist
    TagAlbum <- MCTagAlbum
    WithPicture <- MCWithPicture
    Workloads <- MCWorkloads
    Answers <- MCAnswers
    MaxScans = 1
    MaxDisturbances = 1
    Disturbed <- MCScanOnly
SPECIFICATION FairSpec
INVARIANTS
    TypeOK
    RepeatsOnlyByOverlap
    ScanTakenOnce
    TallyMatchesCatalog
    TrackRowsResolve
PROPERTIES
    EveryRequestAnswered
    EnrichmentOnlyFillsGaps
CHECK_DEADLOCK FALSE
