CONSTANTS
    aria = aria
    ballad = ballad
    ariaAgain = ariaAgain
    NoTrack = NoTrack
    Tracks = {aria, ballad, ariaAgain}
    Song <- MCSong
    Queues <- MCQueues
    Start = 0
    End = 2
    MaxQueue = 3
    MaxBars = 2
    MaxClicks = 4
SPECIFICATION Spec
INVARIANTS
    TypeOK
    SourceIsChosen
    SoundAsShown
PROPERTY ComesRound
CHECK_DEADLOCK FALSE
