CONSTANTS
    aria = aria
    ballad = ballad
    ariaAgain = ariaAgain
    NoTrack = NoTrack
    Tracks = {aria, ballad, ariaAgain}
    Song <- MCSong
    Queues <- MCQueues
    Start = 0
    End = 2
    MaxQueue = 3
    MaxBars = 2
    MaxClicks = 3
SPECIFICATION Spec
INVARIANTS
    OneVoice
CHECK_DEADLOCK FALSE
