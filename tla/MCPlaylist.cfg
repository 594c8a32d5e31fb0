SPECIFICATION FairSpec
CONSTANTS
    a = a
    b = b
    c = c
    Tracks <- ThreeTracks
    Gateways = {g1}
    Requests = {r1, r2}
    Jobs <- MCJobs
    Same = Same
    MaxPosition = 3
INVARIANTS TypeOK PositionsDense
PROPERTIES EveryRequestAnswered ReorderAsAsked ImplementsOrder
