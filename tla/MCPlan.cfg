CONSTANTS
    u1 = u1
    u2 = u2
    u3 = u3
    u4 = u4
    NoUser = NoUser
    User <- People
    MaxRequest = 4
    MaxShift = 2
    Start <- InOrder
    Pools <- SmallPools
SPECIFICATION Spec
INVARIANTS
    PlanTypeOK
    SeatsCounted
    BestFirst
    EveryoneAnswered
PROPERTIES
    ImplementsAssignment
    RunEnds
CHECK_DEADLOCK FALSE
