CONSTANTS
    u1 = u1
    u2 = u2
    u3 = u3
    s1 = s1
    s2 = s2
    NoUser = NoUser
    NoShift = NoShift
    User <- ThreeUsers
    Shift <- OneShift
    Capacity <- ThreeSpots
    Start <- StartAt4
    End <- EndAt5
    WindowEnd <- EndOfDay
    Premium <- Nobody
    SoloUser <- Nobody
    Reporter <- Nobody
    StartBalance = 1
    MonthlyCap = 1
    Grace = 0
    BailDecisionTime = 1
    BailMin = 2
    RematchLast = 1
    CheckInLead = 1
    LastResponse = 3
    MinLead = 4
    ProposalResponse = 4
    WaitCap = 5
    AutoResolve = 1
    Horizon = 0
    MaxRequests = 6
    MaxBookings = 4
    MaxPairings = 3
    PromptTick = TRUE
SPECIFICATION Spec
SYMMETRY AnyThree
CONSTRAINT Persistent
INVARIANTS
    SomeoneCanAnswer
CHECK_DEADLOCK FALSE
