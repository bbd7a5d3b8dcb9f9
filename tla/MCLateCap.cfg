CONSTANTS
    u1 = u1
    u2 = u2
    u3 = u3
    s1 = s1
    s2 = s2
    NoUser = NoUser
    NoShift = NoShift
    User <- TwoUsers
    Shift <- OneShift
    Capacity <- TwoSpots
    Start <- StartAt4
    End <- EndAt5
    WindowEnd <- EndOfDay
    Premium <- Nobody
    SoloUser <- Nobody
    Reporter <- Nobody
    StartBalance = 1
    MonthlyCap = 2
    Grace = 0
    BailDecisionTime = 1
    BailMin = 2
    RematchLast = 1
    CheckInLead = 1
    LastResponse = 3
    MinLead = 4
    ProposalResponse = 4
    WaitCap = 5
    AutoResolve = 1
    Horizon = 6
    MaxRequests = 4
    MaxBookings = 3
    MaxPairings = 2
    PromptTick = TRUE
SPECIFICATION Spec
INVARIANTS
    ForfeitedCounts
CHECK_DEADLOCK FALSE
