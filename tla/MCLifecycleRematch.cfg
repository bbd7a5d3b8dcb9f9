CONSTANTS
    u1 = u1
    u2 = u2
    u3 = u3
    s1 = s1
    s2 = s2
    NoUser = NoUser
    NoShift = NoShift
    User <- ThreeUsers
    Shift <- OneShift
    Capacity <- ThreeSpots
    Start <- StartAt5
    End <- EndAt6
    WindowEnd <- EndOfDay
    Premium <- Nobody
    SoloUser <- Nobody
    Reporter <- Nobody
    StartBalance = 2
    MonthlyCap = 1
    Grace = 0
    BailDecisionTime = 1
    BailMin = 2
    RematchLast = 1
    CheckInLead = 1
    LastResponse = 3
    MinLead = 4
    ProposalResponse = 4
    WaitCap = 5
    AutoResolve = 1
    Horizon = 6
    MaxRequests = 4
    MaxBookings = 3
    MaxPairings = 2
    PromptTick = FALSE
SPECIFICATION Spec
SYMMETRY AnyThree
INVARIANTS
    ConfirmedIsMutual
    DecisionStands
    CompletedIsOver
CHECK_DEADLOCK FALSE
