CONSTANTS
    u1 = u1
    u2 = u2
    u3 = u3
    s1 = s1
    s2 = s2
    NoUser = NoUser
    NoShift = NoShift
    User <- TwoUsers
    Shift <- TwoShifts
    Capacity <- TwoSpots
    Start <- StartAt4
    End <- OneLong
    WindowEnd <- EarlyOrLate
    Premium <- Nobody
    SoloUser <- OnlyU1
    Reporter <- Nobody
    StartBalance = 1
    MonthlyCap = 2
    Grace = 0
    BailDecisionTime = 1
    BailMin = 2
    RematchLast = 1
    CheckInLead = 1
    LastResponse = 3
    MinLead = 4
    ProposalResponse = 4
    WaitCap = 5
    AutoResolve = 1
    Horizon = 5
    MaxRequests = 3
    MaxBookings = 3
    MaxPairings = 1
    PromptTick = TRUE
SPECIFICATION Spec
INVARIANTS
    NoDoubleBooking
CHECK_DEADLOCK FALSE
