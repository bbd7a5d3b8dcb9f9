CONSTANTS
    u1 = u1
    u2 = u2
    u3 = u3
    s1 = s1
    s2 = s2
    NoUser = NoUser
    NoShift = NoShift
    User <- TwoUsers
    Shift <- OneShift
    Capacity <- TwoSpots
    Start <- StartAt4
    End <- EndAt5
    WindowEnd <- EndOfDay
    Premium <- OnlyU1
    SoloUser <- OnlyU1
    Reporter <- TwoUsers
    StartBalance = 2
    MonthlyCap = 1
    Grace = 0
    BailDecisionTime = 1
    BailMin = 2
    RematchLast = 1
    CheckInLead = 1
    LastResponse = 3
    MinLead = 4
    ProposalResponse = 4
    WaitCap = 5
    AutoResolve = 1
    Horizon = 6
    MaxRequests = 3
    MaxBookings = 3
    MaxPairings = 2
    PromptTick = FALSE
SPECIFICATION Spec
INVARIANTS
    TypeOK
    CapacityCounts
    DeedsConserved
    HoldBacked
    ProposalsAgree
    OffersHonoured
PROPERTIES
    ReportTakesOut
    AnchorStays
CHECK_DEADLOCK FALSE
