CONSTANTS
    ann = ann
    bob = bob
    cal = cal
    Volunteer <- MCPeople
    Met <- MCMet
    Watched = {bob}
    MaxReports = 3
    MaxNoShows = 3

    Person <- MCPeople
    Pairing = {1, 2}
    Meetings <- MCMeetings
    Changing = {bob}

    Trial = 4
    Interval = 2
    PlanLength = {3, 5}
    MaxTime = 16
    MaxPeriods = 3

    Member <- MCPeople
    Cooldown = 2
    MaxDay = 3

    WaitCap = 5
    MinLead = 1
    Far = 7
    Near = 2
    ShiftDay = {3, 6, 9, 12}
    LastDay = 10

    Subject = {ann, bob}
    Document = {1}
    Claims = {1, 2}
    NoDocument = 0
    MaxBadges = 3

    Slot = {1, 2}
    EditSection = {"orgOrCause"}

    Call = {1, 2}
    MaxMessages = 4

    Change = 3
    LocalHour = {1, 2, 3}
    MaxHour = 5
    Score = {1}
    MaxCalls = 1

    Phone = {1, 2}
    Email = {"ann@mail"}
    MaxTokens = 3

    Limit = 2
    Window = 3
    FailLimit = 2
    Comparing = 2
    MaxHits = 4

    Variant <- MCVariant
    ProfileName <- MCProfileName
    IdName <- MCIdName
    TypedAge = {2}
    Birth <- MCBirth
    Expiry = {1, 3}
    Paper = {"passport"}
    YearDays = 2
    MIN_ADULT_AGE = 2
    DOC_CHECK_LIMIT = 2
    LastCheckDay = 2
    MaxPhotos = 2

    Ann = ann
    Bob = bob
    Interest = {"music", "chess"}
    Adjacent <- MCAdjacent
    ShiftCauses = {"food"}
    Mission = {"cleanups"}
    Distance = {0, 10, 30}
    Radius = 20
    FirstRows <- MCFirstRows
    MaxEvents = 3

    Hour = 2
    Day = 3
    Lead = 0
    Horizon = 5
    Cadence <- MCCadence
    Calendar <- MCCalendar
    TravelRadius = 10
    MaxMoved = 1
    LastHour = 4

    InFlight = {1}
    MaxStack = 3
SPECIFICATION AccountsSpec
INVARIANTS
    RecordsTypeOK
    ReportedApart
    BuddiesAgreed
    WeeklyGrants
    ReferralsEarnOnce
    VerifiedIsBacked
    NothingSkipped
    LimitsKept
    VerifiedAsChecked
    BackLeadsHome
PROPERTIES
    HoldsStand
    BarNeverRises
    StepsSaved
    RosterTapsSafe
    SessionsEndForCause
    MeritCounts
    NudgedWhenQuiet
CHECK_DEADLOCK FALSE
