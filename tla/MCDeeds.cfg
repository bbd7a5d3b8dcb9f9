CONSTANTS
    u1 = u1
    u2 = u2
    h1 = h1
    h2 = h2
    h3 = h3
    NoUser = NoUser
    User <- MCUser
    HoldId <- MCHoldId
    Packs <- MCPacks
    FreeCredits <- MCFreeCredits
    Prices <- MCPrices
    DefaultPrice = 5
    MaxCredited = 5
SPECIFICATION Spec
SYMMETRY Symmetry
INVARIANTS
    TypeOK
    DeedsAddUp
    RevenueExact
PROPERTY
    ImplementsEscrow
CHECK_DEADLOCK FALSE
