CONSTANTS
    a1 = a1
    a2 = a2
    g1 = g1
    Address = {a1, a2}
    Self = Self
    Ids = {g1, g2}
    Token = {t1}
    NoAddress = NoAddress
    Total = 2
    I128Max = 1000
    U32Max = 1
    CURRENT_SCHEMA_VERSION = 3
    LastRelease = 3
    MemberLists <- MCMemberLists
    BatchLimits = {1}
    Amounts = {1, 2}
    Supply = 2
    ESCROW_TTL_THRESHOLD = 2
    ESCROW_TTL_EXTEND_TO = 3
    MinPersistentTtl = 3
SPECIFICATION LifetimeSpec
INVARIANTS
    EscrowBacked
    CreditorsCanClaim
    CreditOutlivesThreshold
CONSTRAINT OneGroupAges
PROPERTIES
    ImplementsLedger
CHECK_DEADLOCK FALSE
