CONSTANTS
    a1 = a1
    a2 = a2
    Address = {a1, a2}
    Self = Self
    Ids = {g1}
    Token = {t1}
    NoAddress = NoAddress
    Total = 2
    I128Max = 1000
    U32Max = 3
    U64Max = 7
    CURRENT_SCHEMA_VERSION = 3
    LastRelease = 3
    MemberLists <- MCMemberLists
    BatchLimits = {1}
    Amounts = {1}
    Supply = 2
    MAX_CATCHUP = 2
    Intervals = {0, 1, 2}
    RunCounts = {0, 1, 3}
    MaxTime = 4
    Groups = {g1}
    PageLimit = 2
    MaxEvents = 3
    MaxLedger = 2
SPECIFICATION WorkersSpec
CONSTRAINT NoHandover
INVARIANTS
    PaymentsRecordedOnce
    RowsFresh
PROPERTIES
    OneRunPerInterval
    InactiveForGood
    RunsArePaid
    CatchesUp
    NeverRewinds
CHECK_DEADLOCK FALSE
