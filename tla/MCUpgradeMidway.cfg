CONSTANTS
    a1 = a1
    a2 = a2
    Address = {a1, a2}
    Ids = {g1, g2}
    Token = {t1}
    NoAddress = NoAddress
    Total = 1
    I128Max = 1000
    U32Max = 3
    CURRENT_SCHEMA_VERSION = 3
    LastRelease = 4
    MemberLists <- MCMemberLists
    BatchLimits = {1}
SPECIFICATION Spec
INVARIANTS
    DoneMeansMigrated
CHECK_DEADLOCK FALSE
