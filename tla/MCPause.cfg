CONSTANTS
    a1 = a1
    a2 = a2
    Address = {a1, a2, a3}
    Ids = {g1}
    Token = {t1}
    NoAddress = NoAddress
    Total = 4
    I128Max = 1000
    U32Max = 3
    CURRENT_SCHEMA_VERSION = 3
    LastRelease = 3
    MemberLists <- MCMemberLists
    BatchLimits = {1}
SPECIFICATION Spec
PROPERTIES
    PauseFreezesMembers
CHECK_DEADLOCK FALSE
