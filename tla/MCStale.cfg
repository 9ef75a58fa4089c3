CONSTANTS
    a1 = a1
    Address = {a1}
    Ids = {g1, g2}
    Token = {t1}
    NoAddress = NoAddress
    Total = 1
    I128Max = 1000
    U32Max = 2
    CURRENT_SCHEMA_VERSION = 3
    LastRelease = 5
    MemberLists <- MCMemberLists
    BatchLimits = {0, 1, 2}
    Editor = {e1, e2}
    MaxMissed = 3
    Wallet = {w1}
    Challenge = {c1}
    Request = {r1, r2}
    MaxSessions = 3
    None = None
SPECIFICATION StaleSpec
INVARIANTS
    VersionCountsWrites
    IndexesAgree
    MigrationSound
    ChallengeLogsInOnce
    OneLiveToken
PROPERTIES
    LostUpdateOnlyOnWrap
    MigrationPreservesGroups
    MigrationCompletes
    EndedForGood
    ImplementsFamilies
    RequestsAnswered
CHECK_DEADLOCK FALSE
