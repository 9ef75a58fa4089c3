SPECIFICATION AppSpec
CONSTANTS
  a1 = a1
  a2 = a2
  Address = {a1, a2, a3}
  Ids = {i1}
  Token = {t1}
  NoAddress = NoAddress
  Total = 5
  I128Max = 30
  U32Max = 3
  CURRENT_SCHEMA_VERSION = 3
  LastRelease = 3
  MemberLists <- MCMemberLists
  BatchLimits = {1}
  MaxAmount = 11
  MaxDelta = 5
  MaxRows = 3
  MaxEntered = 6
  MaxSample = 9
  Group = {g1, g2}
  Writer = {worker, backfill}
  PageSize = 1
  MaxRevision = 2
  Stamp = {1, 2, 3}
  ListId = {1, 2, 3, 4, 5}
  Caller = {r1, r2}
  Retries = 1
  REQUEST_TIMEOUT = 2
  CACHE_TTL = 2
  Cooldown = 3
  Threshold = 2
  User = {u1, u2}
  Whole = 3
  MaxProfile = 2
  MaxHistory = 3
  MaxTime = 2
  PageLimits = {1, 2}
  MaxVisits = 2
  MaxEntries = 6
  MaxPending = 1
  Run = {s1, s2}
  MaxAccepted = 3
  Account = {w1, w2}
  NoAccount = NoAccount
  Attempt = {c1, c2}
  Refresh = {f1, f2}
CONSTRAINT ReconcileBound
SYMMETRY AppSymmetry
INVARIANTS
  SplitConserves
  SplitFair
  RebalanceExact
  MembersSound
  PreviewMatchesContract
  RebalanceCompletes
  NoGroupSkipped
  RepairedAgrees
  OneMemberList
  AccountAgeBounded
  OneProfilePerAddress
  WalkComplete
  ReviewIsValid
  BackStaysInside
  OncePerReset
  ShownIsSignedIn
  OneRefresh
PROPERTIES
  BreakerHolds
CHECK_DEADLOCK FALSE
