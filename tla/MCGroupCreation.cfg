SPECIFICATION GroupsSpec
CONSTANTS
  User = {u1, u2}
  Whole = 3
  MaxProfile = 2
  MaxHistory = 3
  MaxTime = 2
  PageLimits = {1, 2}
INVARIANT WellFormedGroupIsCreated
CHECK_DEADLOCK FALSE
