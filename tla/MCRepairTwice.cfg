SPECIFICATION ReconcileSpec
CONSTANTS
  Group = {g1, g2}
  Writer = {worker}
  PageSize = 1
  MaxRevision = 1
  Stamp = {1, 2, 3}
  ListId = {1, 2, 3, 4, 5}
INVARIANT RepairIsIdempotent
CHECK_DEADLOCK FALSE
