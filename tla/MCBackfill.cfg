CONSTANTS
    Groups = {g1}
    PageLimit = 1
    MaxEvents = 3
    MaxLedger = 2
SPECIFICATION IndexerSpec
INVARIANTS
    BackfillReplaysRange
CHECK_DEADLOCK FALSE
