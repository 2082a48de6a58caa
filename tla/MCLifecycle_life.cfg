\* Three threads, and archives of one file each.
CONSTANTS
    PoolSize = 3
    Entries = 1
    Limits <- MCLimits
SPECIFICATION FairSpec
INVARIANTS TypeOK OutlivesPool
PROPERTIES LifeSpec WholeStaysWhole OnlyTheseHang KeepsSucceeding
CHECK_DEADLOCK FALSE
