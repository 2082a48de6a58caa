CONSTANTS
    PoolSize = 2
    Entries = 1
    Limits <- MCLimits
SPECIFICATION Spec
INVARIANT NothingUsedAfterDestruction
CHECK_DEADLOCK FALSE
