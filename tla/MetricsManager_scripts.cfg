\* One free thread and, once the AI has given up, the AI's; two loops over one script.
CONSTANTS
    PoolSize = 3
    Providers = 0
    Scripts = 1
    CounterRange = 4
    Cycles = 2
    MaxPersists = 2
SPECIFICATION FairSpec
INVARIANT RowIntact
PROPERTIES StopEndsLoop TasksReturn
CHECK_DEADLOCK FALSE
