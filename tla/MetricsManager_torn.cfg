\* Two free threads and two loops.
CONSTANTS
    PoolSize = 4
    Providers = 1
    Scripts = 0
    CounterRange = 4
    Cycles = 2
    MaxPersists = 2
SPECIFICATION Spec
INVARIANT CounterOfSample
CHECK_DEADLOCK FALSE
