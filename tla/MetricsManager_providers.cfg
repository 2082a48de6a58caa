\* Two free threads (2 and 3), so that two tasks of one provider can meet.
CONSTANTS
    PoolSize = 4
    Providers = 1
    Scripts = 0
    CounterRange = 4
    Cycles = 2
    MaxPersists = 2
SPECIFICATION Spec
INVARIANTS TypeOK RowIntact NeverEarly FullLoops OneRowEach
CHECK_DEADLOCK FALSE
