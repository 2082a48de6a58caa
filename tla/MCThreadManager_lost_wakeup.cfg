CONSTANTS
    PoolSize = 2
    Tasks = {t1, t2}
    Endless = {}
SPECIFICATION Spec
SYMMETRY TasksSymmetry
INVARIANT WaitsOnlyIfEmpty
CHECK_DEADLOCK FALSE
