\* Two threads, both of which can sleep while the main thread calls; one task that
\* returns and one that does not.
CONSTANTS
    PoolSize = 2
    Tasks = {t1, t2}
    Endless = {t2}
SPECIFICATION FairSpec
INVARIANTS TypeOK Fifo RoamingPlaced DestroyedUnused
PROPERTIES PoolSpec LifeSpec StopWindsDown OnlyWindowStrands QueuesDrain NextCallRescues OneAwakeEndsAll
CHECK_DEADLOCK FALSE
