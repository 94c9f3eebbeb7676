\* Four threads, two statements each, on two connections of which one is kept.
CONSTANTS
    Thread = {t1, t2, t3, t4}
    MinConnections = 1
    MaxConnections = 2
    MaxQueries = 2
SPECIFICATION FairSpec
INVARIANTS OneOwner CountsOpen NoLostSignal
PROPERTIES SemaphoreRefined WaiterServed
CHECK_DEADLOCK FALSE
