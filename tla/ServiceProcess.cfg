CONSTANTS
    Conns = {c1, c2, c3}
    MaxWorkers = 2
    NoConn = NoConn
    MaxAwards = 1
SPECIFICATION FairSpec
INVARIANTS
    PermitsConserved
    DrainedBeforeClose
    NeverSleepsThroughStop
PROPERTIES
    StopEnds
    EveryoneHears
    KeepsTrying
CHECK_DEADLOCK FALSE
