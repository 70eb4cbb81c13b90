SPECIFICATION FairSpec
CONSTANT MaxOffers = 2
INVARIANTS
    WorksOnce
    ReleasedIsQuiet
    RestartableOtherwise
PROPERTIES
    ImplementsWorkerUnit
    StartedIsReported
    StopIsResolved
CHECK_DEADLOCK FALSE
