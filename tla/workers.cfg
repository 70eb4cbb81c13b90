SPECIFICATION FairSpec
CONSTANTS
    MaxChanges = 1
    MaxPanels = 3
INVARIANTS
    ActsOnFreshSample
    OneLateCommand
    CompletedIsWhole
    StopBeatsCompletion
    ReplacementIsNew
    AppletOnFinalTray
PROPERTY
    WorkerEnds
CHECK_DEADLOCK FALSE
