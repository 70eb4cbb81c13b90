SPECIFICATION FairSpec
CONSTANTS
    None = None
    Profiles = {"dock", "laptop"}
    InternalProfiles = {"laptop"}
    Keys = {"dock_exact", "dock_wrong", "laptop_exact"}
    Evidence <- MCEvidence
    Tokens = {"docked", "alone"}
    Configs = {"c1"}
    AggressiveBudget = 1
    FastDelays = 1
    SlowDelays = 1
    PreparationStability = 1
    ProfileStability = 2
    EventQuiet = 2
    UnknownStability = 0
    UnplugStability = 0
    UnplugSamples = 2
    Steps = {1}
    Power = {FALSE}
    WorkerOutcomes = {None, "COMPLETED", "TIMED_OUT"}
    MaxGen = 0
    MaxSeq = 3
    MaxEpoch = 2
INVARIANT
    TypeOK
PROPERTIES
    SettlesWhenCalm
    StopsAreResolved
