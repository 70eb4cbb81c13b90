SPECIFICATION Spec
CONSTANTS
    None = None
    Profiles = {"dock", "laptop"}
    InternalProfiles = {"laptop"}
    Keys = {"dock_exact", "laptop_wrong", "laptop_exact", "dock_torn",
            "laptop_torn", "dock_unknown", "dock_broken", "dock_blind"}
    Evidence <- MCEvidence
    Tokens = {"docked", "alone"}
    Configs = {"c1"}
    AggressiveBudget = 1
    FastDelays = 1
    SlowDelays = 1
    PreparationStability = 1
    ProfileStability = 2
    EventQuiet = 2
    UnknownStability = 0
    UnplugStability = 2
    UnplugSamples = 2
    Steps = {1}
    Power = {TRUE, FALSE}
    WorkerOutcomes = {"COMPLETED"}
    MaxGen = 0
    MaxSeq = 3
    MaxEpoch = 2
INVARIANT
    ReducerIsTotalOtherwise
PROPERTY
    FinalizedByWorker
