SPECIFICATION UnplugSpec
CONSTANTS
    None = None
    Profiles = {"dock", "laptop"}
    InternalProfiles = {"laptop"}
    Keys = {"dock_exact", "dock_broken", "dock_torn", "dock_unknown", "laptop_exact",
            "laptop_torn"}
    Evidence <- MCEvidence
    Tokens = {"docked", "alone"}
    Configs = {"c1"}
    AggressiveBudget = 1
    FastDelays = 1
    SlowDelays = 1
    PreparationStability = 1
    ProfileStability = 2
    EventQuiet = 2
    UnknownStability = 0
    UnplugStability = 2
    UnplugSamples = 2
    Steps = {1}
    Power = {TRUE, FALSE}
    WorkerOutcomes = {"COMPLETED"}
    MaxGen = 1
    MaxSeq = 3
    MaxEpoch = 2
INVARIANTS
    ReducerIsTotalOtherwise
    NoLostWakeup
PROPERTY
    UnplugIsProven
