SPECIFICATION Spec
CONSTANTS
    None = None
    Profiles = {"dock", "laptop"}
    InternalProfiles = {"laptop"}
    Keys = {"dock_wrong", "dock_exact"}
    Evidence <- MCEvidence
    Tokens = {"docked", "alone"}
    Configs = {"c1"}
    AggressiveBudget = 1
    FastDelays = 1
    SlowDelays = 1
    PreparationStability = 1
    ProfileStability = 2
    EventQuiet = 2
    UnknownStability = 0
    UnplugStability = 2
    UnplugSamples = 2
    Steps = {1}
    Power = {FALSE}
    WorkerOutcomes = {"COMPLETED"}
    MaxGen = 0
    MaxSeq = 4
    MaxEpoch = 1
INVARIANT
    RestartIsGranted
