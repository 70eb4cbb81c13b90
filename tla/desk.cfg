SPECIFICATION Spec
CONSTANTS
    None = None
    Profiles = {"dock", "laptop"}
    InternalProfiles = {"laptop"}
    Keys = {"dock_exact", "dock_wrong"}
    Evidence <- MCEvidence
    Tokens = {"docked", "alone"}
    Configs = {"c1", "c2"}
    AggressiveBudget = 1
    FastDelays = 1
    SlowDelays = 1
    PreparationStability = 1
    ProfileStability = 2
    EventQuiet = 2
    UnknownStability = 0
    UnplugStability = 2
    UnplugSamples = 2
    Steps = {1}
    Power = {FALSE}
    WorkerOutcomes = {"COMPLETED", "CANCELLED", "TIMED_OUT", None}
    MaxGen = 1
    MaxSeq = 3
    MaxEpoch = 1
INVARIANTS
    LiveWorkerExcluded
    OneLiveWorker
    RestartIsGrantedOtherwise
    NoOrphanPlan
    PreparesFromLivePlan
PROPERTY
    ActionIdsAreNew
