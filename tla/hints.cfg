SPECIFICATION FairSpec
CONSTANTS
    MaxLoads = 2
    MaxCrashes = 1
PROPERTIES
    ManualLoadIsSeen
    WakeIsSeen
