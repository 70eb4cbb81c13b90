SPECIFICATION FairSpec
CONSTANTS
    MaxCrashes = 1
    MaxReads = 2
INVARIANT
    RevokedIsGone
PROPERTIES
    DiscardsOnlyRevoked
    ReadIsPublished
    DiscardIsFinal
CHECK_DEADLOCK FALSE
