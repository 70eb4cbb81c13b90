SPECIFICATION Spec
CONSTANTS
    Externals <- Connectors
    Monitors <- Screens
    KernelName <- NamesInSysfs
    ProfileCatalogue <- Catalogue
    Saved <- Desks
    Installed <- DesksAndGuest
    Identified <- PanelAndFirst
    Preferring <- PanelAndFirst
    MaxChanges = 2
    MaxSamples = 1
INVARIANTS
    EligibleIsThere
    NotStranded
    ExactIsShown
    NeverGuessed
CHECK_DEADLOCK FALSE
