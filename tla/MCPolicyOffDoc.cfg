SPECIFICATION Spec
CONSTANTS
    Manager <- Three
    Service <- Services
    Key <- Keys
    KeyOf <- OwnKey
    Entry <- Entries
    PortOf <- PortNumber
    Declarations <- OwnPorts
    CidrOf <- Cidrs
    Enabled <- Two
    CanDelete = FALSE
    Overlap = TRUE
    Attempts = 2
    InitPolicy <- Kept
    Budget <- OffBudget
INVARIANT DisabledMeansGone
CHECK_DEADLOCK FALSE
