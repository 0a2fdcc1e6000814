SPECIFICATION LiveSpec
CONSTANTS
    Manager <- Three
    Service <- Services
    Key <- Keys
    KeyOf <- OwnKey
    Entry <- Entries
    PortOf <- PortNumber
    Declarations <- SomeShared
    CidrOf <- Cidrs
    Enabled <- Two
    CanDelete = TRUE
    Overlap = TRUE
    Attempts = 2
    InitPolicy <- None
    Budget <- RollBudget
INVARIANTS
    TypeOK
    NoLostUpdate
    ExposedPortsOpen
    NoLeftover
    NoOrphanPort
    CidrApplied
PROPERTIES
    BookKept
    Converges
CHECK_DEADLOCK FALSE
