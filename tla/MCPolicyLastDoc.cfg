SPECIFICATION Spec
CONSTANTS
    Manager <- Three
    Service <- Services
    Key <- Keys
    KeyOf <- OwnKey
    Entry <- Entries
    PortOf <- PortNumber
    Declarations <- OwnPorts
    CidrOf <- Cidrs
    Enabled <- Two
    CanDelete = FALSE
    Overlap = FALSE
    Attempts = 2
    InitPolicy <- None
    Budget <- DocBudget
INVARIANT RemovedPortsClosed
CHECK_DEADLOCK FALSE
