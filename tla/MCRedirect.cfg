SPECIFICATION LiveSpec
CONSTANTS
    Name <- Names
    TlsSecret <- Secrets
    AltEntry <- Entries
    InitSettings <- Both
    Edits <- FewEdits
    ResyncOn = TRUE
    Budget <- RedirectBudget
INVARIANTS
    TypeOK
    NoLostUpdate
PROPERTIES
    Converges
    Settles
CHECK_DEADLOCK FALSE
