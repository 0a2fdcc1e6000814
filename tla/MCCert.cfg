SPECIFICATION LiveSpec
CONSTANTS
    Name <- Names
    TlsSecret <- Secrets
    AltEntry <- Entries
    InitSettings <- OldSettings
    Edits <- FewEdits
    InitKey = TRUE
    InitSecret <- Issued
    Uploads = {"none", "other", "missing"}
    Attempts = 2
    ResyncOn = TRUE
    Budget <- CertBudget
INVARIANTS
    TypeOK
    NoLostUpdate
    CertificateFollows
    OncePerChange
PROPERTIES
    SettingsKept
    Converges
CHECK_DEADLOCK FALSE
