SPECIFICATION EcoLiveSpec
CONSTANTS
    Name <- Names
    TlsSecret <- Secrets
    AltEntry <- Entries
    InitSettings <- Old
    Edits <- FewEdits
    InitKey = FALSE
    InitSecret <- Issued
    Uploads = {"missing"}
    Attempts = 2
    ResyncOn = FALSE
    Budget <- EcoBudget
    CertBudget <- EcoCertBudget
INVARIANT
    NoLostUpdate
    CoveredAtRest
PROPERTY
    RedirectsCovered
CHECK_DEADLOCK FALSE
