SPECIFICATION Spec
CONSTANTS
    Service <- OneService
    Ces <- OneCes
    OwnerOf <- OneOwner
    Declarations <- OnePlain
    Labelled <- OneService
    NameLabelled <- OneService
    Exposed = {}
    NginxRelated = {}
    NoDogu = {}
    InitSel <- OneSel
    InitLive <- OneService
    InitDep <- OneReady
    ResyncOn = FALSE
    ConfigMapKept = TRUE
    Budget <- LiveBudget
INVARIANTS
    MaintenancePageServed
CHECK_DEADLOCK FALSE
