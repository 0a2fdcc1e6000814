SPECIFICATION LiveSpec
CONSTANTS
    Service <- OneService
    Ces <- OneCes
    OwnerOf <- OneOwner
    Declarations <- OneAny
    Labelled <- OneService
    NameLabelled <- OneService
    Exposed = {}
    NginxRelated = {}
    NoDogu = {}
    InitSel <- OneSel
    InitLive <- OneService
    InitDep <- OneStarting
    ResyncOn = TRUE
    ConfigMapKept = TRUE
    Budget <- LiveBudget
INVARIANTS
    TypeOK
    NoLostUpdate
    RewriteBacked
PROPERTY Converges
CHECK_DEADLOCK FALSE
