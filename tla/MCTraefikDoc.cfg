SPECIFICATION Spec
CONSTANTS
    Service <- LbService
    Ces <- TwoCes
    OwnerOf <- TwoOwner
    Declarations <- LbDecl
    Labelled = {"dogu"}
    NameLabelled = {"dogu"}
    Exposed = {"ces-loadbalancer"}
    NginxRelated = {}
    NoDogu = {}
    InitSel <- LbSel
    InitLive <- LbService
    InitDep <- LbBare
    ResyncOn = FALSE
    ConfigMapKept = FALSE
    Budget <- ToggleBudget
INVARIANTS
    SelectorsRestored
CHECK_DEADLOCK FALSE
