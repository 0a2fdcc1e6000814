SPECIFICATION Spec
CONSTANTS
    Service <- TwoService
    Ces <- TwoCes
    OwnerOf <- TwoOwner
    Declarations <- TwoDecl
    Labelled <- TwoService
    NameLabelled <- TwoService
    Exposed = {"scm"}
    NginxRelated = {}
    NoDogu = {}
    InitSel <- TwoSel
    InitLive <- TwoService
    InitDep <- TwoDep
    ResyncOn = FALSE
    ConfigMapKept = TRUE
    Budget <- SweepBudget
INVARIANT SelectorsRestored
CHECK_DEADLOCK FALSE
