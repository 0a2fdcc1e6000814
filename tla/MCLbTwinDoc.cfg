SPECIFICATION LiveSpec
CONSTANTS
    Service <- OneService
    Entry <- Twins
    Info <- TwinPorts
    Declarations <- TwinDecls
    InitDecl <- TwinInit
    AnnKey <- Keys
    Configs <- OneConfig
    InitConfig <- FirstConfig
    Foreign = {"cloud"}
    ResyncOn = TRUE
    Budget <- TwinBudget
PROPERTY Converges
CHECK_DEADLOCK FALSE
