SPECIFICATION LiveSpec
CONSTANTS
    Service <- Services
    Entry <- Entries
    Info <- Ports
    Declarations <- Decls
    InitDecl <- InitDecls
    AnnKey <- Keys
    Configs <- ThreeConfigs
    InitConfig <- FirstConfig
    Foreign = {"cloud"}
    ResyncOn = TRUE
    Budget <- DriftBudget
INVARIANTS
    TypeOK
    NoLostUpdate
    RoutesServed
PROPERTIES
    UpdateConserves
    Converges
CHECK_DEADLOCK FALSE
