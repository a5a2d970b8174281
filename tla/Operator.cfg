CONSTANTS
    e1 = e1
    e2 = e2
    AnyEnv = AnyEnv
    EnvSeq <- Environments
    Deployments <- SmallDeployments
    MaxGeneration = 2
    MaxUpsets = 1
SPECIFICATION Spec
INVARIANTS
    TypeOK
    NoWorkForDeleted
    SyncedMeansExists
PROPERTIES
    StatusNeverGoesBack
    FlagWins
    BindingFollowsFlag
CHECK_DEADLOCK FALSE
