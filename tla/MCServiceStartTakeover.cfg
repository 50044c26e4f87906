\* Another user takes the service over.
CONSTANTS
    None = None
    Builds <- MCBuilds
    OffReasons <- MCOffReasons
    Bases <- MCBases
    ForeignBases <- MCForeignBases
    MaxStrikes = 2
    MaxRechecks = 1
    Base = "ours"
    AutoConnect = FALSE
    Budgets <- TakeoverBudget
SPECIFICATION FairSpec
CHECK_DEADLOCK FALSE
PROPERTY TakeoverIsNoCrash
