\* The chain of starts under one connect, a switched setting, a stop and a crash.
CONSTANTS
    None = None
    Builds <- MCBuilds
    OffReasons <- MCOffReasons
    Bases <- MCBases
    ForeignBases <- MCForeignBases
    MaxStrikes = 2
    MaxRechecks = 1
    Base = "ours"
    AutoConnect = FALSE
    Budgets <- MCBudgets
SPECIFICATION FairSpec
CHECK_DEADLOCK FALSE
INVARIANTS
    ReloadsMerge
    RepairIsQueued
PROPERTIES
    IsAGuard
    RepairHappens
    ForgivenOnlyWhileRunning
    LostIsGoneOrTaken
