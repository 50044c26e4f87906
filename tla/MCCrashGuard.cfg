\* The crash guard under every order of its callers' calls.
CONSTANTS
    None = None
    Builds <- MCBuilds
    OffReasons <- MCOffReasons
    Bases <- MCBases
    ForeignBases <- MCForeignBases
    MaxStrikes = 2
    MaxRechecks = 1
    MaxArmings = 2
    MaxCrashes = 2
SPECIFICATION FairSpec
INVARIANTS
    TypeOK
    ArmedHasOwnMark
    TimerIsOfThisArming
    NoOrphanArming
    NoStrikeWithoutCrash
    BlockOnlyWhenAdmitted
PROPERTIES
    StrikesForgivenOnlyBySurvival
    RecordBecomesStrike
    ArmingEnds
