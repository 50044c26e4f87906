\* Two operations at a time on two profiles, three in all.
CONSTANTS
    None = None
    Ids <- MCIds
    Versions <- MCTwoVersions
    Usable <- MCOneUsable
    Said <- MCSaidOn
    Slots <- MCSlots
    MaxBegun = 3
SPECIFICATION FairSpec
CHECK_DEADLOCK FALSE
INVARIANTS
    RowHasFile
    OneAtATime
PROPERTIES
    IsABook
    OperationsEnd
