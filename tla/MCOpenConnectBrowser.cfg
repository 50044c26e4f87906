\* Two requests, one after the other, in one storage.
CONSTANTS
    None = None
    MaxRequests = 2
    Asks <- MCAsks
    Partitions <- MCPartitions
    Cookies <- MCCookies
    NameOf <- MCNameOf
    AtOther <- MCAtOther
    Values <- MCValues
    Windows <- MCWindows
    Root = "root"
    Slots <- MCSlots
    MaxPending = 2
SPECIFICATION Spec
CHECK_DEADLOCK FALSE
INVARIANTS
    StaleCandidateIsCorrected
    FinalPageIsPursued
    LeftoversAreFromOpening
    HeadersReachTheRequest
PROPERTIES
    CompletesOnFinalPage
