\* Two profiles, intervals of one and three units.
CONSTANTS
    Absent = Absent
    RemoteProfiles <- MCProfiles
    Intervals <- MCIntervals
    Runs <- MCRuns
SPECIFICATION FairTimerSpec
INVARIANTS
    DueIsScheduled
PROPERTIES
    DueIsUpdated
