\* Two sessions, two pushes; two rounds pass the deadline.
CONSTANTS
    Nothing = Nothing
    MaxSessions = 2
    MaxRounds = 2
    MaxPushes = 2
    Configs <- MCConfigs
SPECIFICATION OnboardingSpec
CHECK_DEADLOCK FALSE
INVARIANTS
    ShownIsPolled
PROPERTIES
    PollingEnds
