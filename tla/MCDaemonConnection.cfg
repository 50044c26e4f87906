\* One repair or take-over, one failure of the daemon or the worker.
CONSTANTS
    None = None
    Processes <- MCProcesses
    Callers <- MCCallers
    MaxFaults = 1
    Commands <- MCCommands
    MaxCommands = 1
SPECIFICATION FairSpec
INVARIANTS
    OneWorker
    RetryIsNotLost
    ShownIsOfSession
PROPERTIES
    DaemonIsFound
