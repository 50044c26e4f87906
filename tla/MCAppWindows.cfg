\* Two editors, a terminal, two trays that come up at a time.
CONSTANTS
    None = None
    Editors <- MCEditors
    Terminals <- MCTerminals
    Trays <- MCTrays
    Shows <- MCShows
SPECIFICATION Spec
INVARIANTS
    AppIsReachable
    TrayFollowsSetting
