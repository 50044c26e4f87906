\* From a stable version, with a prerelease and a stable one after it.
CONSTANTS
    None = None
    Versions <- MCVersions
    Prereleases <- MCPrereleases
    First = 1
SPECIFICATION Spec
INVARIANTS
    InstallerIsWhole
    OfferFollowsTrack
