\* Nineteen subscriptions, sixteen settings, three networks.
CONSTANTS
    None = None
    Contents <- MCContents
    Settings <- MCSettings
    HostNames <- MCHostNames
    KeyServers <- MCKeyServers
    LeftDns <- MCLeftDns
    Networks <- MCNetworks
    Blocks <- MCBlocks
    RU_SUFFIXES <- MCSuffixes
    GEOSITE <- MCGeosite
    RU_VPN_EXCEPTIONS <- MCExceptions
    Packets <- MCPackets
    Queries <- MCQueries
SPECIFICATION Spec
CHECK_DEADLOCK FALSE
INVARIANTS
    ServersAreReached
    ReferencesResolve
    TrafficGoesAsPromised
    QueriesGoAsPromised
