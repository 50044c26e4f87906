\* A start after a refresh, where the key's host no longer answers.
CONSTANTS
    None = None
    Contents <- MCContents
    Settings <- MCSettings
    HostNames <- MCHostNames
    KeyServers <- MCKeyServers
    LeftDns <- MCLeftDns
    Networks <- MCNetworks
    Blocks <- MCBlocks
    RU_SUFFIXES <- MCSuffixes
    GEOSITE <- MCGeosite
    RU_VPN_EXCEPTIONS <- MCExceptions
    Packets <- MCPackets
    Queries <- MCQueries
SPECIFICATION Spec
CHECK_DEADLOCK FALSE
INVARIANTS
    LastKeyIsKept
