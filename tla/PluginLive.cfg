SPECIFICATION FairSpec
CONSTANTS
    d1 = d1
    d2 = d2
    Devices = {d1}
    Paths = {p1,p2}
    NoPath = NoPath
    NumServers = 2
    PoolDevices <- MCPoolDevices
    TopologyAware = {}
    Peers <- MCPeers
    ChanCap = 3
    Paced = TRUE
    TimelyStart = TRUE
    MetricsEnabled = TRUE
    RuntimeMayFail = FALSE
    ApiMayFail = FALSE
    ConfigMayFail = FALSE
    MaxRestarts = 0
    MaxFailures = 0
    MaxTimeouts = 0
PROPERTIES EndedIsReleased NotifyCompletes
CHECK_DEADLOCK FALSE
