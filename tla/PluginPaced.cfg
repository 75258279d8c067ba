SPECIFICATION Spec
SYMMETRY FullSymmetry
CONSTANTS
    d1 = d1
    d2 = d2
    Devices = {d1, d2}
    Paths = {p1, p2}
    NoPath = NoPath
    NumServers = 2
    PoolDevices <- MCPoolDevices
    TopologyAware = {2}
    Peers <- MCPeers
    ChanCap = 3
    Paced = TRUE
    TimelyStart = TRUE
    MetricsEnabled = TRUE
    RuntimeMayFail = FALSE
    ApiMayFail = FALSE
    ConfigMayFail = FALSE
    MaxRestarts = 0
    MaxFailures = 0
    MaxTimeouts = 0
INVARIANTS Exclusive HiddenForAReason NoLostUpdate ReservedIsUnclaimed
CHECK_DEADLOCK FALSE
