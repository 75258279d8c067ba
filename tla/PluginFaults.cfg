SPECIFICATION Spec
SYMMETRY PathSymmetry
CONSTANTS
    d1 = d1
    d2 = d2
    Devices = {d1}
    Paths = {p1, p2}
    NoPath = NoPath
    NumServers = 2
    PoolDevices <- MCPoolDevices
    TopologyAware = {}
    Peers <- MCPeers
    ChanCap = 1
    Paced = FALSE
    TimelyStart = FALSE
    MetricsEnabled = TRUE
    RuntimeMayFail = TRUE
    ApiMayFail = TRUE
    ConfigMayFail = TRUE
    MaxRestarts = 2
    MaxFailures = 1
    MaxTimeouts = 1
CONSTRAINT FaultBudget
INVARIANTS TypeOK RecordedIsHidden NoZombieRecord
CHECK_DEADLOCK FALSE
