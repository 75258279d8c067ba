SPECIFICATION Spec
CONSTANTS
    Reports <- MCReports
    NoReport = "empty"
    Conns = {c1, c2}
    NoConn = NoConn
    MaxReconnectAttempts = 2
    MaxMessages = 2
    MaxOutages = 2
    MaxFaults = 1
    Prompt = TRUE
INVARIANTS ClientTypeOK OneListener NoLeakedConn
PROPERTIES ImplementsChecker LatestReported
CHECK_DEADLOCK FALSE
