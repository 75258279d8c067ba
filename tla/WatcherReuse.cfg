SPECIFICATION WatcherSpec
CONSTANTS
    Pods = {1, 2}
    Names <- MCNames
    NameOf <- MCNameOf
    Devices <- MCDevices
    DeviceOf <- MCDeviceOf
    NoPod = NoPod
    SameName = TRUE
    SameDevice = FALSE
    NeverRestart = {1, 2}
    MaxAttemptBeforeIgnore = 1
    ReservationMode = TRUE
    GetMayFail = FALSE
    BootGap = FALSE
    WatchMayBreak = FALSE
    MaxFaults = 1
    MaxRestarts = 1
INVARIANTS WatcherTypeOK NothingLeftBehind
PROPERTIES NeverHeldTwice RunningKeepsP2PDMA
CHECK_DEADLOCK FALSE
