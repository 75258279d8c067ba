SPECIFICATION WatcherSpec
CONSTANTS
    Pods = {1, 2}
    Names <- MCNames
    NameOf <- MCNameOf
    Devices <- MCDevices
    DeviceOf <- MCDeviceOf
    NoPod = NoPod
    SameName = TRUE
    SameDevice = TRUE
    NeverRestart = {1}
    MaxAttemptBeforeIgnore = 1
    ReservationMode = FALSE
    GetMayFail = TRUE
    BootGap = TRUE
    WatchMayBreak = TRUE
    MaxFaults = 1
    MaxRestarts = 1
INVARIANTS EntryNamesOwnDevices
PROPERTIES FreesOnlyEnded
CHECK_DEADLOCK FALSE
