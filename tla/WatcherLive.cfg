SPECIFICATION WatcherFairSpec
CONSTANTS
    Pods = {1}
    Names <- MCNames
    NameOf <- MCNameOf
    Devices <- MCDevices
    DeviceOf <- MCDeviceOf
    NoPod = NoPod
    SameName = FALSE
    SameDevice = FALSE
    NeverRestart = {1}
    MaxAttemptBeforeIgnore = 2
    ReservationMode = FALSE
    GetMayFail = FALSE
    BootGap = FALSE
    WatchMayBreak = FALSE
    MaxFaults = 2
    MaxRestarts = 1
PROPERTIES RunningIsClaimed ClaimedIsFreed
CHECK_DEADLOCK FALSE
