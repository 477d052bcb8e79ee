SPECIFICATION FairSpec
CONSTANTS
    Procs = {p1, p2}
    Devices = {d1, d2}
    CaptureEnabled = TRUE
    RestartDelayMs = 1
    RestartDelayMaxMs = 4
    None = None
INVARIANTS
    SingleCapture
    Supervised
    StaleDeviceIsDying
    RunningIsTruthful
    StopReleasesCard
PROPERTIES
    StopCompletes
    SwitchTakesEffect
    ServiceSpec
CHECK_DEADLOCK FALSE
