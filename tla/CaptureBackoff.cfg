SPECIFICATION HistorySpec
CONSTANTS
    Procs = {p1, p2}
    Devices = {d1, d2}
    CaptureEnabled = TRUE
    RestartDelayMs = 1
    RestartDelayMaxMs = 4
    None = None
PROPERTY BackoffGrows
CHECK_DEADLOCK FALSE
