SPECIFICATION FairSpec
CONSTANTS
    Requests = {q1, q2}
    Devices = {d1, d2}
    Env = d1
    MaxLives = 1
    None = None
    Torn = Torn
INVARIANTS
    CaptureFreed
PROPERTIES
    OutlivesRestart
    ShutdownEnds
CHECK_DEADLOCK FALSE
