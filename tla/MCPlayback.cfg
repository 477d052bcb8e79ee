SPECIFICATION FairSpec
CONSTANTS
    Sockets = {s1, s2}
    MaxStarts = 2
    MaxSwitches = 1
    Devices = {d1, d2}
    Default = d1
    None = None
INVARIANTS
    NoOrphan
    StreamsToDevice
    NothingLeft
    DepartedOffAir
PROPERTIES
    OwnerHandover
    CallsSettle
CHECK_DEADLOCK FALSE
