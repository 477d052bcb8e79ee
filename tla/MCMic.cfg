SPECIFICATION Spec
CONSTANTS
    MaxSwitches = 2
    None = None
INVARIANTS
    NoLatch
    CarriesOutbound
    OneMicOpen
PROPERTY PressTells
