SPECIFICATION FairSpec
CONSTANTS
    MaxSetups = 2
    None = None
INVARIANTS
    OnlyCurrentAttaches
    OnAirAsShown
    MicOffOutside
    IdleIsClean
PROPERTY JoiningEnds
CHECK_DEADLOCK FALSE
