SPECIFICATION FairSpec
CONSTANTS
    Conns = {c1, c2}
    Rooms = {r1, r2}
    None = None
INVARIANTS
    TypeOK
    OneStatePerRoom
    RoomIsWhole
    GhostsOnlyWhenCrossed
    NothingLeft
PROPERTY JoinCompletes
CHECK_DEADLOCK FALSE
