SPECIFICATION FairSpec
CONSTANTS
    Users = {admin, guest}
    BootUser = admin
    Rooms = {r1}
    Browsers = {b1}
    Calls = {k1}
    MaxTries = 2
    None = None
PROPERTIES
    AdmittedRightly
    ComesUp
CHECK_DEADLOCK FALSE
