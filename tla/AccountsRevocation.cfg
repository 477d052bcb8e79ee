SPECIFICATION Spec
CONSTANTS
    Users = {admin, guest}
    BootUser = admin
    Rooms = {r1}
    Browsers = {b1}
    Calls = {k1, k2}
    MaxTries = 1
    None = None
PROPERTY RevocationBites
CHECK_DEADLOCK FALSE
