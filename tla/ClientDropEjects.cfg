SPECIFICATION Spec
CONSTANTS
    MaxSetups = 2
    None = None
INVARIANT DropDoesNotEject
CHECK_DEADLOCK FALSE
