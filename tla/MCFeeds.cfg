SPECIFICATION FairSpec
CONSTANTS
    Starts = {k1, k2, k3}
    None = None
INVARIANTS
    ListeningIsHeard
    OffIsOff
    ReceivedOnce
PROPERTY WantedPlays
