SPECIFICATION LimiterSpec
CONSTANTS
    Addresses = {a1, a2}
    windowMs = 3
    maxAttempts = 2
    SecondMs = 2
    MaxNow = 8
    NoEntry = NoEntry
INVARIANTS
    SlidingQuota
    RetryHonest
CHECK_DEADLOCK FALSE
