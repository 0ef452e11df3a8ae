SPECIFICATION Spec
CONSTANTS
    Strategies = {s1, s2}
    Nobody = Nobody
    MaxEntries = 2
    MaxSignals = 3
    MaxFaults = 1
    MaxDbErrors = 0
    MaxByHand = 0
    MaxCrashes = 0
INVARIANT ProtectedWhenIdle
CHECK_DEADLOCK FALSE
