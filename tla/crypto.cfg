SPECIFICATION Spec
CONSTANTS
    Strategies = {s1, s2}
    Nobody = Nobody
    MaxEntries = 2
    MaxSignals = 4
    MaxFaults = 1
    MaxDbErrors = 2
    MaxByHand = 1
    MaxCrashes = 1
INVARIANTS NakedIsReported ClosedByListenerIsGone 
 
CHECK_DEADLOCK FALSE
