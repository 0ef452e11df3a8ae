SPECIFICATION FairSpec
CONSTANTS
    Rows = {r1, r2}
    NoRow = NoRow
    MaxVersion = 2
    MaxClock = 1
    MaxCrashes = 1
    MaxFaults = 1
INVARIANTS PublishedReachesBroker UpdatedAfterCreated
PROPERTIES BrokerNeverGoesBack EventuallyPublished
CHECK_DEADLOCK FALSE
