SPECIFICATION FairWatchSpec
CONSTANTS
    Tickets = {p1, p2}
    Magics = {m1}
    MaxAttempts = 1
    MaxWeekends = 1
    MaxMaps = 1
    MaxTrouble = 1
INVARIANT ClosedRowsAreGone
PROPERTIES  EveryCloseRecorded ConnectionComesBack
