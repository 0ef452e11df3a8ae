SPECIFICATION Spec
CONSTANTS
    Strategies = {s1, s2}
    Uxids = {u1, u2}
    Idle = Idle
    All = All
    MaxOrders = 1
    MaxTicket = 2
    MaxMessages = 4
    MaxFaults = 2
SYMMETRY Symmetry
CHECK_DEADLOCK FALSE
INVARIANTS RacesAloneKeepRowsTrue TrackedUnlessLost 
PROPERTIES OwnTicketOnly AdminFlatTellsTruth
