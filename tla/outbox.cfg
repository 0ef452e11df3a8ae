SPECIFICATION FairSpec
CONSTANTS
    MaxMessage = 2
    MaxTarget = 2
    Dispatchers = {d1, d2}
    Idle = Idle
    MaxAttempts = 2
    BatchLimit = 1
    MaxFaults = 1
INVARIANT NoNeedlessCopy
PROPERTIES ImplementsMailbox MailboxSettles
CHECK_DEADLOCK FALSE
