SPECIFICATION FairSpec
CONSTANTS
    Entries = {e1}
    Exits = {x1}
    Listener = Listener
    Announcers = {a1}
    None = None
    MaxTrouble = 2
INVARIANTS  NothingLost
PROPERTIES OpenTradeNotReentered EventuallyHandled SettingsConverge
CHECK_DEADLOCK FALSE
