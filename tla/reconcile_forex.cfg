SPECIFICATION FairSpec
CONSTANTS
    Pos = {t1, g1}
    WorkerPos = {t1, g1}
    GridPos = {g1}
    Strategies = {"trend", "grid"}
    SymbolOf <- GoldSymbol
    StrategyOf <- MagicOwner
    SlotOf <- Slot
    LiveKeys <- forex_live_keys
    DbKeys <- forex_db_keys
    LiveId <- forex_live_id
    EventsByTicket = TRUE
    HasManualHandler = FALSE
    MaxFaults = 0
    MaxRemaps = 1
    MaxOffline = 1
    MaxCrashes = 0
INVARIANT NeverClosesLive
PROPERTY EventuallyReconciled
CHECK_DEADLOCK FALSE
