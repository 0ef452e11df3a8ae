SPECIFICATION FairSpec
CONSTANTS
    Pos = {w1, m1}
    WorkerPos = {w1}
    Strategies = {"trend", "MANUAL"}
    SymbolOf <- TheSymbol
    StrategyOf <- Owner
    SlotOf <- TheSymbol
    LiveKeys <- crypto_live_keys
    DbKeys <- crypto_db_keys
    LiveId <- crypto_live_id
    EventsByTicket = FALSE
    HasManualHandler = TRUE
    MaxFaults = 2
    MaxRemaps = 0
    MaxOffline = 0
    MaxCrashes = 1
INVARIANT NeverClosesLive
PROPERTY EventuallyReconciled
CHECK_DEADLOCK FALSE
