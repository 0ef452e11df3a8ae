SPECIFICATION SizingSpec
CONSTANTS
    None = None
    MaxPrice = 7
    Spread = 1
    StopsLevel = 1
    VolumeMin = 2
    VolumeMax = 8
    VolumeStep = 2
    FixedLot = 1
    DriftRPercent = 50
    DriftPercent = 40
    Quantities = {3, 9}
    RiskCash = {9, 14}
    MarginRates = {50, 100}
    FreeMargins = {1, 4}
INVARIANTS   RiskIsBounded
CHECK_DEADLOCK FALSE
