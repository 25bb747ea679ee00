CONSTANTS
    Prices = {2, 3}
    Amounts = {3}
    Capital = 10
    OrderLimit = 4
    ExposureLimit = 8
    DailyLoss = 1
    CumulativeLoss = 2
    MinPosition = 4
    MaxTrades = 2
    Cooldown = 1
    Period = 1
    Window = 3
    DayLen = 3
    Retries = 2
    MinSpan = 1
    MinCycles = 2
    MaxGap = 1
    AccountCash = 11
    AccountBtc = 1
    MaxTime = 4
    MaxCycles = 3
    LastStart = 1
SPECIFICATION Spec
CHECK_DEADLOCK FALSE
INVARIANTS
    ExecutionsSpaced
PROPERTIES
    NoBuyAfterLoss
    VerdictStands
