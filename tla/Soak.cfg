CONSTANTS
    Prices = {2}
    Amounts = {2}
    Capital = 10
    OrderLimit = 4
    ExposureLimit = 8
    DailyLoss = 1
    CumulativeLoss = 2
    MinPosition = 2
    MaxTrades = 2
    Cooldown = 1
    Period = 1
    Window = 2
    DayLen = 9
    Retries = 2
    MinSpan = 1
    MinCycles = 2
    MaxGap = 1
    AccountCash = 11
    AccountBtc = 1
    MaxTime = 5
    MaxCycles = 2
    LastStart = 2
SPECIFICATION ReportSpec
CHECK_DEADLOCK FALSE
INVARIANTS
    Inductive
    SentOnce
PROPERTIES
    RepairFindsAllBooked
    OrderOnlyWhenMatched
    ReportIsTrue
