CONSTANTS
    Prices = {2, 3}
    Amounts = {4}
    Capital = 5
    OrderLimit = 4
    ExposureLimit = 8
    DailyLoss = 1
    CumulativeLoss = 2
    MinPosition = 4
    MaxTrades = 2
    Cooldown = 1
    Period = 1
    Window = 1
    DayLen = 9
    Retries = 2
    MinSpan = 1
    MinCycles = 2
    MaxGap = 1
    AccountCash = 6
    AccountBtc = 1
    MaxTime = 2
    MaxCycles = 4
    LastStart = 0
SPECIFICATION FairSpec
CHECK_DEADLOCK FALSE
PROPERTIES
    RunEnds
