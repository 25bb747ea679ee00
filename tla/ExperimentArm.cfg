CONSTANTS
    s1 = s1
    s2 = s2
    Symbols = {s1, s2}
    None = None
    Quotes <- MCQuotes
    Order <- OneArm
    Amounts = {5}
    Capital = 20
    OrderLimit = 5
    TotalLimit = 20
    DailyLoss = 3
    AllocPct = 100
    MaxTrades = 2
    Cooldown = 1
    Slip = 1
    FeeDiv = 3
    ExitPolicy = 2
    DayLen = 2
    Hour = 2
    MayStop = FALSE
    MaxTime = 2
SPECIFICATION Spec
CHECK_DEADLOCK FALSE
SYMMETRY Symmetry
INVARIANTS
    Inductive
    BooksBalance
    OpeningIsMidnightEquity
PROPERTIES
    NoBuyAfterLoss
