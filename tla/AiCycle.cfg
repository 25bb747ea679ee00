CONSTANTS
    s1 = s1
    s2 = s2
    Symbols = {s1, s2}
    None = None
    Roster <- BothSymbols
    Quotes <- MCQuotes
    Amounts = {6}
    Capital = 20
    OrderLimit = 12
    TotalLimit = 16
    DailyLoss = 5
    AllocPct = 60
    MaxTrades = 1
    Cooldown = 1
    Slip = 1
    FeeDiv = 8
    ExitPolicy = 2
    DayLen = 2
    MaxAge = 1
    Drift = 1
    Pause = 1
    HalfHour = 2
    Single = 1
    Paired = 2
    MaxTime = 2
SPECIFICATION Spec
CHECK_DEADLOCK FALSE
INVARIANTS
    Inductive
    FreshTrades
    ShadowSpaced
    BudgetCovers
