CONSTANTS
    Ids = {o1}
    None = None
    IPs = {a1, a2}
    Allowed = {}
    Prices = {2}
    Quantities = {1}
    Capital = 5
    OrderLimit = 4
    ExposureLimit = 6
    DailyLoss = 1
    CumulativeLoss = 2
    MaxTrades = 2
    Cooldown = 0
    Ttl = 0
    SlotLen = 1
    DayLen = 3
    AccountCash = 6
    AccountBtc = 0
    MaxTime = 0
    MaxExternal = 0
SPECIFICATION Spec
CHECK_DEADLOCK FALSE
PROPERTIES
    LateStopSurvivesResume
