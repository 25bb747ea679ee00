CONSTANTS
    Ids = {o1, o2}
    None = None
    IPs = {a1}
    Allowed = {}
    Prices = {2, 3}
    Quantities = {1}
    Capital = 7
    OrderLimit = 4
    ExposureLimit = 6
    DailyLoss = 1
    CumulativeLoss = 2
    MaxTrades = 1
    Cooldown = 2
    Ttl = 1
    SlotLen = 1
    DayLen = 3
    AccountCash = 7
    AccountBtc = 0
    MaxTime = 3
    MaxExternal = 0
SPECIFICATION Spec
SYMMETRY Symmetry
CHECK_DEADLOCK FALSE
INVARIANTS
    Inductive
    NoOrphanOrder
    Books
    ProposalMatchesMode
    OneEvaluationPerSlot
    DailyTradeLimit
    Spaced
PROPERTIES
    StopHaltsPosting
    NoBuyAfterLoss
    ResumeOnlyWhenSettled
