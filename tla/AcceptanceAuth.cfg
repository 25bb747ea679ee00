CONSTANTS
    r1 = r1
    r2 = r2
    Runs = {r1, r2}
    None = None
    SyncAge = 0
    Backoff = 1
    ShortWait = 1
    Waits = {0, 2}
    LastAttempt = 1
    Prices = {1}
    Spend = 4
    Reserve = 4
    Step = 2
    Fees = {1}
    AccountUsdt = 6
    AccountBtc = 1
    MaxExternal = 1
SPECIFICATION Spec
CHECK_DEADLOCK FALSE
INVARIANTS
    AuthStopIsNamed
