SPECIFICATION FairSpec
CONSTANTS
    DayLength = 3
    LastDay = 1
    Requests = {r1, r2}
    r1 = r1
    r2 = r2
    Regs = {1, 2}
    Rows = {1, 2, 3, 4}
    None = None
    Times <- MCTimes
    Scenarios <- EveryScenario
INVARIANTS
    SummaryMatchesPunches
    SessionsAlternate
    EveryScanOnce
    ViewsAgree
    ApprovedDayIsComplete
PROPERTIES
    EveryScanAcknowledged
CHECK_DEADLOCK FALSE
