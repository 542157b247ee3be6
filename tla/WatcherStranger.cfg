SPECIFICATION Spec
CONSTANTS
    Persons = {p1, p2}
    Nobody = Nobody
    MinPeriod = 1
    MaxPeriod = 1
    MinWindow = 1
    MaxWindow = 1
    MaxHorizon = 2
    MaxTime = 5
    ReminderTiers = {}
    VetoTiers = {}
    HorizonWarn = 0
    RepeatBucket = 100
    HeirOnFile = p1
    LOG_PAGE = 2
    MAX_PAGES_PER_RUN = 1
    MAX_ATTEMPTS = 2
    Followed = {"claim", "terminal", "heir-terminal"}
    Fresh = FALSE
    LaggingLogs = FALSE
    MaxFaults = 0
CHECK_DEADLOCK FALSE
INVARIANTS
    StrangersHearNothing
