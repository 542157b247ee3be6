SPECIFICATION FairSpec
CONSTANTS
    Persons = {p1}
    Nobody = Nobody
    MinPeriod = 1
    MaxPeriod = 1
    MinWindow = 1
    MaxWindow = 1
    MaxHorizon = 2
    MaxTime = 4
    ReminderTiers = {}
    VetoTiers = {}
    HorizonWarn = 0
    RepeatBucket = 100
    HeirOnFile = p1
    LOG_PAGE = 2
    MAX_PAGES_PER_RUN = 1
    MAX_ATTEMPTS = 3
    Followed = {"claim", "settled-unseen", "terminal"}
    Fresh = FALSE
    LaggingLogs = FALSE
    MaxFaults = 2
CHECK_DEADLOCK FALSE
PROPERTIES
    OwnersAreTold
