\* The mails about claims and ends, and both ladders of reminders, with a fault and no second attempt.
SPECIFICATION Spec
CONSTANTS
    Persons = {heir}
    Nobody = Nobody
    MinPeriod = 4
    MaxPeriod = 4
    MinWindow = 3
    MaxWindow = 3
    MaxHorizon = 5
    MaxTime = 8
    ReminderTiers = {2, 3}
    VetoTiers = {1, 2}
    HorizonWarn = 1
    RepeatBucket = 100
    HeirOnFile = heir
    LOG_PAGE = 2
    MAX_PAGES_PER_RUN = 1
    MAX_ATTEMPTS = 1
    Followed = {"reminder", "claim", "claim-tier", "settled-unseen", "terminal", "heir-terminal"}
    Fresh = TRUE
    LaggingLogs = TRUE
    MaxFaults = 1
INVARIANTS
    AlertsAreTrue
PROPERTIES
    NeverStepsBack
CHECK_DEADLOCK FALSE
