\* What must come to pass, under the fairness each part's code justifies.
SPECIFICATION ProgressSpec
CONSTANTS
    MaxTime = 7
    Accounts = {owner, heir}
    Refused = {self}
    Self = self
    NoOne = NoOne
    FEE_RAISE_DELAY = 2
    MAX_CLAIM_FEE_BPS = 0
    InitialFeeBps = 0
    InitialFeeRecipient = NoOne
    FeeInputs = {}
    FeeRecipients = {}
    Contracts = {}
    Tokens = {native}
    NATIVE = native
    FlakyTokens = {}
    PUSH_GRACE = 1
    Deposits = {1}
    Gifts = {}
    MaxHeld = 2
    Owners = {owner}
    Heirs = {heir}
    Recipients = {heir}
    MaxVaults = 1
    MIN_INACTIVITY = 1
    MAX_INACTIVITY = 2
    MIN_CHALLENGE = 1
    MAX_CHALLENGE = 1
    MAX_HORIZON = 3
    MAX_OPEN_VAULTS = 1
    MAX_BATCH = 1
    MAX_HB_COUNT = 1
    MaxEpoch = 1
    NoValue = NoValue
    BPS_DENOMINATOR = 4
    LastDeliberate = 2
    LastCancel = 5
    LastCall = 6
    LastRelease = 3
    Parts = {"vault", "lane", "pageTx", "search", "connection"}
    None = None
    Reviews = {r1, r2}
    Chains = {base, fake, later, elsewhere}
    Deployed = {base, fake}
    Known = {base, fake, later}
    Genuine = {base}
    Limits = {2}
PROPERTIES
    HorizonBeatsAutomation
    CreditsDelivered
    PageMovesOn
CHECK_DEADLOCK FALSE
