\* Links of two vaults and of every epoch offered to both; three vaults of which two
\* are open at once, leaving the list by withdrawal and by settlement in every order.
SPECIFICATION ManySpec
CONSTANTS
    MaxTime = 3
    Accounts = {owner, heir}
    Refused = {self}
    Self = self
    NoOne = NoOne
    FEE_RAISE_DELAY = 2
    MAX_CLAIM_FEE_BPS = 0
    InitialFeeBps = 0
    InitialFeeRecipient = NoOne
    FeeInputs = {}
    FeeRecipients = {}
    Contracts = {}
    Tokens = {native}
    NATIVE = native
    FlakyTokens = {}
    PUSH_GRACE = 2
    Deposits = {1}
    Gifts = {}
    MaxHeld = 2
    Owners = {owner}
    Heirs = {heir}
    Recipients = {}
    MaxVaults = 2
    MIN_INACTIVITY = 1
    MAX_INACTIVITY = 1
    MIN_CHALLENGE = 1
    MAX_CHALLENGE = 1
    MAX_HORIZON = 2
    MAX_OPEN_VAULTS = 2
    MAX_BATCH = 2
    MAX_HB_COUNT = 1
    MaxEpoch = 2
    NoValue = NoValue
    BPS_DENOMINATOR = 4
    MaxListed = 3
    MaxListedOpen = 2
INVARIANTS
    DeadlineFollows
    OpenListStaysExact
PROPERTIES
    NoLinkWorksTwice
    NamedEpochInstallsLiveChain
