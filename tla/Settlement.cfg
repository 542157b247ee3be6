\* Claims under a moving fee, heirs who are replaced, cancel and start again.
SPECIFICATION HistorySpec
CONSTANTS
    MaxTime = 4
    Accounts = {owner, heir, other}
    Refused = {self}
    Self = self
    NoOne = NoOne
    FEE_RAISE_DELAY = 1
    MAX_CLAIM_FEE_BPS = 1
    InitialFeeBps = 1
    InitialFeeRecipient = other
    FeeInputs = {0, 1}
    FeeRecipients = {NoOne, other}
    Contracts = {}
    Tokens = {native}
    NATIVE = native
    FlakyTokens = {}
    PUSH_GRACE = 4
    Deposits = {2}
    Gifts = {}
    MaxHeld = 2
    Owners = {owner}
    Heirs = {heir, other}
    Recipients = {heir}
    MaxVaults = 1
    MIN_INACTIVITY = 1
    MAX_INACTIVITY = 1
    MIN_CHALLENGE = 1
    MAX_CHALLENGE = 1
    MAX_HORIZON = 2
    MAX_OPEN_VAULTS = 1
    MAX_BATCH = 1
    MAX_HB_COUNT = 0
    MaxEpoch = 0
    NoValue = NoValue
    BPS_DENOMINATOR = 2
INVARIANTS
    ClaimantIsHeir
PROPERTIES
    SettlementHonoursQuotes
    SettledOnlyAfterSilence
