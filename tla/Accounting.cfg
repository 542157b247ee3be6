\* Two assets, two vaults, a fee and a token that delivers less than was sent.
SPECIFICATION Spec
CONSTANTS
    MaxTime = 3
    Accounts = {owner, heir}
    Refused = {self, weth}
    Self = self
    NoOne = NoOne
    FEE_RAISE_DELAY = 2
    MAX_CLAIM_FEE_BPS = 2
    InitialFeeBps = 2
    InitialFeeRecipient = owner
    FeeInputs = {}
    FeeRecipients = {}
    Contracts = {heir}
    Tokens = {native, usd}
    NATIVE = native
    FlakyTokens = {}
    PUSH_GRACE = 1
    Deposits = {2}
    Gifts = {}
    MaxHeld = 3
    Owners = {owner}
    Heirs = {heir}
    Recipients = {heir, weth}
    MaxVaults = 2
    MIN_INACTIVITY = 1
    MAX_INACTIVITY = 1
    MIN_CHALLENGE = 1
    MAX_CHALLENGE = 1
    MAX_HORIZON = 1
    MAX_OPEN_VAULTS = 2
    MAX_BATCH = 1
    MAX_HB_COUNT = 0
    MaxEpoch = 0
    NoValue = NoValue
    BPS_DENOMINATOR = 4
    WatchedOwner = owner
    WatchedId = 0
INVARIANTS
    LockedAddsUp
    NoStrandedCredit
PROPERTIES
    CustodyImplemented
