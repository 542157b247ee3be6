\* One vault in the native coin through its whole life; a fee raise with nobody to take the fee, and a chain of one link.
SPECIFICATION Spec
CONSTANTS
    MaxTime = 4
    Accounts = {owner, heir, other}
    Refused = {self}
    Self = self
    NoOne = NoOne
    FEE_RAISE_DELAY = 3
    MAX_CLAIM_FEE_BPS = 1
    InitialFeeBps = 0
    InitialFeeRecipient = NoOne
    FeeInputs = {1}
    FeeRecipients = {}
    Contracts = {}
    Tokens = {native}
    NATIVE = native
    FlakyTokens = {}
    PUSH_GRACE = 2
    Deposits = {1}
    Gifts = {1}
    MaxHeld = 2
    Owners = {owner}
    Heirs = {heir, other}
    Recipients = {heir}
    MaxVaults = 1
    MIN_INACTIVITY = 1
    MAX_INACTIVITY = 2
    MIN_CHALLENGE = 1
    MAX_CHALLENGE = 2
    MAX_HORIZON = 3
    MAX_OPEN_VAULTS = 1
    MAX_BATCH = 1
    MAX_HB_COUNT = 1
    MaxEpoch = 1
    NoValue = NoValue
    BPS_DENOMINATOR = 4
    WatchedOwner = owner
    WatchedId = 0
INVARIANTS
    TypeOK
    DeadlineWithinReach
    PendingStaysExpired
    ClaimFieldsMatchState
PROPERTIES
    PendingClaimIsFrozen
    DisplacedClaimCoolsDown
    VaultIsASwitch
