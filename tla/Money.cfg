\* One vault and a fee that moves both ways, with cards drawn from answers of several blocks;
\* a wallet and a contract that are paid in two assets.
SPECIFICATION MoneySpec
CONSTANTS
    MaxTime = 4
    PageTime = 3
    Accounts = {wallet, contract}
    Refused = {self}
    Self = self
    NoOne = NoOne
    FEE_RAISE_DELAY = 2
    MAX_CLAIM_FEE_BPS = 2
    InitialFeeBps = 1
    InitialFeeRecipient = wallet
    FeeInputs = {0, 2, 3}
    Ceilings = {1}
    CHALLENGE = 2
    Contracts = {contract}
    Tokens = {native, usd}
    NATIVE = native
    FlakyTokens = {}
    PUSH_GRACE = 2
    Deposits = {2}
    Gifts = {1}
    MaxHeld = 3
INVARIANTS
    LanesBacked
    GraceRunsWhileOwed
    CreditsAddUp
    QuotesAreReal
PROPERTIES
    NoSurpriseRaise
    CutIsFinal
    QuotesAreKept
    NoLeakToSurplus
CHECK_DEADLOCK FALSE
