\* Every part of the page, each at the size the module gives it.
SPECIFICATION SiteSpec
CONSTANTS
    Parts = {"pageTx", "txLine", "desk", "longDesk", "heirDesk", "checkIns", "heirs", "form", "connection", "search", "payout", "words", "promise", "entry"}
    Absent = Absent
    Reviews = {r1, r2}
    Cards = {c1, c2}
    MaxSends = 2
    MaxPlans = 4
    MaxCredit = 3
    MaxPanels = 4
    MaxPayouts = 2
    MaxOutflows = 2
    Persons = {heir, other}
    OnePerson = {heir}
    Me = heir
    Owner = owner
    SiteAddresses = {owner, heir, twin, mirror}
    Alike = {{heir, twin}, {owner, mirror}}
    Chains = {base, fake, later, elsewhere}
    Deployed = {base, fake}
    Known = {base, fake, later}
    Genuine = {base}
    Limits = {1, 3}
    Skews = {3}
    Years = {0, 1, 2, 3}
    Tokens = {usdc, unlisted}
    Tabled = {usdc}
    Special = {entryPoint}
    RetiredVaults = {v1}
    MaxDraws = 3
    MaxHeirVaults = 2
    Sources <- SomeSources
    SpanOf <- SomeSpans
    DeskSize <- SomeDeskSize
    LongDeskSize <- SomeLongDeskSize
    HeirSize <- SomeHeirSize
    CheckInSize <- SomeCheckInSize
    SearchSize <- SomeSearchSize
    PromiseSize <- SomePromiseSize
INVARIANTS
    NothingSignedTwice
    PageKeepsItsWord
PROPERTIES
    SignedAsReviewed
    ReportsStand
    SwitchPromises
CHECK_DEADLOCK FALSE
