\* The programs beside the page and the watcher, each at the size the module gives it.
SPECIFICATION OperationsSpec
CONSTANTS
    Parts = {"runner", "admin", "deploy", "launch", "keeper", "reader", "setup", "scripts", "tests"}
    ColdWallets = {"cold", "typo", "hot"}
    SigningWallets = {"cold", "hot"}
    AdminContracts = {"vault", "sub"}
    Handovers = {"h1", "h2"}
    HandoverRuns = 3
    DeployRuns = {"r1", "r2"}
    Settings <- SomeSettings
    RecordPaths = {"base.json"}
    CreationAddresses <- SomeAddresses
    GiftedAddresses = {"at1"}
    SystemAddresses = {"entrypoint"}
    Seeds = {"seed"}
    ChainVaults = {"a", "b"}
    ChainLength = 2
    ChainInstalls = 2
    ChainEpochs = 2
    SetupVaults = {"v1", "v2"}
    SetupRuns = 2
    TestScenarios = 2
    PageFunctions = {"checkIn", "withdraw"}
    TestLog = 2
INVARIANTS
    RunsResume
    KeysStayInHand
    ProgramsKeepTheirWord
PROPERTIES
    NothingIsUndone
CHECK_DEADLOCK FALSE
