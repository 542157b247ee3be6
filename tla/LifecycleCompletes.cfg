SPECIFICATION FairSpec
CONSTANTS
    Persons = {"owner", "heir", "keeper", "payout", "cold", "wrong", "treasury"}
    Nobody = "nobody"
    MinPeriod = 15
    MaxPeriod = 15
    MinWindow = 15
    MaxWindow = 15
    MaxHorizon = 200
    Horizon = 200
    PushGrace = 20
    Eth = 20
    EthTopUp = 10
    Usdc = 5
    Scale = 10
    MaxFaults = 1
    MaxDelays = 1
    LateBy = 3
    MayAccept = {"finalize-A"}
PROPERTIES
    Completes
CHECK_DEADLOCK FALSE
