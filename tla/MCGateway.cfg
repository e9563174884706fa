SPECIFICATION Spec
CONSTANTS
    GapLimit = 2
    FeePerInput = 1
    FeePerOutput = 0
    DustThreshold = 0
    MaxIndex = 5
    Address = {a1, a2}
    c1 = c1
    c2 = c2
    outer = outer
    inner = inner
    Client = {c1, c2}
    Proxies <- MCProxies
    Claims <- MCClaims
    Funds <- MCFunds
    TopUps = {4}
    Amount = 2
    Reserve = 5
    DailyCap = 2
    AddressCooldown = 3
    ClientCooldown = 2
    Day = 1
    MaxTime = 3
    MaxTopUps = 1
    MaxFaults = 1
    Query = {"tip", "block"}
    Ttl <- MCTtl
    CacheMax = 1
    BucketSize = 2
    RefillPerTick = 1
    FaucetCost = 2
    MaxCalls = 2
    MaxTip = 2
    Asker = {c1}
    Asking = {"faucet", "node"}
SYMMETRY MCSymmetry
INVARIANTS
    LimitsKept
    LedgerIsTrue
    AnswersFresh
    BudgetKept
CHECK_DEADLOCK FALSE
