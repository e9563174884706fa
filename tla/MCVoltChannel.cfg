SPECIFICATION FairSpec
CONSTANTS
    Amount = {2}
    SpliceIn = {1}
    SpliceOut = {0, 2}
    Push = {0}
    Capacity = 3
    Expiry = {2}
    DustLimit = 2
    CloseFee = 1
    PenaltyFee = 1
    HtlcFee = 1
    ChainDepth = 3
    NoTx = NoTx
    MaxHtlcs = 1
    MaxSplices = 1
    MaxCloses = 1
    MaxFundingHeight = 1
    MaxHeight = 4
INVARIANTS
    FundsCovered
    PaysOutFunding
    RevokedIsSuperseded
    RecordedIsCurrent
PROPERTY CloseSettles
CHECK_DEADLOCK FALSE
