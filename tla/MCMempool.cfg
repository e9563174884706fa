SPECIFICATION Spec
CONSTANTS
    Tx <- MCTx
    Resource <- MCResource
    Base <- MCBase
    Inputs <- MCInputs
    Consumes <- MCConsumes
    Creates <- MCCreates
    MinAge <- MCMinAge
    LockTime <- MCLockTime
    Gas <- MCGas
    FeeRate <- MCFeeRate
    OfferedBlocks <- MCOffered
    BlockGasLimit = 3
    MinFeeRate = 1
    MaxSize = 3
    ExpiryBlocks = 2
    MaxHeight = 4
    MaxReorg = 2
INVARIANTS
    SpentIndexExact
    PoolMineable
PROPERTY ReorgReturns
