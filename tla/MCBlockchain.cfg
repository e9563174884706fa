SPECIFICATION BlockchainSpec
CONSTANTS
    W = 8
    MAX_STACK = 16
    MAX_CODE_SIZE = 256
    Digest <- MCDigest
    AddressWord <- MCAddressWord
    None = None
    HALVING_INTERVAL = 2
    INITIAL_SUBSIDY = 400000
    MAX_HALVINGS = 2
    MAX_SUPPLY = 1600000
    RETARGET_INTERVAL = 3
    TARGET_SPACING = 2
    GENESIS_BITS = 67174400
    MAX_BLOCK_TXS = 3
    MAX_FUTURE_DRIFT = 2
    MEDIAN_WINDOW = 3
    COINBASE_MATURITY = 1
    MAX_MONEY = 1600000
    GasCeiling = 1000000
    SequenceFinal = 131071
    BLOCK_GAS_LIMIT = 66000
    Focus = {"coins", "claims", "clock", "covenants"}
    MaxHeight <- MCMaxHeight
    MaxTxs <- MCMaxTxs
    MaxTime = 6
    Miner <- alice
    Keys <- MCKeys
    Openings = {"preimage", "other"}
    Sequences = {0, 2, 131071}
    Locks = {0, 4}
    Fees = {0, 1}
    Payees <- MCPayees
    Guard <- MCGuard
INVARIANTS SupplyBalanced LocksHold
PROPERTY MinedIsAdded
CHECK_DEADLOCK FALSE
