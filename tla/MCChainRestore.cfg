SPECIFICATION FairSpec
CONSTANTS
    Block <- LongBlock
    Coin <- MCCoin
    Contract = {"k"}
    Account = {"acc"}
    Storage = {"s0", "s1"}
    Absent = Absent
    Body <- MCBody
    Commitment <- MCCommitment
    Sound <- LongBlock
    Genesis = "g"
    Parent <- MCParent
    Ancestors <- MCAncestors
    Height <- MCHeight
    ChainWork <- MCWork
    HeaderOk <- MCHeaderOk
    ContextOk <- MCContextOk
    UndoRetention = 2
PROPERTIES NeverStranded
