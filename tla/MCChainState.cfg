SPECIFICATION FairSpec
CONSTANTS
    Block <- MCBlock
    Coin <- MCCoin
    Contract = {"k"}
    Account = {"acc"}
    Storage = {"s0", "s1"}
    Absent = Absent
    Body <- MCBody
    Commitment <- MCCommitment
    Sound <- MCBlock
    Genesis = "g"
    Parent <- MCParent
    Ancestors <- MCAncestors
    Height <- MCHeight
    ChainWork <- MCWork
    HeaderOk <- MCHeaderOk
    ContextOk <- MCContextOk
    UndoRetention = 2
INVARIANTS
    ActiveIsPathToTip
    LedgerCommitted
    UndoWindow
PROPERTIES
    StrandedOnlyBelowWindow
    ReorgEnds
    RefinesForkChoice
