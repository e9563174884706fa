SPECIFICATION FairSpec
CONSTANTS
    Block <- MCBlock
    Genesis = "g"
    Parent <- MCParent
    Ancestors <- MCAncestors
    Height <- MCHeight
    ChainWork <- MCWork
    HeaderOk <- MCBlock
    Good <- MCBlock
    UndoRetention = 1
    OwnBlocks = {"a1", "a2"}
    Peer <- MCPeers
    PeerStart <- MCPeerStart
    Tx = {"t"}
    TxIn <- MCTxIn
    MaxOrphans = 1
    MaxInv = 1
    MaxHeaders = 2
    BanThreshold = 10
    TxPenalty = 5
    ThrowPenalty = 5
    MaxEvents = 1
INVARIANTS
    InFlightAwaited
    HeaviestKnownIsBest
PROPERTIES
    BannedOnlyBeyondWindow
    SyncedUnlessStuck
