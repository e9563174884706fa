SPECIFICATION FairSpec
CONSTANTS
    End = {"x", "y"}
    Key = {1, 2, 3}
    own <- MCOwn
    Message = {"version", "ping", "inv", "block"}
    Size <- MCSize
    Version = "version"
    RekeyInterval = 2
    MaxMessage = 1
    MaxFrames <- MCFrames
    MaxAltered = 1
    Garbage = Garbage
    None = None
INVARIANT NonceOnce
PROPERTIES
    RefinesLink
    AllIsHeard
CHECK_DEADLOCK FALSE
