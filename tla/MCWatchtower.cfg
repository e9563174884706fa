SPECIFICATION FairTowerSpec
CONSTANTS
    Breach = {"c"}
    Worth <- MCWorth
    FeeLadder <- MCFeeLadder
    Address = {"x", "y"}
    Damaged <- MCDamaged
    RetryAfter = 2
    Deadline = 8
    Floors = {1, 2, 4, 8}
    MaxLag = 2
INVARIANTS
    ReceiptedRungsHeld
    UnpunishedOnlyIfExcused
PROPERTY
    StalledClimbs
CHECK_DEADLOCK FALSE
