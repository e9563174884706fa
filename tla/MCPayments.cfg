SPECIFICATION PaymentSpec
CONSTANTS
    Node = {"A", "B", "C", "D"}
    Chan = {"ab", "bd", "ac", "cd", "bd2"}
    Ends <- MCEnds
    Capacity <- MCCapacity
    Policy <- MCPolicy
    RiskFactor = 500000
    MaxHops = 20
    MinFinalCltv = 3
    Invoice <- MCInvoice
    Unissued <- MCUnissued
    Pushes = {0}
    Direct = {3}
    DustLimit = 2
    Life <- MCLife
    Plenty = 9
    MaxAttempts = 3
    MaxParts = 4
    Height = 1
    MaxClosed = 1
    MaxStuck = 1
INVARIANTS
    NothingLeftLocked
    CheapestUnlessOvertaken
PROPERTIES
    PaymentsAreAtomic
CHECK_DEADLOCK FALSE
