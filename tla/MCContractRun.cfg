SPECIFICATION RunSpec
CONSTANTS
    W = 8
    MAX_STACK = 8
    MAX_CODE_SIZE = 256
    Digest <- MCDigest
    AddressWord <- MCAddressWord
    Program <- MCProgram
    MaxBlock = 3
INVARIANTS DecidesAsSpecified NeverExecutesData
PROPERTY Halts
CHECK_DEADLOCK FALSE
