CONSTANTS
    CounterRange = 3
    CRC_LEN = 4
    Byte <- MCByte
    capacity = 4
    CrcOf <- MCCrcOf
    MaxFieldErrors = 1

SPECIFICATION Spec

INVARIANTS
    TypeOK
    BufferFits
    HeldTelegramIsIntact
    CrcModeIsMajority
    IInv

PROPERTIES
    RejectionLeavesNoTrace
    MinorityKindIsRefused
