CONSTANTS
    CounterRange = 2
    CRC_LEN = 4
    Byte <- MCByte
    CrcOf <- MCCrcOf
    MaxFieldErrors = 1
    capacity = 3
    FifoSize = 2
    LoopWhileAvailable = TRUE

SPECIFICATION Spec

INVARIANT
    AvailableIsIntact
