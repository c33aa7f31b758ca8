CONSTANTS
    CounterRange = 2
    CRC_LEN = 2
    Byte <- MCByte
    CrcOf <- MCCrcOf
    MaxFieldErrors = 1
    FifoSize = 2
    MaxBody = 2
    HeapLimit = 2
    MidTelegram = {"clearAll", "doChecksum", "ChangeStream"}

SPECIFICATION Spec

INVARIANT
    AvailableIsIntact
