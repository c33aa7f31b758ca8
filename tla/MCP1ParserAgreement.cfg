CONSTANTS
    CounterRange = 2
    CRC_LEN = 3
    Byte <- MCByte
    capacity = 9
    CrcOf <- MCCrcOf
    MaxFieldErrors = 0
    MaxText = 8

SPECIFICATION SpecAgreement

CHECK_DEADLOCK FALSE

INVARIANTS
    ParserAcceptsOnlyWhatReaderHeld
    ReaderHoldsOnlyWhatParserAccepts
    CompleteRawParses
    SameReason
