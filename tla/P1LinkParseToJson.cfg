CONSTANTS
    CounterRange = 2
    CRC_LEN = 4
    Byte <- MCByte
    CrcOf <- CrcOfBytes
    MaxFieldErrors = 0
    FifoSize = 4
    MaxBody = 40
    HeapLimit = 40
    MidTelegram = {"enable"}
    Sketches = {"parse_to_json"}
    Bodies <- MCBodies
    Noise = {"/", "7", "CR"}
    MaxFaults = 0
    PerMinute = 6

SPECIFICATION LinkSpec

INVARIANT
    AnnouncedIsSent
