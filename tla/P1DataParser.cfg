CONSTANTS
    MaxText = 6
    FieldErrorRange = 65536

SPECIFICATION Spec

CHECK_DEADLOCK FALSE

INVARIANTS
    TypeOK
    LinesAreForward
    EveryLineOnce
    PresentIfAccepted
    ErrorsAreCounted
    IInv

