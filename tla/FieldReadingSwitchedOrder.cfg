CONSTANTS
    Fields <- Catalogue
    Message <- MCMessage
    WordRange = 1048576

SPECIFICATION Spec

CHECK_DEADLOCK FALSE

INVARIANT
    SwitchedOrderIsRead
