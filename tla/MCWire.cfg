CONSTANTS
    MaxSafe = 9
    MaxEdits = 2
    Objects <- MCObjects
SPECIFICATION Spec
CHECK_DEADLOCK FALSE
INVARIANTS
    ReadAsMeant
    UnreadableIsUnsafe
