SPECIFICATION Spec
CONSTANTS
    Chars <- MCChars
    Code <- MCCode
    Blank = " "
    MaxQueue = 4
    MaxPending = 3
INVARIANTS
    SilentAtRest
    MarksAreSpaced
