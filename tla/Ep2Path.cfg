SPECIFICATION Spec
CONSTANTS
    MaxQueued = 1
    Writers = {w1, w2}
INVARIANTS
    TypeOK
    PairIsWhole
    WriterIsWoken
PROPERTY
    HandedOverIsSent
