SPECIFICATION MCSpec
CONSTANTS
    Loops = 4
    Readers = 2
    Writers = 2
    Rounds = 2
    Raise = 20
INVARIANTS NoLostWakeup NumAccounted
PROPERTIES Counts RwCounts Terminates
