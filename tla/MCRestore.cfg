CONSTANTS
    a = a
    b = b
    c = c
    Chunks = {a, b, c}
    Size <- SmallSizes
    Histories <- AnyHistory
    Stored = {a, b}
    BatchSize = 2
    EntryHead = 1
    QueueSize = 2
    IDLimit = 16
    Faults = {"kill"}
    Damaged = Damaged
SPECIFICATION Spec
CHECK_DEADLOCK FALSE
INVARIANTS BatchInRange
PROPERTIES CopiesFile RestoreEnds
