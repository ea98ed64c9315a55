CONSTANTS
    a = a
    b = b
    c = c
    Chunks = {a, b, c}
    Size <- SmallSizes
    Histories <- NoReupload
    Stored = {a, b}
    BatchSize = 2
    EntryHead = 1
    QueueSize = 2
    IDLimit = 16
    Faults = {}
    Damaged = Damaged
SPECIFICATION Spec
CHECK_DEADLOCK FALSE
INVARIANT WholeFile
