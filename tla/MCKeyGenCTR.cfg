CONSTANTS
    Clients = {c1, c2}
    Batches = {2}
    Region = 14
    Slots = 1
    MaxCounter = 16
    MaxEpoch = 1
    MaxSecond = 1
    MaxStarts = 2
    Mortal = {c2}
    Busy = {c2}
    None = None
SPECIFICATION Spec
CHECK_DEADLOCK FALSE
INVARIANTS CountersMatch KeysRight PreparedRight
