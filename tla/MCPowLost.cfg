SPECIFICATION Spec
CONSTANTS
    p1 = p1
    p2 = p2
    p3 = p3
    id1 = id1
    id2 = id2
    Process = {p1, p2, p3}
    Client = {id1, id2}
    Settings <- MCOne
    Batches = 1
    MaxRestarts = 1
    None = None
    Torn = Torn
CHECK_DEADLOCK FALSE
INVARIANT ForwardedAlways
