SPECIFICATION AcceptSpec
CONSTANTS
    Client = {c1, c2, c3}
    Backlog = 2
    MaxStarts = 1
    AcceptFaults = {"die"}
    None = None
CHECK_DEADLOCK FALSE
PROPERTIES ServedAlways
