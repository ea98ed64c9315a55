SPECIFICATION AcceptSpec
CONSTANTS
    Client = {c1, c2, c3}
    Backlog = 2
    MaxStarts = 1
    AcceptFaults = {"stop", "die", "accept"}
    None = None
CHECK_DEADLOCK FALSE
INVARIANTS OneClientATurn WaitsForOne
PROPERTIES Served
