CONSTANTS
    MaxTimes = 4
    CountLimit = 8
    Interval = 2
    Lifespan = 4
    MaxAttempts = 2
    MaxClients = 0
    Faults = {"untrusted"}
    Zero = Zero
    Junk = Junk
SPECIFICATION Spec
CHECK_DEADLOCK FALSE
PROPERTY TriesAgain
