CONSTANTS
    MaxTimes = 4
    CountLimit = 8
    Interval = 2
    Lifespan = 4
    MaxAttempts = 2
    MaxClients = 2
    Faults = {}
    Zero = Zero
    Junk = Junk
SPECIFICATION Spec
CHECK_DEADLOCK FALSE
INVARIANT RenewedKeysAgree
