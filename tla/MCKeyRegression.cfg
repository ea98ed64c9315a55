CONSTANTS
    MaxTimes = 4
    CountLimit = 8
    Interval = 2
    Lifespan = 4
    MaxAttempts = 3
    MaxClients = 2
    Faults = {"untrusted", "lostClient"}
    Zero = Zero
    Junk = Junk
SPECIFICATION Spec
CHECK_DEADLOCK FALSE
INVARIANTS KeysAgree SameSecret
PROPERTIES OnlyBackwards Renewed
