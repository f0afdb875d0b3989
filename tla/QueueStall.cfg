SPECIFICATION Spec
CONSTANTS
    Turn = {1, 2}
    Sender <- MCSender
    None = None
    MaxTaken = 1
    MaxCycle = 0
    MaxAttempts = 2
    MaxStops = 1
    MaxInterrupts = 1
    MaxParks = 1
CHECK_DEADLOCK FALSE
PROPERTY HeldTurnsAreFreed
