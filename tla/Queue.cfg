SPECIFICATION Spec
CONSTANTS
    Turn = {1, 2, 3}
    Sender <- MCSender
    None = None
    MaxTaken = 2
    MaxCycle = 1
    MaxAttempts = 2
    MaxStops = 1
    MaxInterrupts = 1
    MaxParks = 1
CHECK_DEADLOCK FALSE
CONSTRAINT Bounds
INVARIANTS QueueTypeOK NothingLost EndedByAnotherNeverRan
PROPERTIES FoldsInOrder KeepsTurnPromise TurnsEnd
