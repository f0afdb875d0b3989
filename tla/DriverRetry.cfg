SPECIFICATION DriverSpec
CONSTANTS
    Run = {1}
    KeyOf <- MCKeyOf
    Authority <- MCAllLedger
    Method = {m1}
    Answer = {a1}
    Rendering = {w1, w2}
    None = None
    MaxFence = 3
    MaxStamp = 0
    InOrder = TRUE
    Staging = FALSE
    TurnAttempts = 2
    PostDispatchAttempts = 2
    MaxClaims = 2
    MaxTrouble = 1
CHECK_DEADLOCK FALSE
INVARIANTS RetriedTurnIsNotRefused
