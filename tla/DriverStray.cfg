SPECIFICATION DriverSpec
CONSTANTS
    Run = {1, 2}
    KeyOf <- MCOwnKey
    Authority <- MCAllLedger
    Method = {m1}
    Answer = {a1}
    Rendering = {w1}
    None = None
    MaxFence = 3
    MaxStamp = 0
    InOrder = TRUE
    Staging = FALSE
    TurnAttempts = 2
    PostDispatchAttempts = 2
    MaxClaims = 2
    MaxTrouble = 2
CHECK_DEADLOCK FALSE
CONSTRAINT MCStrayHandler
INVARIANTS OneRecordedReply RecordedReplyIsBooked OnlyTheOvertakenGoUnrecorded BatchHoldsLatestClaims
