SPECIFICATION FairDriverSpec
CONSTANTS
    Run = {1}
    KeyOf <- MCKeyOf
    Authority <- MCAllLedger
    Method = {m1}
    Answer = {a1}
    Rendering = {w1, w2}
    None = None
    MaxFence = 5
    MaxStamp = 0
    InOrder = TRUE
    Staging = TRUE
    TurnAttempts = 2
    PostDispatchAttempts = 2
    MaxClaims = 2
    MaxTrouble = 2
CHECK_DEADLOCK FALSE
INVARIANTS DriverTypeOK OneRecordedReply RecordedReplyIsBooked DeliveredMeansShown
PROPERTIES UsesTheStore EveryOwedTurnEnds
