SPECIFICATION Spec
CONSTANTS
    Run = {1, 2, 3}
    KeyOf <- MCKeyOf
    Authority <- MCAuthority
    Method = {m1, m2}
    Answer = {a1}
    Rendering = {w1, w2}
    None = None
    MaxFence = 2
    MaxStamp = 1
    InOrder = TRUE
CONSTRAINT OneInDetail
CHECK_DEADLOCK FALSE
INVARIANTS TypeOK DeliveryMatchesReceipts NoOvertaking
PROPERTIES RetryOnlyAfterRejection SettledIsFinal RecoverySticks StaleExecutionFrozen KeepsPromise
