SPECIFICATION Spec
CONSTANTS
    Run = {1, 2}
    KeyOf <- MCKeyOf
    Authority <- MCAuthority
    Method = {m1}
    Answer = {}
    Rendering = {}
    None = None
    MaxFence = 1
    MaxStamp = 1
    InOrder = FALSE
CHECK_DEADLOCK FALSE
INVARIANTS OneLeasePerKey
