SPECIFICATION Spec
CONSTANTS
    Delivery = {e1, k1}
    KeyForm = {k1}
    Conversation <- MCOneConversation
    MaxActive = 1
    MaxInFlight = 1
    MaxAttempts = 2
    Lease = 2
    Grace = 1
    ActiveAge = 3
    Retention = 2
    Backoff = 1
    CallTime = 1
    Window = 2
    Horizon = 4
    MaxRestarts = 1
INVARIANTS InboxTypeOK AdmittedOnce HandedWithinBudget OverlapCovered
