SPECIFICATION FairSpec
CONSTANTS
    Delivery = {e1, k1}
    KeyForm = {k1}
    Conversation <- MCOneConversation
    MaxActive = 2
    MaxInFlight = 1
    MaxAttempts = 2
    Lease = 1
    Grace = 1
    ActiveAge = 1
    Retention = 0
    Backoff = 1
    CallTime = 1
    Window = 0
    Horizon = 2
    MaxRestarts = 1
PROPERTIES ReceiptedDeliveriesEnd
