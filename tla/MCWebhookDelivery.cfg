CONSTANTS
    e1 = e1
    e2 = e2
    Endpoints = {e1, e2}
    NMessages = 3
    Workers = {w1, w2}
    Subscribed <- MCSubscribed
    Initial = {e1}
    Threshold = 2
    MaxAttempts = 2
    MaxDeliveryFaults = 1
SPECIFICATION WebhookSpec
INVARIANTS
    BreakerTripsForCause
PROPERTY
    MessagesAreWorkedOff
CHECK_DEADLOCK FALSE
