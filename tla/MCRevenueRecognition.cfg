SPECIFICATION FairSpec
CONSTANTS
    a = a
    b = b
    c = c
    r1 = r1
    m1 = m1
    m2 = m2
    Subs <- MCSubs
    Rules <- MCRules
    LastMonth <- MCLastMonth
    Requests <- MCRequests
    Messages <- MCMessages
    Malformed <- MCMalformed
    PctScale = 1000
    MaxPeriod = 1
    MaxFaults = 1
INVARIANTS
    PriceIsRecognised
PROPERTIES
    MessagesAreTaken
CHECK_DEADLOCK FALSE
