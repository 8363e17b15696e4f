CONSTANTS
    s1 = s1
    s2 = s2
    s3 = s3
    NoRequest = NoRequest
    Free = Free
    Calls <- MCSessions
    Requests <- MCRequests
SPECIFICATION FairCreditSpec
INVARIANTS
    NonNegative
    BalanceIsPosted
PROPERTIES
    EveryRequestEnds
CHECK_DEADLOCK FALSE
