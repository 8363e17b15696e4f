SPECIFICATION Spec
CONSTANTS
    a = a
    b = b
    c = c
    w1 = w1
    w2 = w2
    r1 = r1
    r2 = r2
    g = g
    Subs <- MCSubs
    Billable <- MCBillable
    Workers <- MCWorkers
    Requests <- MCRequests
    Runs <- MCRuns
    First = a
    Row <- MCRow
    MaxPeriod = 2
    MaxFaults = 1
INVARIANTS
    InvoicedOnceAfterEnd
    NoPeriodLost
    UpgradeReplaces
CHECK_DEADLOCK FALSE
