SPECIFICATION FairSpec
CONSTANTS
    i1 = i1
    i2 = i2
    NoInvoice = NoInvoice
    NoPayment = NoPayment
    Invoices <- MCInvoices
    MethodOf <- MCMethodOf
    CreatedAt <- MCCreatedAt
    Overdue <- MCOverdue
    MaxAttempts = 2
    MaxFaults = 1
INVARIANTS
    PaidIsTraceable
    ChargedOncePerProvider
    WrittenOffForCause
PROPERTIES
    EveryOpenInvoiceConcludes
CHECK_DEADLOCK FALSE
