CONSTANTS
    a1 = a1
    a2 = a2
    a3 = a3
    t1 = t1
    t2 = t2
    t3 = t3
    Accounts <- MCAccounts
    Transactions <- MCTransactions
    Amounts <- MCAmounts
SYMMETRY MCSymmetry
SPECIFICATION Spec
INVARIANTS
    DoubleEntry
PROPERTIES
    PostingsImmutable
