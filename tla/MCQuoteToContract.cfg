SPECIFICATION Spec
CONSTANTS
    q1 = q1
    q2 = q2
    s1 = s1
    s2 = s2
    s3 = s3
    r1 = r1
    NoRow = NoRow
    Quotes <- MCQuotes
    Sessions <- MCSessions
    Runs <- MCRuns
    RuleLists <- MCRuleLists
    Requests <- MCRequests
SYMMETRY MCSymmetry
INVARIANTS
    QuoteMatchesContract
    OneRunningContract
    AcceptedTermsAgreed
CHECK_DEADLOCK FALSE
