CONSTANTS
    SellerCountry = "NL"
    OssThreshold = 10000
    Plans <- MCPlans
    TestPlans <- MCTestPlans
    EventSets <- MCEventSets
    Customers <- MCCustomers
    PolicySets <- MCPolicySets
    Hashes <- MCHashes
    Subtotals <- MCSubtotals
    Countries <- MCCountries
    AnnualSales <- MCAnnualSales
    Amounts <- MCAmounts
    Methods <- MCMethods
    PaymentGroups <- MCPaymentGroups
    Overrides <- MCOverrides
    Discounts <- MCDiscounts
    Terms <- MCTerms
    OutcomePlans <- MCOutcomePlans
    OutcomeEvents <- MCOutcomeEvents
SPECIFICATION CalculationSpec
INVARIANTS
    PricedByEvent
    SimulationAgrees
    PoliciesDecide
    TaxesAgree
    RoutesAreCheapest
    RecalculationIsRebuild
    
CHECK_DEADLOCK FALSE
