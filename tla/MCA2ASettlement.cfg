CONSTANTS
    i1 = i1
    i2 = i2
    buyer = buyer
    seller = seller
    unbanked = unbanked
    inactive = inactive
    NoRequest = NoRequest
    Treasury = Treasury
    Intents <- TwoIntents
    Agents <- MCAgents
    ActiveAgents <- MCActiveAgents
    WithIban <- MCWithIban
    Requests <- AllRequests
    Opening <- MCOpening
    ResultCodes <- DocumentedCodes
SPECIFICATION FairSpec
INVARIANTS
    SettledOnlyWhenAccepted
    HeldForCause
    AnswerMatchesLedger
    NoOverdraftWithoutRace
PROPERTIES
    AnswerFinal
    ImplementsTransfers
    EveryIntentEnds
CHECK_DEADLOCK FALSE
