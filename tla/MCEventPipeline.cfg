CONSTANTS
    c1 = c1
    c2 = c2
    c3 = c3
    k1 = k1
    k2 = k2
    Nobody = Nobody
    Keys <- MCKeys
    BatchSize = 2
    Calls <- MCCalls
    KeyOf <- MCKeyOf
SPECIFICATION FairSpec
INVARIANTS
    CountedOnce
    NothingCopied
PROPERTIES
    EveryPayloadEnds
