SPECIFICATION FairSpec
CONSTANTS
    Accounts = {a1, a2}
    Ops = {o1}
    Bots = {b1}
    None = None
    FromBlock = 2
    MaxLookups = 2
    MaxMints = 2
    MaxTurns = 5
    a1 = a1  a2 = a2  o1 = o1  b1 = b1  b2 = b2
CHECK_DEADLOCK FALSE
INVARIANTS KeyOutlivesMint OneMint LookupComplete
PROPERTY LoadingEnds
