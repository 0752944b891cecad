\* One operator, one bot, its key and another, two calls at once.
SPECIFICATION Spec
CONSTANTS
    OperatorIds = {o1}
    BotIds = {b1}
    Addresses = {a1, a2}
    Calls = {c1, c2}
    Requests <- CallsMade
    CacheTtl = 1
    RpcTimeout = 1
    MaxTime = 4
    None = None
    a1 = a1  a2 = a2  c1 = c1  c2 = c2  b1 = b1  o1 = o1
INVARIANTS VerifiedWereEntitled ReadyWereEntitled
