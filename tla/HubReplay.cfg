\* One bot, two requests in flight.
SPECIFICATION Spec
CONSTANTS
    OperatorIds = {o1}
    BotIds = {b1}
    Addresses = {a1}
    None = None
    OperatorNames = {}
    IdOf <- NoNames
    Nonces = {n1}
    Slots = {s1, s2}
    NonceTTL = 1
    RateWindow = 1
    RateMax = 1
    MaxTime = 1
    a1 = a1  a2 = a2  b1 = b1  o1 = o1  o2 = o2
    n1 = n1  n2 = n2  n3 = n3  s1 = s1  s2 = s2
INVARIANT OneTimeNonce
