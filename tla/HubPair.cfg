\* Pairing requests of two operators, with saves that fail and restarts.
SPECIFICATION Spec
CONSTANTS
    OperatorIds = {o1, o2}
    BotIds = {}
    Addresses = {a1, a2}
    None = None
    OperatorNames = {o1, o2}
    IdOf <- SameName
    Nonces = {n1, n2}
    Slots = {s1, s2}
    NonceTTL = 0
    RateWindow = 1
    RateMax = 2
    MaxTime = 0
    a1 = a1  a2 = a2  b1 = b1  o1 = o1  o2 = o2
    n1 = n1  n2 = n2  n3 = n3  s1 = s1  s2 = s2
SYMMETRY PairSymmetry
INVARIANT ToldIsKept
PROPERTY AllowListsChangeByOwner
